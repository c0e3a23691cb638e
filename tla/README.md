# Verification of Duet for the Xteink readers

TLA+ models of the parts of this firmware whose correctness depends on the
order in which things happen: two readers that exchange statistics over a lossy
radio, files that are replaced or restored on a card while power may fail, screens
that write back their copies of the same files, and two tasks that share the
display. TLC checks the models on small instances; TLAPS proves
the most important invariants for every value of the constants.

Line numbers refer to the files under `src/`; `PROJECT.json` maps every
definition to the lines it stands for and lists runs, mutants, findings,
hazards and theorems.

## 1. The system

One ESP32 runs one program. The *main task* polls the buttons, runs the current
screen (an *activity*) and carries out navigation; the *render task* draws;
radio and web callbacks run in tasks of their own. Everything that lasts is on
the SD card, nearly always in small binary files under `/.duet`.

| Component | State | Operations | What is hard | What makes it correct |
|---|---|---|---|---|
| Nearby Stats Sync (`NearbyStatsSyncActivity`) | screen state, peer, transfer in, transfer out, packet ring | radio callback, 9 packet types, polls with retries, buttons, timers | loss, repetition, two readers starting at once, a third one in range, a restart in the middle, a full ring, power loss in a promotion | a stored file is whole and its owner's; success means delivered; nobody waits for ever |
| Reading totals (`GlobalReadingStats`) | `global_stats.bin`, `.bak`, `.tmp`, the block on saves | load, save, reset | any storage call failing, power loss between any two, a newer build's file | a completed save is never lost, nothing half written is ever read |
| Storage namespace, migration (`DuetStorage`, `HalStorage`) | older directories, marker | import at boot, read fallback | interrupted imports, stale fallback | import loses and overwrites nothing |
| Activity manager, render task (`ActivityManager`) | current screen, stack, pending action, render mutex, two notifications | push, pop, replace, request update, wait for update, both loops | two tasks, result handlers, alerts, the 8 s limit | no dead screen is drawn, results reach their launcher, every change is drawn |
| Journal, ledger, session log, per-book stats | time and completions per day, per day and book, per book | commit a session, correct a day, complete a book | several files that have to change together, stale copies in two screens | every minute is recorded once, the copies agree, corrections are all or nothing |
| Stats date, achievements | date, maxima per metric | merge, save, alerts | merges from a peer | monotone |
| Stats archive (`StatsBackup`) | archive, staged and set-aside files | backup, restore, rollback | a restore that fails or stops halfway, what earlier ones left behind | nothing is lost; a failure is taken back, a success is the archive |
| Nearby position sync | phase, peer, position | offer, accept, retries | loss, two books | both end on one position |
| OTA and SD firmware update | partition, offset, boot slot | download, verify, flash, switch | power loss between erase and switch | never boots an unverified image |
| Readers (EPUB, TXT, XTC), KOReader sync, insights | pages, caches, session | reading, indexing, sync | worker against screen | (mostly data) |
| Small list stores, settings, credentials | lists, fields | add, remove, save | - | - |
| Web, WebDAV, USB transfer, downloads | open transfers | frames, requests | broken connections | (I/O) |
| Rendering, fonts, parsing, dictionary, input, sleep, vendored code | - | - | - | - |

The components meet at three places: a screen calls `ActivityManager` (calls on
the main task) and is drawn by the render task (shared memory under
`renderingMutex`); screens keep copies of the card's files between `onEnter` and
their last save; Nearby Stats Sync sends the files of the stores as they are on
the card and merges the ones it receives into them. Component by component,
`PROJECT.json` states what is modelled and why the rest is not.

The repository's own tests (`test/`) cover the migration core with a fake
file system, the power-button clicks, the JSON parsers, version comparison,
hyphenation and text composition. None runs two readers, two tasks or a power
loss during a save.

## 2. Plan

Done, in this order:

1. `NearbyStatsSync` with its proofs (all its safety properties).
2. `StatsStore` with its proofs (all its safety properties).
3. `ActivityManager` with its proofs (all its safety invariants).
4. `PeerSnapshots`, what the sync promises without packets, and the proof that
   `NearbyStatsSync` implements it.
5. `StatsRestore`, the restore of an archive, with its proofs (all its safety
   invariants).
6. `ReadingEdits`, the reader screens and the statistics screen over the files
   they share, with its proofs (all its safety invariants).

To do:

7. What becomes of an **alert** that is pending and of the **sleep screen** when
   the code of the covered screen navigates (an extension of `ActivityManager`).
8. One atomic register with a bounded loss of writes that `StatsStore`
   implements, and that `ReadingEdits` takes for granted.
9. Nearby position sync; firmware flashing; the journal's 366-day window as a
   pure function against a reference definition.

## 3. Modules

Every component has a specification `M.tla`, an `MCM.tla` that only gives
constants and, for `StatsRestore`, a smaller set of initial cards,
configurations, and `M_proofs.tla`. (The proofs about `NearbyStatsSync` take
four modules, each extending the one before: `_proofs`, `_steps`, `_copies` and
`_transfers`.) A constant `Env` selects which users' actions
and faults a run allows, so that one `Next` serves all runs.
Definitions marked "Mutant" are plausible slips of the code; putting one in the
place of the definition it mirrors breaks a property, which shows that the
property depends on that line.

### NearbyStatsSync

`dev[d]` is what the loop task of reader `d` keeps in memory, `events[d]` the
ring between radio callback and loop, `local[d][i]` the version of the reader's
own files, `synced[d][p][i]` the files stored for peer `p`, `air` whether
packets may be lost, `foreign` the readers with another format of the totals.

* `Receive(d)` is `handleEvent` (lines 650-800, 1050-1230), one action per
  packet type and outcome: `RecvHello`, `RecvName`, `RecvStats`, `RecvAck`,
  `RecvMeta`, `RecvChunk`, `RecvDone`, `RecvFileAck`, their refusals, the
  answers of a `SYNCED` screen (`Late...`), failures of the card (`CardFails`)
  and a power loss between removing the old file or totals and renaming the new
  ones (`Replacing`, `Removed`).
* `Poll(d)` is the part of `loop()` after the queue is empty: the three retries,
  the start of the files, completion, the idle timeouts.
* `Enter`, `Leave`, `StartSync`, `Prepared`, `PrepareFails`, `Read` are the
  user's actions.
* `BeginNextFile` announces a file as it is now; one that cannot be read is
  announced as empty (`AnnouncedSizes`, lines 1046-1049).
* A broadcast reaches any subset of the listening readers; duplicates come from
  the retries themselves; the ring evicts its oldest packet.

Abstractions. A file is a sequence of pieces, each naming reader, version and
index; the CRC is ideal. Achievements, merged field by field in the code, are
versions merged by maximum like the date. `localStatsReady_` and `peerSeen_`
follow from the state and are left out; so are the peer's name on the card,
progress texts, the statistics log. A send that fails and a mutex that is busy
in the callback are losses. The idle limit is nondeterministic, except that in
clear air a retry is not due before the answer has come (`RetryDue`); a
failed send not refreshing the idle timer is part of that choice. Apart from a
file that cannot be read, sizes do not change; the 16-bit chunk index is not
reached.

### PeerSnapshots

What a user may rely on, whatever the radio does: `own[d][i]` is the version a
reader has of its own item `i` (totals, journal, ledger, date, achievements),
`held[d][p][i]` the copy it keeps under the name of peer `p`. Copies are
replaced in one step (`Deliver`) by one that some other reader really had, never
by an older one of the same reader; dates and achievements may be adopted in the
same step; own items only grow; copies are lost only by a fault of the card
(`Lose`). `Implements` in `NearbyStatsSync` instantiates it: `own` is `local`,
`held` is read off the stored files by `CopyIn`, which stands a torn file for
itself, so that a partial promotion is no `Deliver`.

### StatsStore

`card` holds the file, its backup and the temporary file; `legacy` what an older
firmware left; `task` the operation under way and the next storage call it
makes; `mem` the totals a screen holds; `saved` the last save that returned
true; `harm` how many writes were disturbed (0, 1, more).

Each action is one call of `HalStorage` in `saveToFile` (lines 214-284), in the
order of the code, with its failure branch; `Boot`, `ImportFile`,
`FinishImport` are the migration of the two files; `Load` is `load` with the
fallback of `resolveReadPathLocked`; `PowerLoss` may come between any two calls;
`NewerBuild` is a newer firmware saving by the same rotation.

Abstractions. Totals are a stamp that orders everything ever written. A rename
is atomic, a file opened for writing is torn until it is synced and checked, the
file system itself is not damaged. Copying one file during the import (through
its own temporary file) is one step; all other files of the import are one
entry that may fail. One screen holds the totals at a time; stale second copies
are the subject of `ReadingEdits`. At a reset the user gives the totals up on
confirming it, so a reset that stops halfway owes nothing.

### ActivityManager

`currentActivity`, `stackActivities`, `pendingActivity` and `pendingAction` are
the manager's members, `pc` says where the main task is in `loop()`, `rpc` where
the render task is, `renderingMutex` who has the lock, `notified` and `answered`
the two task notifications (both are taken with `pdTRUE`, so a count is a flag),
`frame` whether what the current screen holds is on the panel.

* `StartLoop`, `Pop`, `Popped`, `GoHome`, `Launch`, `EndLoop` are the sections of
  `ActivityManager::loop` (67-167); a section under the lock is one step.
* `TakeNotification`, `BeginRender`, `FinishRender`, `AnswerWaiter` are
  `renderTaskLoop` (45-65).
* `RequestUpdateAndWait`, `RejectedUpdate`, `Rendered`, `TimesOut`,
  `Deregister` are `requestUpdateAndWait` (360-412), split where the tasks can
  interleave.
* The code of a screen (its `loop`, `onEnter` or a result handler) is any
  sequence of `LockAndChange`, `Unlock`, `RequestUpdate`,
  `RequestUpdateAndWait`, `StartActivityForResult`, `Finish`, `GoTo`,
  `RaiseAlert`, ended by `Return`. Screens are held to the documented rules:
  change under the lock, ask for an update of what you changed.
* `GlobalPush`, `GlobalReplace`, `GoToSleep`, `UsbUpdate` are what `main.cpp`
  calls between two loops, `BootSplash` and `BootSilent` its two ways to start.

Abstractions. Only the main task waits for updates; the rejection of a caller on
the render task changes nothing and is left out, as are effects of `onExit`,
calls before `begin()`, `RenderLock` in `Try` mode and the text of alerts. A
splash does nothing in its `loop`. `amiss` is a history variable: some wait has
timed out, or a render turn has found no screen.

### StatsRestore

`card[p]` is the content of the file at path `p`, a path being a file and the
suffixes `.import.tmp`, `.import.prev`, `.import.omit` it has been given;
`exports` the archives on the card; `op` the restore under way (`pc` its
section, `todo` the entries that section has not handled yet, `omitted` and
`committed` what has to be taken back); `hist` what the card held when the
restore began, whether an export has room for it (`room`) and which calls have failed.

The actions are the calls of `importAllReadingStats` (773-873) in the order of the
code, each with its failure: `Export` (the safety archive), `Stage`, `Unstage`,
`Omit`, `SetAside`, `SwapIn`, `Clean`, and on a failure `UndoSwap`, `UndoAside`,
`UndoOmit`. `Begin` chooses any archive, `Read` changes files between two
restores, `PowerLoss` ends a restore anywhere; nothing at boot resumes or undoes
one, so the next restore meets what it left.

Abstractions. A path is one of few file numbers, an archive a function from paths
to contents (the parser refuses anything else before a file changes). What limits
an export is `CanExport`: the number of entries (`MaxEntries`, 1024 in the code),
and as one choice `room`, that no file is longer than 64 MiB and one of the 1000
names of the minute is free. A rename is
atomic and needs its target to be free. Creating a directory, and reading back
the archive between staging and renames, fail like the call they prepare.

### ReadingEdits

Reading time and completed books are kept in the file of each book (`book`), the
totals (`totals`), the journal per day (`journal`) and the ledger per day and
book (`ledger`). `rd` is the reader screen with its copies `st` and `gl` and the
uncommitted time `ses` of its session; `sc` the statistics screen with its
copies and `live`, the session's time it shows. An operation (`op`) is the list
of writes still to come (`todo`), carried out one by one by `Write`; nothing else
runs meanwhile, except that a write may fail (`WriteFails`), the journal may not
be readable (`JournalUnreadable`) and power may go (`PowerLoss`).

* Reader: `Open`, `FirstPageDrawn` (the deferred load), `Read`,
  `ToggleCompleted` and `ToggleIgnored` (`setBookCompleted` in a book that is
  tracked, and in one that is not), `SaveBook`, `Leave` (`onExit`, from
  home, sleep or time-out) and `ShowAfterReading`, both with `Commit`
  (`commitReadingStats`), `Return` (what is imported from the statistics screen:
  `Imported` by an EPUB reader, `Reloaded` by an XTC reader).
* Statistics screen: `OpenStats`, `OpenHomeStats`, `OpenOther`, `EditCompletion`,
  `EditDate`, `SaveStats`, `Correct` (`saveDayCorrection`, with `Undo` for its
  compensations and `Corrected` for its end), `CloseHomeStats`.
* File browser: `BrowserToggle`.

What the statistics screen shows and edits (`done`, `foreign`) is merged from the
synced statistics of other readers (`Merged`, the constants `PeersDone` and
`PeersDated`), each time a book is opened there and after a correction; `local` is
what the screen has loaded of this reader's own file, and `SaveStats` writes the
merged completion into it. The books of `Ignored` lie under `/ignore_stats/`: both
readers neither count their time nor their completions, the file browser and the
statistics screen do count the completions.

`due` and `over` are history variables: the time read and corrected per day and
book, and why copies may differ. Newer data on the card has been replaced by
older copies (`"unloaded"`, `"asleep"`, `"epub"`; `"lost"` would be any other
reason), or a completion is counted in some copies only, because it came from
another reader (`"merged"`) or belongs to an ignored book (`"ignored"`). After one
of the last two a journal may or may not have something to take off on a cleared
finish date (`Counts`).

Abstractions. Time is counted in steps of a correction (a minute); sessions do
not cross midnight and the clock is set. The other fields of the statistics
(pages, sessions, buckets, streaks, pace, dates) move with the time or not at
all. The totals, the journal and the ledger are replaced or appended as a whole
(the subject of `StatsStore`); the file of a book is written in place and may be
torn. Other readers' ledgers and completions are constants. Finish dates lie
within the 366 days of the journal. The setting that stops tracking altogether
makes every book an ignored one. Deleting or resetting statistics is
not modelled, nor is an EPUB moved on completion.

## 4. Runs

| Run | States | Shows |
|---|---|---|
| `SyncExchange` | 62,492 | two readers of the same or different dates, both may start; files of two, no and one chunks; ring of 2; losses until the air clears: types, stop-and-wait, success means delivered, and a sync that was started ends in `SYNCED` on both; only a date overtaken by a merge makes one fail |
| `SyncDamage` | 250,920 | damaged chunks, files that cannot be read, card failures, power loss in a promotion, awards after a sync, a ring of 1: stored files are whole, dates converge and never go back, every step is one of `PeerSnapshots` |
| `SyncVisits` | 994,809 | restarts, aborted preparations, reading between visits, repeated syncs, damaged chunks, a foreign reader: what is stored is the peer's, is only ever replaced, never by an older copy (`PeerSnapshots`), and nothing foreign is stored |
| `SyncThree` | violation | a third reader in range takes over a session: totals or files of one reader are stored under the name of another |
| `SyncEndless` | violation | a stalled sender resends for ever; its resends count as progress, so no limit ends them |
| `StoreFaults` | 255,766 | the store under every fault, on new and old cards |
| `StoreLegacy` | violation | on a card with the older directories, a power loss between two renames shows the totals of the day of the migration |
| `NavScreens` | 502,041 | screens, alerts, global buttons, sleep and timeouts against the render task: five invariants and two liveness properties |
| `NavTimeout` | violation | after a wait has timed out, a later one is confirmed by the late answer |
| `RestoreFaults` | 3,048,477 | two restores in a row, two failing calls in each, power losses, leftovers, reading in between, a file of the older firmware, archives of at most 3 entries: nothing lost, failures taken back, successes are the archive, a safety copy, no false refusal |
| `EditsReading` | 5,164,361 | an EPUB, an XTC that another reader has finished and an ignored XTC, read, completed and corrected from every screen, one fault: seven invariants |
| `EditsEarly` | violation | a book marked as finished before its statistics are loaded: the stored totals are replaced by empty ones |

**Bounds and why they are enough.** *Sync*: two readers suffice for every
property of a pair, the third one is in `SyncThree`; a file of two chunks has a
first, a next and a last chunk, an absent file takes the shortcut of the empty
kind, and one merged file follows the stored ones. Both readers start with any
versions of date and achievements, so that merges overtake transfers. A ring of 1 or 2 overflows
in each run (the code's has 8 places; a smaller one evicts more). Versions 0 and
1 distinguish an old from a new file. *Store*: `MaxStamp` 5 allows the totals an
older firmware left (1, 2), two sessions or saves over them, and a reset or a
newer build's save; every step can fail any number of times. *Screens*:
`MaxScreens` 6 identifiers, `MaxDepth` 1 covered screen, over which an alert
may come as a second: a pop onto a screen with and without a handler, a handler
that starts another screen, an alert between a screen and its child. One alert
is alive at a time. The theorems cover every depth and number. *Restore*: three
files are one of each kind the code tells apart (kept when omitted, with an older
copy, in a peers' directory, where leftovers count as files); `MaxRestores` 2
lets the second restore meet what the first left, `MaxFaults` 2 lets a step and
its taking back fail, `MaxEntries` 3 is reached when a first restore has left files in
the peers' directory. `MCInit` starts from cards with and without the book's
file and archives that have, omit or add one. *Edits*: three books (one EPUB, which another
reader has read on the earlier of the two days, one XTC completed by another reader,
one XTC left out of the statistics), `MaxTime` 2 units: enough
for a session beside a correction, and for a correction to take away what was
read in the session before. `Onward` FALSE (guard `Calm`) stops a behaviour once a
fault, an overwriting write or an unequal count has been carried through, since the
properties promise little after it; the theorems hold without that bound.

Deadlock is not checked in the sync runs: with no starter left or the `Env` of a
run used up, all readers may rest for good. Nor in the restore and edits runs,
whose bounds (`MaxRestores`, `Calm`) end behaviours. It is checked in the runs of
the store and of the screens.

**Fairness.** *Sync* (`LoopFairness`): the loop task keeps draining its queue
(WF `Receive`) and then polls; a poll needs an empty queue, which packets keep
interrupting, so `Poll` is strongly fair: the code drains at most what has
arrived and polls in every iteration. A preparation ends, an idle limit that
runs on runs out, the air clears (only in runs with `"Clear"`). `RecvAck` is
strongly fair as well: the ring is drained in every iteration, so a packet that is
queued again and again is handled in the end, although a full ring may evict each
one of its copies. With weak fairness alone TLC finds two readers that answer each
other's totals for ever, the newest STATS always evicting the ACK that would end
it. In `SyncExchange` the screens are opened (WF `Enter`), and no timeout is part
of its `Env`: it assumes that the air clears within the limits of 30 s.
*Screens*: both tasks are scheduled (WF of the main loop, of the render task's
steps); a screen releases the lock, asks for the updates it owes and returns (SF
`Return`, for it may call others in between); the FreeRTOS mutex goes to its
longest waiter, so the render task gets it in the end (SF `BeginRender`).
Nothing is assumed about the 8 s running out, so `WaitsEnd` holds without being
rescued by the limit.

## 5. Proofs

Each theorem holds for every value of the constants that satisfies the `ASSUME`
of the module (distinctness of `None`, finite bounds as natural numbers, `Env` a
subset of the events; books and days are finite sets). No finiteness of `Device`
and no bound on the depth of the stack is used. Every safety property of a
passing run, invariants and action properties alike, is a theorem, and so is the
refinement.

### Nearby Stats Sync

**Steps.** `NearbyStatsSync_steps` reduces the two dozen actions to `Turn(d, s, S)`
(the reader `d` goes to `s` and sends packets of `S`; queues keep a suffix of what
they had, `Extends`) and `Effect(d, s, S)`, one of a dozen effects on what is
received, sent and stored. Every later proof has one case per effect.

**Any number of readers.** `TypeCorrect` and `StoredFilesAreWhole` (`SavedWhole`)
come from `WholeInv`, which adds that every transfer under way was announced by
a reader (`SourceKnown`): a promotion writes what was verified, verified data
equals a snapshot of the announcing reader, every other step leaves the store
alone. `CopiesAreKept` and `MergesNeverRollBack` are read off the effects.
`SyncImplementsSnapshots` is the refinement: a step changes at most one stored
copy (`ReplacedAt`), and that change is `PeerSnapshots!Deliver`. That no older
copy ever replaces a newer one of the same reader needs `OrderInv`: in every queue
the versions of one item of one reader come in order (`InOrder`), none below the
copy that is kept or the one being received (`NoneBelow`), none above what its
reader will announce next (`Upcoming`, the version of its open transfer, else its
own file). It holds across visits, because a screen that is opened starts with an
empty queue while the other's queue only ever gets newer packets behind older ones.

**Two readers.** With a third one in range these are false (`SyncThree`), so they
assume `TwoReaders`: `SavedFilesAreThePeers` follows from `OrderInv` and
`NoneOwn`; `ForeignIsRefused` from `ForeignInv` (nothing of a foreign reader is
acknowledged, announced or received, across its visits); `DatesHaveConverged` from
`DateInv`: for each of the two, either the other's date is already reached, or the
transfer that will carry it has not been acknowledged. The last one assumes that
nobody reads between visits (`"Read" \notin Env`), for a reader that goes on
reading has a later date than it has sent, and TLC finds that.

**One exchange.** `Lasting` (no `Leave`, `PowerLoss`, `Resync`): once in an exchange,
nobody leaves it or starts it over.
* `TransfersStopAndWait` from `TransferInv`. For each direction it relates what
  one reader sends, what the other has of it, and every packet on the way in both
  directions: `Agree` (receiver and sender differ by at most one chunk; the kinds
  done with are a prefix of `KindOrder`), `Fits` (an offer in the queue is of the
  current file or of one already sent), `Answers` (an acknowledgement in the
  queue is justified by what the receiver has), `MetasFirst` (no announcement is
  queued behind a piece of its file, so a late one cannot start the file over).
* `SuccessMeansDelivered` from `DeliveryInv`, which adds that a version on its way
  is the current one and that an acknowledged item is on the other's card. It
  assumes that the files to be sent can be read (`Readable`): one that cannot is
  announced as empty, and both readers report success without it.
* `ExchangesDoNotFail` from `GenuineInv`: each chunk on its way is a piece of the
  announced version or, for a date or achievements file, of the newer version that
  its sender has meanwhile taken over from the receiver (`AsAnnounced`), and never of
  both (`FromOne`). So the check at the end finds what was announced, or exactly the
  receiver's own newer file (`Overtaken`), the one excuse of `NoFalseFailure`. Nothing is assumed of the dates and achievements the two begin
  with. `Faultless` excludes what else makes a reader fail: faults, unreadable
  files, timeouts and foreign readers.

`Lasting` is needed: with `Leave` TLC violates `StopAndWait` and `NoFalseFailure`
with two readers and one file of one chunk, with `Leave` and `Read`
`SyncedMeansDelivered` (section 6). `SyncExchange` satisfies all hypotheses.

### Totals store

`StoreTypeCorrect`, `TotalsNeverTorn`, `CompletedSavesSurvive` from `StoreInv`.
`SavesSurvive` only speaks of an idle store; to be inductive it needs where the
totals are in the middle of a write: `WriteOrder` (which call comes when, and that
the temporary file is whole from the rotation on), `MemIsNew` (a save never writes
older totals), `Undisturbed` (they are the file, or the backup while it is rotated
away, or still only in the older directories) and `DisturbedOnce` (after one
disturbed write they may be the backup only, or, in the middle of the next save,
the temporary file only). The last case is why the guarantee ends there: a second
power loss at that place loses the totals. `NewerTotalsSurvive` adds `NewerInv`:
totals in memory that are not blocked were loaded when no newer file could be
found, and none has come since, neither as the file nor, during a rotation, as the
backup.

### Activity manager

`ManagerTypeCorrect`, `NoDeadScreenDrawn`, `PendingIsPaired`, `ResultsGoHome`,
`RenderedIsShown` from `ManagerInv`. Three parts make it inductive.
`LockDiscipline`: the render task has the lock from drawing to its answer, so the
main task cannot change the current screen meanwhile, except when there is none.
`LaunchersBelow`: a stacked screen with a handler awaits exactly the screen above
it; alerts and global pushes go on top of a screen that awaits nobody, since the
code that set a handler always leaves a child pending, which only the end of the
screen itself takes back. `AnswersMeanShown`: an answer under way, or not yet
taken, belongs to the wait in progress and to a drawing of what the screen held.

### Restore

`TypeCorrect`, `NothingEverLost`, `FailureIsUndone`, `SuccessIsArchive`,
`SafetyCopyHolds`, `RefusedForAReason`. The invariant is stated for one path at a
time (`FileInv`): in each section of the restore, where the content a file had and
the one it is to get are, depending on whether its entry is still to come, under
way or done. A step handles one entry and leaves the paths of every other file of
this reader alone (`SameFile`), so one lemma per action settles the path it handles
and one lemma all others. Peers' files are outside of it: their leftovers can be
entries themselves, so their paths are not independent. `SafetyKept`, which includes
them, is proved from the export alone, and so is `NoFalseRefusal` from
`RefusalInv`: while no call has failed, what a section is about to move is there
(`Ready`), what the export saw is still there (`StillThere`), and a restore turns
back only for a file that cannot be moved (`TurnsBack`, `Unmovable`) or before it
changes anything, where the export meets one of its limits (`CanExport`).

### Edits

* `TypeCorrect`: `TypeInv` adds to the types which lists of writes each kind of
  operation can have before it and which screens it comes from; it is what makes
  the totals and days natural numbers (a correction never exceeds the book, the
  totals or the day as shown).
* `LedgerComplete`, `NothingOverdrawn`: `LedgerInv` is `CommitsOnce` (a session is
  committed at most once, whatever screen is shown after it), `Balanced` (ledger,
  writes to come and the uncommitted session add up to what was read and
  corrected, for each day and book) and `Covered` (with the other readers' time
  they never go below zero).
* `CorrectionsAtomic`: `CorrectionInv` says how far a correction has come (`Made`)
  or has been taken back (`TakenBack`), by which writes are still to come.
* `EditsAreSeen`: `SeesInv` compares the reader's copies with the card as it will
  be once the writes under way are made (`BookToBe`, `TotalsToBe`).
* `CompletionsCountedAlike` (`CompletionsKept`): `CountInv` counts the completions
  the books' files will have (`Marks`) against the totals and the journal as they
  will be (`CardCounts`); a screen with unsaved edits has counted as the journal
  has, with its own book as edited (`ScreenKnows`); a reader about to close knows
  what it has saved (`ReaderKnows`). `Recount`: setting or clearing one mark moves
  the cardinality by the `Count` that the operation writes, and the cut-off at zero
  never bites. Books of `Ignored` are not counted on either side. A completion merged
  from another reader is in `sc.done` and not yet in `Marks`; the invariant lets such a
  page be shown (`sc.done = Merged(...)`), and no such page has been edited while
  `over` excuses nothing.
* `MinutesAddUp` (`MinutesKept`): `TimesInv` says the same of times, with sums in the
  place of counts: journal, totals and files as they will be are the sums of the
  ledger as it will be (`JournalTimes`, `FileTimes`), and a statistics screen over no
  reader, or over an XTC reader, has the times of the card (`ScreenTimes`); over an
  EPUB reader it need not, which is why `MinutesKept` excuses `"epub"`. The
  journal's cut-off at zero is excluded by `Covered` on days without peers.
* Sums: `Sum` is the library's fold, a recursive function over subsets chosen by
  `CHOOSE`. That it exists and what it yields (`FoldExists`, `FoldStep`), that it is an
  integer (`SumType`) and that raising one value by `n` raises it by `n`
  (`SumChange`) are proved for every finite set from a least counterexample
  (`LeastNat`, `LeastSubset`, with the library's well-foundedness of `<` and of
  strict subsets), since the library's induction theorems cannot be instantiated.

### Only model-checked

The liveness properties (`StartedSyncCompletes`, `ChangesAreDrawn`, `WaitsEnd`, and
the violated `NoEndlessSync`), since TLAPS does not handle fairness. The
invariants of the proofs themselves (`OrderInv`, `TransferInv`, `CountInv`,
`TimesInv` and the others) were checked with TLC on the instances of section 4
before they were proved; they are not part of the runs, which check what they are for.

## 6. Findings and observations

The violation runs are described under "findings" in `PROJECT.json`, each with
the line of documentation, comment or test it contradicts. Read in the code but
without a run of their own:

* A date (or achievements) merged between the announcement of its file and the first
  chunk changes the file under its CRC; the receiver then reports a failure, though
  no packet was lost and no card failed. It takes two readers with different dates,
  and a next sync, with equal ones, succeeds. `NoFalseFailure` and
  `StartedSyncCompletes` name the case (`Overtaken`) and show that it is the only one.
* A file that is there and cannot be read is announced as empty (1046-1049). The
  receiver keeps its old copy or none, and both readers report success.
* A screen in `ERROR` ignores every packet (line 659), although the comment at
  line 742 counts it among those that join a later sync.
* No timer leaves `SYNCED` or `ERROR`, though the header (127-128) and the
  changelog speak of one.
* A repeated STATS with newer totals is acknowledged and not stored. A reader that
  is left, reads on and opens the screen again, while the other has not yet handled
  the STATS of its first visit, is acknowledged for the newer totals: it reports
  success, and the other keeps the older ones.
* If a reader leaves and comes back while the other is in the middle of an
  exchange, the chunks of its first visit still queued there may go into the
  transfer of its second; the check at the end then fails for no fault of the card.
* A power loss between removing and renaming a received file or totals leaves no
  snapshot of that peer until the next sync.
* Two disturbed saves in a row can lose the totals; a reset is not atomic; a
  file that exists and cannot be opened is treated like a missing one.
* An alert or the sleep screen that is pending is dropped when the code of the
  screen still current navigates first (lines 157, 252).
* An EPUB reader that is left after a day was corrected in the statistics screen
  over it writes its own totals and book file back, without the correction; ledger
  and journal keep it. A reader put to sleep under the statistics screen also
  writes back completions older than those saved there (`over`).
* A power loss during a restore leaves a mixture of live and archived files, which
  nothing at boot completes or undoes. In the directories of peers' files what it
  leaves counts as further peers, and a later restore that fails may not put a
  peer's file back under its name, although it logs "live files rolled back".
* The statistics screen merges the completion and dates of other readers into what it
  shows (`BookStatsActivity.cpp` 315, 377, 478, 646). Any saved edit of a date writes
  them into this reader's file (118) without counting them in totals and journal;
  clearing the finish date takes one off both that was never added, and since the
  merge brings the completion back when the book is opened again, this can be
  repeated.
* A book under `/ignore_stats/` that is completed in the file browser
  (`BookActions.cpp` 206-213) or the statistics screen is counted in the totals and
  the journal; the readers do not count it (`EpubReaderActivity.cpp` 4206), and
  `CHANGELOG.md:313` says that such books keep their status "without contributing
  reading time, sessions, history, or completed-book totals to aggregate statistics".
* A finish date outside the journal's 366 days is counted in the totals and not in
  the journal; one in the future moves its window, and what falls out of it is gone
  (`ReadingJournal.cpp` 259-330). The model assumes dates within the window.
* The safety export of a restore has limits (`StatsBackup.cpp` 257, 312, 693); beyond
  them nothing can be restored. What cut off restores leave in the peers' directories
  counts against them.
* A correction that takes more than the journal's day has (a day with time of
  another reader) stops the day at zero; taking it back adds the whole of it.

## 7. Not modelled

Pixels, fonts, layout, parsing and dictionaries (data, not control); web server,
WebDAV, downloads (request-by-request I/O); settings and small lists (one
writer, no protocol); the input's click detector (exhaustive unit tests);
vendored libraries. Of the statistics: the formats of the files, deleting and
resetting them, sums over peers, the daily backup. Position sync, firmware update
and the journal's window are in the plan; USB framing would come after them.
