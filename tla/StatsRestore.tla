----------------------------- MODULE StatsRestore ------------------------------
(***************************************************************************)
(* Restoring a statistics archive (importAllReadingStats in StatsBackup):  *)
(* the live files are first exported, the archive's files are staged next  *)
(* to the live ones, files the archive omits are moved away, and then one  *)
(* file after the other is set aside and replaced.  A step that fails      *)
(* makes the restore take everything back; a power loss just ends it.      *)
(*                                                                         *)
(* Every action is one call of the storage layer that changes the card, or *)
(* two of which the first only clears a stale file out of the way.         *)
(***************************************************************************)
EXTENDS Naturals, Sequences, FiniteSets

CONSTANTS
  File,         \* the statistics files, numbered in the order of their names
  Synced,       \* files in one of the directories that hold peers' statistics
  Preserved,    \* files kept when an archive omits them (achievements)
  Legacy,       \* files that may have a copy in an older firmware's directory
  Version,      \* contents of a file
  Newer,        \* the content further reading gives a file
  MaxEntries,   \* ARCHIVE_MAX_ENTRIES, 1024 in the code
  MaxRestores,  \* bound: restores begun
  MaxFaults,    \* bound: calls of the card that fail during one restore
  Env,          \* which surroundings a run allows: "Fault", "PowerLoss", "Read"
  None

VARIABLES
  card,     \* card[p]: content of the file at path p; its domain is what exists
  older,    \* older[f]: the copy of f in the older directory; never changes
  exports,  \* the archives on the card
  op,       \* the restore under way, see Idle
  hist,     \* what the last restore was asked, found and met, see Begin
  outcome   \* how the last restore ended; "none" once the files were used again

vars == <<card, older, exports, op, hist, outcome>>

-----------------------------------------------------------------------------
(* Paths.  A path is the number of a file and the suffixes it has been     *)
(* given: With(Plain(f), "prev") is f.import.prev.  A file left behind in  *)
(* a directory of peers' files may itself be archived, moved and replaced, *)
(* which is how suffixes pile up.                                          *)

Suffix == {"tmp", "prev", "omit"}
Path == [file : File, ext : Seq(Suffix)]

ASSUME RestoreConstants ==
  /\ File \subseteq Nat
  /\ Synced \subseteq File /\ Preserved \subseteq File /\ Legacy \subseteq File
  /\ Newer \in Version /\ None \notin Version /\ None \notin Path
  /\ MaxEntries \in Nat /\ MaxRestores \in Nat /\ MaxFaults \in Nat
  /\ Env \subseteq {"Fault", "PowerLoss", "Read"}

Plain(f) == [file |-> f, ext |-> <<>>]
With(p, s) == [p EXCEPT !.ext = Append(@, s)]

Exists(p) == p \in DOMAIN card
Put(c, p, v) == [q \in DOMAIN c \cup {p} |-> IF q = p THEN v ELSE c[q]]
Without(c, p) == [q \in DOMAIN c \ {p} |-> c[q]]
CanRename(c, p, q) == p \in DOMAIN c /\ q \notin DOMAIN c
Renamed(c, p, q) == Put(Without(c, p), q, c[p])

IsPlain(p) == p.ext = <<>>

(* Mutant: the collector does not know the achievement ledger.             *)
CollectedForgets(p) == IsPlain(p) /\ p.file \notin Preserved

(* collectCurrentStatsPaths: outside the peers' directories only known     *)
(* names count, inside them every name without ".tmp" does.                *)
Collected(p) ==
  IsPlain(p) \/ (p.file \in Synced /\ \A n \in DOMAIN p.ext : p.ext[n] # "tmp")
Current(c) ==
  {p \in DOMAIN c : Collected(p)} \cup {Plain(f) : f \in DOMAIN older}

(* openFileForRead falls back to the older directory.                      *)
Seen(c, p) ==
  IF p \in DOMAIN c THEN c[p]
  ELSE IF IsPlain(p) /\ p.file \in DOMAIN older THEN older[p.file]
  ELSE None

View(c) == [p \in Current(c) |-> Seen(c, p)]   \* what an export would hold

Phase == {"idle", "export", "stage", "unstage", "omit", "commit", "clean", "drop",
          "undo", "unomit"}

Empty == <<>>
Idle == [pc |-> "idle", archive |-> Empty, todo |-> {}, cur |-> None,
         omitted |-> {}, committed |-> {}]

Init ==
  /\ \E S \in SUBSET File : card \in [{Plain(f) : f \in S} -> Version]
  /\ \E S \in SUBSET Legacy : older \in [S -> Version]
  /\ \E S \in SUBSET File :
       \E a \in [{Plain(f) : f \in S} -> Version] : S # {} /\ exports = {a}
  /\ op = Idle
  /\ hist = [before |-> Empty, archive |-> Empty, room |-> TRUE, harm |-> 0,
             stuck |-> FALSE, count |-> 0]
  /\ outcome = "none"

-----------------------------------------------------------------------------
(* Steps of a restore.                                                     *)

At(pc) == op.pc = pc

(* Entries and collected paths are handled in the order of their names.    *)
NextOf(S) ==
  {p \in S : \A q \in S \ {p} :
     p.file < q.file \/ (p.file = q.file /\ Len(p.ext) <= Len(q.ext))}

Goto(pc, todo) == [op EXCEPT !.pc = pc, !.todo = todo, !.cur = None]
Done(p) == [op EXCEPT !.todo = @ \ {p}]
Undoing == Goto("undo", DOMAIN op.archive)

(* n calls fail in this step, the last of them while taking back if stuck. *)
Fails(n, stuck) ==
  /\ n > 0 => "Fault" \in Env
  /\ hist.harm + n <= MaxFaults
  /\ hist' = [hist EXCEPT !.harm = @ + n, !.stuck = @ \/ stuck]
Harmed(n) == Fails(n, FALSE)

(* What a removal of p may leave, and the calls that failed if it left c.  *)
Removed(p) == {Without(card, p), card}
Left(c, p) == IF p \in DOMAIN c THEN 1 ELSE 0

Ends(how) == op' = Idle /\ outcome' = how

(* An archive on the card is chosen and confirmed; parseArchive validates  *)
(* all of it before anything changes.  `room': no file is longer than an   *)
(* archive takes, and of the 1000 names for an archive of the current      *)
(* minute (of all archives while the clock is not set) one is free.        *)
Begin(a) ==
  /\ At("idle") /\ hist.count < MaxRestores /\ a \in exports
  /\ Cardinality(DOMAIN a) \in 1..MaxEntries
  /\ op' = [Idle EXCEPT !.pc = "export", !.archive = a]
  /\ \E room \in BOOLEAN :
       hist' = [before |-> card, archive |-> a, room |-> room, harm |-> 0,
                stuck |-> FALSE, count |-> hist.count + 1]
  /\ outcome' = "none"
  /\ UNCHANGED <<card, older, exports>>

(* What limits an export: the number of its entries, and `room'.           *)
CanExport == hist.room /\ Cardinality(Current(card)) \in 1..MaxEntries

(* exportAllReadingStats, under a name that is not in use; without it the  *)
(* restore is refused.                                                     *)
Export ==
  /\ At("export") /\ CanExport
  /\ exports' = exports \cup {View(card)}
  /\ op' = Goto("stage", DOMAIN op.archive)
  /\ UNCHANGED <<card, older, hist, outcome>>

(* Nothing to export or more than there is room for, or a call failed, at  *)
(* the latest the one that opens the chosen archive again.                 *)
ExportFails ==
  /\ At("export")
  /\ \/ ~CanExport /\ UNCHANGED <<exports, hist>>
     \/ /\ exports' = exports \/ (CanExport /\ exports' = exports \cup {View(card)})
        /\ Harmed(1)
  /\ Ends("failed")
  /\ UNCHANGED <<card, older>>

(* stageArchiveEntry.                                                      *)
Stage(p) ==
  /\ At("stage") /\ p \in NextOf(op.todo)
  /\ card' = Put(card, With(p, "tmp"), op.archive[p])
  /\ op' = Done(p)
  /\ UNCHANGED <<older, exports, hist, outcome>>

StageFails(p) ==
  /\ At("stage") /\ p \in NextOf(op.todo)
  /\ card' \in Removed(With(p, "tmp")) /\ Harmed(1)
  /\ op' = Goto("unstage", DOMAIN op.archive)
  /\ UNCHANGED <<older, exports, outcome>>

(* cleanStagedEntries.                                                     *)
Unstage(p) ==
  /\ At("unstage") /\ p \in NextOf(op.todo)
  /\ card' \in Removed(With(p, "tmp")) /\ Harmed(Left(card', With(p, "tmp")))
  /\ op' = Done(p)
  /\ UNCHANGED <<older, exports, outcome>>

Unstaged ==
  /\ At("unstage") /\ op.todo = {}
  /\ Ends("failed")
  /\ UNCHANGED <<card, older, exports, hist>>

(* Mutant: the achievements go like any other file the archive omits.      *)
OmittedAll == Current(card) \ DOMAIN op.archive

(* preserveWhenArchiveOmits.                                               *)
Omitted == {p \in Current(card) \ DOMAIN op.archive : p.file \notin Preserved}

Staged ==
  /\ At("stage") /\ op.todo = {}
  /\ op' = Goto("omit", Omitted)
  /\ UNCHANGED <<card, older, exports, hist, outcome>>

(* A path the archive omits is moved away, over what an earlier restore    *)
(* left there.                                                             *)
Omit(p) ==
  /\ At("omit") /\ p \in NextOf(op.todo) /\ Exists(p)
  /\ card' = Renamed(Without(card, With(p, "omit")), p, With(p, "omit"))
  /\ op' = [Done(p) EXCEPT !.omitted = @ \cup {p}]
  /\ UNCHANGED <<older, exports, hist, outcome>>

(* Mutant: what an earlier restore left under the name is not cleared.     *)
OmitFailsStale(p) ==
  /\ At("omit") /\ p \in NextOf(op.todo)
  /\ Harmed(IF CanRename(card, p, With(p, "omit")) THEN 1 ELSE 0)
  /\ op' = Undoing
  /\ UNCHANGED <<card, older, exports, outcome>>

(* A file that exists only in the older directory cannot be renamed, which *)
(* fails the restore without a fault of the card.                          *)
OmitFails(p) ==
  /\ At("omit") /\ p \in NextOf(op.todo)
  /\ card' \in Removed(With(p, "omit"))
  /\ Harmed(IF Exists(p) THEN 1 ELSE Left(card', With(p, "omit")))
  /\ op' = Undoing
  /\ UNCHANGED <<older, exports, outcome>>

Prepared ==
  /\ At("omit") /\ op.todo = {}
  /\ op' = Goto("commit", DOMAIN op.archive)
  /\ UNCHANGED <<card, older, exports, hist, outcome>>

(* The live file becomes .import.prev; a stale one is cleared first, and   *)
(* the result of that is ignored.                                          *)
SetAside(p) ==
  /\ At("commit") /\ op.cur = None /\ p \in NextOf(op.todo)
  /\ \E c \in Removed(With(p, "prev")) :
       /\ Harmed(Left(c, With(p, "prev")))
       /\ \/ ~Exists(p) /\ card' = c
          \/ CanRename(c, p, With(p, "prev")) /\ card' = Renamed(c, p, With(p, "prev"))
  /\ op' = [op EXCEPT !.cur = p]
  /\ UNCHANGED <<older, exports, outcome>>

SetAsideFails(p) ==
  /\ At("commit") /\ op.cur = None /\ p \in NextOf(op.todo) /\ Exists(p)
  /\ card' \in Removed(With(p, "prev")) /\ Harmed(1)
  /\ op' = Undoing
  /\ UNCHANGED <<older, exports, outcome>>

(* Mutant: the entry stays the current one.                                *)
SwapInStays(p) ==
  /\ At("commit") /\ op.cur = p /\ CanRename(card, With(p, "tmp"), p)
  /\ card' = Renamed(card, With(p, "tmp"), p)
  /\ op' = [Done(p) EXCEPT !.committed = @ \cup {p}]
  /\ UNCHANGED <<older, exports, hist, outcome>>

(* The staged file takes the free name.                                    *)
SwapIn(p) ==
  /\ At("commit") /\ op.cur = p /\ CanRename(card, With(p, "tmp"), p)
  /\ card' = Renamed(card, With(p, "tmp"), p)
  /\ op' = [Done(p) EXCEPT !.cur = None, !.committed = @ \cup {p}]
  /\ UNCHANGED <<older, exports, hist, outcome>>

SwapFails(p) ==
  /\ At("commit") /\ op.cur = p
  /\ LET prev == With(p, "prev")
         n == IF CanRename(card, With(p, "tmp"), p) THEN 1 ELSE 0
     IN  IF CanRename(card, prev, p)
         THEN \/ card' = Renamed(card, prev, p) /\ Harmed(n)
              \/ card' = card /\ Fails(n + 1, TRUE)
         ELSE card' = card /\ Harmed(n)
  /\ op' = Undoing
  /\ UNCHANGED <<older, exports, outcome>>

(* The restore has succeeded; what it set aside is removed.                *)
Committed ==
  /\ At("commit") /\ op.cur = None /\ op.todo = {}
  /\ op' = Goto("clean", DOMAIN op.archive)
  /\ UNCHANGED <<card, older, exports, hist, outcome>>

Clean(p) ==
  /\ op.pc \in {"clean", "drop"} /\ p \in NextOf(op.todo)
  /\ LET old == With(p, IF At("clean") THEN "prev" ELSE "omit") IN
       card' \in Removed(old) /\ Harmed(Left(card', old))
  /\ op' = Done(p)
  /\ UNCHANGED <<older, exports, outcome>>

Cleaned ==
  /\ At("clean") /\ op.todo = {}
  /\ op' = Goto("drop", op.omitted)
  /\ UNCHANGED <<card, older, exports, hist, outcome>>

Finish ==
  /\ At("drop") /\ op.todo = {}
  /\ Ends("done")
  /\ UNCHANGED <<card, older, exports, hist>>

(* Mutant: the live file is removed for entries not reached as well.       *)
UndoSwapAll(p) ==
  /\ At("undo") /\ op.cur = None /\ p \in NextOf(op.todo)
  /\ card' = Without(card, p) /\ UNCHANGED hist
  /\ op' = [op EXCEPT !.cur = p]
  /\ UNCHANGED <<older, exports, outcome>>

(* Taking back: all entries of the archive, the ones not reached included. *)
UndoSwap(p) ==
  /\ At("undo") /\ op.cur = None /\ p \in NextOf(op.todo)
  /\ IF p \in op.committed
     THEN \/ card' = Without(card, p) /\ Harmed(0)
          \/ Exists(p) /\ card' = card /\ Fails(1, TRUE)
     ELSE UNCHANGED <<card, hist>>
  /\ op' = [op EXCEPT !.cur = p]
  /\ UNCHANGED <<older, exports, outcome>>

(* A rename onto a file that exists fails, and so it stays in place.       *)
UndoAside(p) ==
  /\ At("undo") /\ op.cur = p
  /\ LET prev == With(p, "prev")
         due == IF CanRename(card, prev, p) THEN Renamed(card, prev, p) ELSE card
     IN  \E c \in {card, due} :
           /\ card' \in {c, Without(c, With(p, "tmp"))}
           /\ \/ c = due /\ Harmed(Left(card', With(p, "tmp")))
              \/ c # due /\ Fails(1 + Left(card', With(p, "tmp")), TRUE)
  /\ op' = [Done(p) EXCEPT !.cur = None]
  /\ UNCHANGED <<older, exports, outcome>>

(* Mutant: only the archive's entries are taken back.                      *)
UndoneEarly ==
  /\ At("undo") /\ op.cur = None /\ op.todo = {}
  /\ op' = Goto("unomit", {})
  /\ UNCHANGED <<card, older, exports, hist, outcome>>

Undone ==
  /\ At("undo") /\ op.cur = None /\ op.todo = {}
  /\ op' = Goto("unomit", op.omitted)
  /\ UNCHANGED <<card, older, exports, hist, outcome>>

UndoOmit(p) ==
  /\ At("unomit") /\ p \in NextOf(op.todo)
  /\ IF CanRename(card, With(p, "omit"), p)
     THEN \/ card' = Renamed(card, With(p, "omit"), p) /\ Harmed(0)
          \/ card' = card /\ Fails(1, TRUE)
     ELSE UNCHANGED <<card, hist>>
  /\ op' = Done(p)
  /\ UNCHANGED <<older, exports, outcome>>

TakenBack ==
  /\ At("unomit") /\ op.todo = {}
  /\ Ends("failed")
  /\ UNCHANGED <<card, older, exports, hist>>

(* Nothing at boot looks for a restore that was cut off.                   *)
PowerLoss ==
  /\ "PowerLoss" \in Env /\ ~At("idle")
  /\ Ends(IF op.pc \in {"clean", "drop"} THEN "done" ELSE "lost")
  /\ UNCHANGED <<card, older, exports, hist>>

(* Between restores reading goes on and writes a file.                     *)
Read(f) ==
  /\ "Read" \in Env /\ At("idle")
  /\ card' = Put(card, Plain(f), Newer) /\ outcome' = "none"
  /\ UNCHANGED <<older, exports, op, hist>>

Next ==
  \/ \E a \in exports : Begin(a)
  \/ Export \/ ExportFails \/ Unstaged \/ Staged \/ Prepared
  \/ Committed \/ Cleaned \/ Finish \/ Undone \/ TakenBack \/ PowerLoss
  \/ \E p \in op.todo :
       \/ Stage(p) \/ StageFails(p) \/ Unstage(p)
       \/ Omit(p) \/ OmitFails(p) \/ SetAside(p) \/ SetAsideFails(p)
       \/ SwapIn(p) \/ SwapFails(p) \/ Clean(p)
       \/ UndoSwap(p) \/ UndoAside(p) \/ UndoOmit(p)
  \/ \E f \in File : Read(f)

Spec == Init /\ [][Next]_vars

-----------------------------------------------------------------------------
(* Properties.                                                             *)

IsFiles(c) == /\ \A p \in DOMAIN c : p \in Path
              /\ \A p \in DOMAIN c : c[p] \in Version

(* Type invariant.                                                         *)
TypeOK ==
  /\ IsFiles(card)
  /\ DOMAIN older \subseteq Legacy /\ \A f \in DOMAIN older : older[f] \in Version
  /\ \A a \in exports : IsFiles(a)
  /\ op.pc \in Phase
  /\ IsFiles(op.archive)
  /\ \A p \in op.todo \cup op.omitted \cup op.committed : p \in Path
  /\ op.cur # None => op.cur \in op.todo
  /\ IsFiles(hist.before) /\ IsFiles(hist.archive)
  /\ hist.harm \in 0..MaxFaults /\ hist.count \in 0..MaxRestores
  /\ hist.stuck \in BOOLEAN /\ hist.room \in BOOLEAN
  /\ outcome \in {"none", "failed", "lost", "done"}

Own == File \ Synced
Moved(p) == {p, With(p, "prev"), With(p, "omit")}
Kept(p) == Exists(p) /\ card[p] = hist.before[p]

(* From the first rename until the files are used again, and for good when *)
(* a restore fails or the power goes: what a file of this reader held is   *)
(* still on the card, under its name or a name next to it, whatever calls  *)
(* of the card fail.                                                       *)
NothingLost ==
  (op.pc \notin {"idle", "clean", "drop"} \/ outcome \in {"failed", "lost"}) =>
    \A f \in Own : Plain(f) \in DOMAIN hist.before =>
      \E p \in Moved(Plain(f)) : Exists(p) /\ card[p] = hist.before[Plain(f)]

(* A failed restore that could do all it does to take things back has put  *)
(* every file of this reader back, and added none but one an earlier,      *)
(* interrupted restore had set aside.                                      *)
RolledBack ==
  outcome = "failed" /\ ~hist.stuck =>
    \A f \in Own :
      IF Plain(f) \in DOMAIN hist.before THEN Kept(Plain(f))
      ELSE Exists(Plain(f)) =>
             LET prev == With(Plain(f), "prev") IN
             prev \in DOMAIN hist.before /\ card[Plain(f)] = hist.before[prev]

(* After a restore that reports success every file of this reader reads as *)
(* the archive has it, the preserved ones it omits are as before, and the  *)
(* others are gone, but for a copy in the older directory.                 *)
RestoredIsArchive ==
  outcome = "done" =>
    \A f \in Own :
      LET p == Plain(f) IN
      IF p \in DOMAIN hist.archive THEN Exists(p) /\ card[p] = hist.archive[p]
      ELSE IF f \in Preserved /\ p \in DOMAIN hist.before THEN Kept(p)
      ELSE ~Exists(p)

(* Until the files are used again, what a restore has taken out of a live  *)
(* file, also one kept for a peer, is in an archive on the card.           *)
SafetyKept ==
  ~At("idle") \/ outcome # "none" =>
    \A p \in DOMAIN hist.before :
      IsPlain(p) /\ ~Kept(p) => \E a \in exports : p \in DOMAIN a /\ a[p] = hist.before[p]

(* Without a fault of the card a restore fails only for what the code sets *)
(* limits to (the number of entries of the archive that has to be taken    *)
(* first, at least one, the length of a file, the archive's name) or for a *)
(* file that exists in the older directory alone while the archive omits   *)
(* it; never for what an earlier restore has left behind under a name that *)
(* this one needs.  (exportAllReadingStats, importAllReadingStats)         *)
NoFalseRefusal ==
  outcome = "failed" /\ hist.harm = 0 =>
    \/ ~hist.room \/ Cardinality(Current(hist.before)) \notin 1..MaxEntries
    \/ \E f \in DOMAIN older \ Preserved :
         Plain(f) \notin DOMAIN hist.before /\ Plain(f) \notin DOMAIN hist.archive
=============================================================================
