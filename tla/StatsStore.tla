------------------------------ MODULE StatsStore ------------------------------
(***************************************************************************)
(* The file of the global reading totals on the memory card: how it is     *)
(* imported from an older firmware's directories at boot, loaded, replaced *)
(* by a rotation of three names and reset, when any storage call may fail  *)
(* and power may be lost between any two of them.                          *)
(*                                                                         *)
(* One activity at a time loads the totals, counts sessions in memory and  *)
(* saves.  Every step below is one call of HalStorage.  A rename takes     *)
(* effect as a whole; a file that was opened for writing and not yet       *)
(* synced and checked is torn.  The card itself is not damaged.            *)
(***************************************************************************)
EXTENDS Naturals

CONSTANTS
  LegacyCards,  \* what the older firmware's directories may hold
  MaxStamp,     \* bound: stamps run over 0..MaxStamp
  Env,          \* what users and faults may do in a run, see EnvEvents
  None

(* The user flashes a newer firmware and comes back, or resets the totals; *)
(* a storage call fails while writing, importing or reading; another entry *)
(* of the import fails; power is lost.                                     *)
EnvEvents == {"NewerBuild", "Reset", "WriteFault", "ImportFault", "ReadFault",
              "OtherEntry", "PowerLoss"}

(* A stamp orders the totals ever written: those of stamp n have lost no   *)
(* session of any smaller stamp.  The zero totals are stamp 0.             *)
Stamps == 0..MaxStamp
Missing == [kind |-> "missing", stamp |-> 0]
Torn == [kind |-> "torn", stamp |-> 0]
Whole(s) == [kind |-> "whole", stamp |-> s]
Newer(s) == [kind |-> "newer", stamp |-> s]
Content == {Missing, Torn} \cup [kind : {"whole", "newer"}, stamp : Stamps]
Good(c) == c.kind \in {"whole", "newer"}

Imported == {"main", "bak"}          \* global_stats.bin and its .bak
Names == Imported \cup {"tmp"}
Roots == {"crossink", "crosspoint"}  \* LEGACY_STATE_ROOT, LEGACY_BOOKS_ROOT
EmptyLegacy == [r \in Roots |-> [n \in Imported |-> Missing]]

ASSUME StoreConstants ==
  /\ MaxStamp \in Nat /\ None \notin Stamps /\ Env \subseteq EnvEvents
  /\ LegacyCards \subseteq
       [Roots -> [Imported -> {c \in Content :
                                 c = Missing \/ c.kind = "whole"}]]

VARIABLES
  card,     \* the three canonical files
  legacy,   \* the older directories; only ever read
  marker,   \* the import has been recorded as complete
  task,     \* the operation under way and the call it is about to make
  mem,      \* the totals an activity holds, None before it loads them
  blocked,  \* s_blockDestructiveSave
  saved,    \* the totals whose write last returned true, 0 if given up
  harm      \* 0 no write was disturbed, 1 one was, 2 more than that happened

vars == <<card, legacy, marker, task, mem, blocked, saved, harm>>

BootSteps == Imported \cup {"marker"}
WriteSteps == {"clear", "create", "write", "dropBak", "rotate", "dropMain",
               "promote", "restore", "cleanup"}
Rest(op) == [op |-> op, at |-> "none", value |-> 0, failed |-> FALSE]
Task == [op : {"off", "idle", "boot", "save", "reset"},
         at : BootSteps \cup WriteSteps \cup {"none"},
         value : Stamps, failed : BOOLEAN]

Writing == task.op \in {"save", "reset"}
Idle == task = Rest("idle")

-----------------------------------------------------------------------------
(* Reading.                                                                *)

(* resolveReadPathLocked: a path that is missing from the canonical tree   *)
(* is read from the newer, then the older legacy directory.                *)
LegacyCopy(n) ==
  IF legacy["crossink"][n] # Missing THEN legacy["crossink"][n]
  ELSE legacy["crosspoint"][n]
Resolve(n) == IF card[n] # Missing THEN card[n] ELSE LegacyCopy(n)

(* GlobalReadingStats::load: the file, else its backup, else fresh totals. *)
Loaded ==
  IF Good(Resolve("main")) THEN Resolve("main")
  ELSE IF Good(Resolve("bak")) THEN Resolve("bak") ELSE Missing

(* Mutant: only a newer file is noticed, not a newer backup.               *)
BlocksMainOnly(c) == c.kind = "newer" /\ c = Resolve("main")

(* A file of a newer build blocks every save until the next boot.          *)
Blocks(c) == c.kind = "newer"

(* Every variable has its type.                                            *)
TypeOK ==
  /\ card \in [Names -> Content]
  /\ legacy \in LegacyCards
  /\ marker \in BOOLEAN
  /\ task \in Task
  /\ mem \in Stamps \cup {None}
  /\ blocked \in BOOLEAN
  /\ saved \in Stamps
  /\ harm \in 0..2

(* A card no Duet firmware has written to; an older firmware may have.     *)
Init ==
  /\ card = [n \in Names |-> Missing]
  /\ legacy \in LegacyCards
  /\ marker = FALSE
  /\ task = Rest("off")
  /\ mem = None
  /\ blocked = FALSE
  /\ saved = Loaded.stamp
  /\ harm = 0

Disturbed == harm' = IF harm = 0 THEN 1 ELSE 2

-----------------------------------------------------------------------------
(* Boot: migrateLegacyNamespace, as far as the two files are concerned.    *)

Boot ==
  /\ task = Rest("off")
  /\ task' = IF marker THEN Rest("idle")
             ELSE [op |-> "boot", at |-> "main", value |-> 0, failed |-> FALSE]
  /\ UNCHANGED <<card, legacy, marker, mem, blocked, saved, harm>>

(* importFile: a canonical file is left alone; a copy is made under a name *)
(* nothing else reads.                                                     *)
ImportFile(n) ==
  /\ task.op = "boot" /\ task.at = n
  /\ \E ok \in BOOLEAN :
       /\ ~ok => "ImportFault" \in Env /\ card[n] = Missing /\ LegacyCopy(n) # Missing
       /\ card' = IF ok THEN [card EXCEPT ![n] = Resolve(n)] ELSE card
       /\ task' = [task EXCEPT !.at = IF n = "main" THEN "bak" ELSE "marker",
                               !.failed = @ \/ ~ok]
  /\ UNCHANGED <<legacy, marker, mem, blocked, saved, harm>>

(* The marker is written when no entry failed.                             *)
FinishImport ==
  /\ task.op = "boot" /\ task.at = "marker"
  /\ \/ marker' = ~task.failed
     \/ "OtherEntry" \in Env /\ marker' = FALSE
  /\ task' = Rest("idle")
  /\ UNCHANGED <<card, legacy, mem, blocked, saved, harm>>

-----------------------------------------------------------------------------
(* Activities.                                                             *)

Load ==
  /\ Idle
  /\ mem' = IF Blocks(Loaded) THEN 0 ELSE Loaded.stamp
  /\ blocked' = (blocked \/ Blocks(Loaded))
  /\ UNCHANGED <<card, legacy, marker, task, saved, harm>>

(* A file that exists may fail to open or to read; load goes on as if it   *)
(* were corrupt.                                                           *)
Misread ==
  /\ "ReadFault" \in Env /\ Idle
  /\ \E c \in {Resolve("bak"), Missing} \ {Loaded} :
       /\ mem' = IF Blocks(c) THEN 0 ELSE c.stamp
       /\ blocked' = (blocked \/ Blocks(c))
  /\ harm' = 2
  /\ UNCHANGED <<card, legacy, marker, task, saved>>

CountSession ==
  /\ Idle /\ mem # None /\ mem < MaxStamp
  /\ mem' = mem + 1
  /\ UNCHANGED <<card, legacy, marker, task, blocked, saved, harm>>

(* save is refused while blocked; resetLocal is not.                       *)
BeginSave ==
  /\ Idle /\ mem # None /\ ~blocked
  /\ task' = [op |-> "save", at |-> "clear", value |-> mem, failed |-> FALSE]
  /\ UNCHANGED <<card, legacy, marker, mem, blocked, saved, harm>>

(* What a write after everything on the card is stamped.                   *)
NextStamp ==
  CHOOSE s \in 1..MaxStamp + 1 :
    /\ \A n \in Imported : Resolve(n).stamp < s
    /\ \E n \in Imported : Resolve(n).stamp + 1 = s

(* The user gives the old totals up when confirming the reset.             *)
BeginReset ==
  /\ "Reset" \in Env /\ Idle /\ NextStamp <= MaxStamp
  /\ task' = [op |-> "reset", at |-> "clear", value |-> NextStamp,
              failed |-> FALSE]
  /\ mem' = None
  /\ saved' = 0
  /\ UNCHANGED <<card, legacy, marker, blocked, harm>>

-----------------------------------------------------------------------------
(* saveToFile, call by call.                                               *)

Goto(step) == task' = [task EXCEPT !.at = step]
Return == task' = Rest("idle")
At(step) == Writing /\ task.at = step
Works == UNCHANGED harm
Fails == "WriteFault" \in Env /\ Disturbed
Kept == UNCHANGED <<legacy, marker, mem, blocked>>

ClearTmp ==
  /\ At("clear")
  /\ \/ /\ Works
        /\ card' = [card EXCEPT !["tmp"] = Missing] /\ Goto("create")
     \/ Fails /\ card["tmp"] # Missing /\ card' = card /\ Return
  /\ Kept /\ UNCHANGED saved

CreateTmp ==
  /\ At("create")
  /\ \/ Works /\ card' = [card EXCEPT !["tmp"] = Torn] /\ Goto("write")
     \/ /\ Fails /\ Return
        /\ \E c \in {Missing, Torn} : card' = [card EXCEPT !["tmp"] = c]
  /\ Kept /\ UNCHANGED saved

(* Mutant: a reset forgets the step a backup would not need.               *)
AfterWriteNoElse == IF task.op = "save" THEN "dropBak" ELSE "done"

AfterWrite == IF task.op = "save" THEN "dropBak" ELSE "dropMain"

(* Mutant: the result of the write is not looked at.                       *)
AfterShortWriteUnchecked == AfterWrite

AfterShortWrite == "cleanup"

(* write, flush, sync, close and the check of the size.                    *)
WriteTmp ==
  /\ At("write")
  /\ \/ Works /\ card' = [card EXCEPT !["tmp"] = Whole(task.value)] /\ Goto(AfterWrite)
     \/ Fails /\ card' = card /\ Goto(AfterShortWrite)
  /\ Kept /\ UNCHANGED saved

DropBackup ==
  /\ At("dropBak")
  /\ \/ Works /\ card' = [card EXCEPT !["bak"] = Missing] /\ Goto("rotate")
     \/ Fails /\ card["bak"] # Missing /\ card' = card /\ Goto("cleanup")
  /\ Kept /\ UNCHANGED saved

(* Mutant: the old file is removed, not kept as the backup.                *)
RotatedAway == [card EXCEPT !["main"] = Missing]

Rotated ==
  IF card["main"] = Missing THEN card
  ELSE [card EXCEPT !["bak"] = card["main"], !["main"] = Missing]

Rotate ==
  /\ At("rotate")
  /\ \/ Works /\ card' = Rotated /\ Goto("promote")
     \/ Fails /\ card["main"] # Missing /\ card' = card /\ Goto("cleanup")
  /\ Kept /\ UNCHANGED saved

DropMain ==
  /\ At("dropMain")
  /\ \/ Works /\ card' = [card EXCEPT !["main"] = Missing] /\ Goto("promote")
     \/ Fails /\ card["main"] # Missing /\ card' = card /\ Goto("cleanup")
  /\ Kept /\ UNCHANGED saved

AfterRefusal == IF task.op = "save" THEN "restore" ELSE "cleanup"

Promote ==
  /\ At("promote")
  /\ \/ /\ Works /\ saved' = task.value /\ Return
        /\ card' = [card EXCEPT !["main"] = card["tmp"], !["tmp"] = Missing]
     \/ Fails /\ card' = card /\ Goto(AfterRefusal) /\ UNCHANGED saved
  /\ Kept

Restored ==
  IF card["bak"] = Missing \/ card["main"] # Missing THEN card
  ELSE [card EXCEPT !["main"] = card["bak"], !["bak"] = Missing]

Restore ==
  /\ At("restore") /\ Goto("cleanup")
  /\ \/ Works /\ card' = Restored
     \/ Fails /\ card["bak"] # Missing /\ card["main"] = Missing /\ card' = card
  /\ Kept /\ UNCHANGED saved

CleanUp ==
  /\ At("cleanup") /\ Return
  /\ \/ Works /\ card' = [card EXCEPT !["tmp"] = Missing]
     \/ Fails /\ card' = card
  /\ Kept /\ UNCHANGED saved

Write ==
  \/ ClearTmp \/ CreateTmp \/ WriteTmp \/ DropBackup \/ Rotate \/ DropMain
  \/ Promote \/ Restore \/ CleanUp

-----------------------------------------------------------------------------
(* The surroundings.                                                       *)

PowerLoss ==
  /\ "PowerLoss" \in Env /\ task.op # "off"
  /\ task' = Rest("off") /\ mem' = None /\ blocked' = FALSE
  /\ IF Writing THEN Disturbed ELSE UNCHANGED harm
  /\ UNCHANGED <<card, legacy, marker, saved>>

(* A newer firmware saves its own format by the same rotation, the second  *)
(* time possibly losing power before its last rename.                      *)
NewerBuild ==
  /\ "NewerBuild" \in Env /\ task.op = "off" /\ NextStamp <= MaxStamp
  /\ saved' = NextStamp
  /\ \/ /\ card' = [card EXCEPT !["main"] = Newer(NextStamp),
                               !["bak"] = card["main"], !["tmp"] = Missing]
        /\ UNCHANGED harm
     \/ /\ card' = [card EXCEPT !["main"] = Missing,
                               !["bak"] = Newer(NextStamp), !["tmp"] = Torn]
        /\ Disturbed
  /\ UNCHANGED <<legacy, marker, task, mem, blocked>>

Next ==
  \/ Boot \/ (\E n \in Imported : ImportFile(n)) \/ FinishImport
  \/ Load \/ Misread \/ CountSession \/ BeginSave \/ BeginReset
  \/ Write
  \/ PowerLoss \/ NewerBuild

Spec == Init /\ [][Next]_vars

-----------------------------------------------------------------------------
(* Properties.                                                             *)

(* One write was disturbed at most, and none on a card that still has the  *)
(* older firmware's files.                                                 *)
Unharmed == harm = 0 \/ (harm = 1 /\ legacy = EmptyLegacy)

(* Neither the file nor its backup is ever half written, whatever fails    *)
(* and however often power is lost.  (saveToFile writes to the temporary   *)
(* file and checks it before it renames it)                                *)
NoTornTotals == card["main"] # Torn /\ card["bak"] # Torn

(* What load would return has every session of the last completed save,    *)
(* and nothing from before the last completed reset.  (saveToFile, load)   *)
SavesSurvive == Unharmed /\ Idle => Loaded.stamp >= saved

(* The totals of a newer build are what load finds until the user resets   *)
(* them.  (s_blockDestructiveSave)                                         *)
NewerSurvives ==
  [][Unharmed' /\ Loaded.kind = "newer" /\ task.op # "reset"
       => Loaded'.kind = "newer"]_vars

(* "Existing Duet state wins": as long as the canonical tree has a whole   *)
(* file or backup, load takes no totals from the older directories.        *)
ExistingDuetStateWins ==
  Idle /\ (\E n \in Imported : Good(card[n])) =>
    \E n \in Imported : Loaded = card[n]
===============================================================================
