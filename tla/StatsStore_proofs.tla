-------------------------- MODULE StatsStore_proofs --------------------------
(***************************************************************************)
(* Proofs about StatsStore for every set of older cards, every bound on    *)
(* the stamps and every choice of faults: its types, that the file and its *)
(* backup are never half written, and that one disturbed write never loses *)
(* a completed save or the totals of a newer build.                        *)
(***************************************************************************)
EXTENDS StatsStore, TLAPS

-----------------------------------------------------------------------------
(* Types.                                                                  *)

LEMMA ContentTypes ==
  /\ Missing \in Content /\ Torn \in Content
  /\ \A s \in Stamps : Whole(s) \in Content /\ Newer(s) \in Content
<1>. USE StoreConstants
<1>1. 0 \in Stamps
  BY DEF Stamps
<1>. QED  BY <1>1 DEF Missing, Torn, Whole, Newer, Content

LEMMA ContentFacts ==
  /\ ~Good(Missing) /\ ~Good(Torn) /\ Missing # Torn /\ Missing.stamp = 0
  /\ Missing.kind = "missing"
  /\ \A s : /\ Good(Whole(s)) /\ Whole(s).stamp = s /\ Whole(s).kind = "whole"
            /\ Whole(s) # Torn /\ Whole(s) # Missing
            /\ Good(Newer(s)) /\ Newer(s).stamp = s /\ Newer(s).kind = "newer"
            /\ Newer(s) # Torn /\ Newer(s) # Missing
  /\ \A c : Good(c) => c # Missing /\ c # Torn
  /\ \A c \in Content : c = Missing \/ c = Torn \/ Good(c)
  /\ \A c \in Content : c.stamp \in Stamps /\ c.stamp \in Nat
<1>1. 0 \in Stamps /\ Stamps \subseteq Nat
  BY StoreConstants DEF Stamps
<1>2. /\ ~Good(Missing) /\ ~Good(Torn) /\ Missing # Torn /\ Missing.stamp = 0
      /\ Missing.kind = "missing"
  BY DEF Missing, Torn, Good
<1>3. ASSUME NEW s
      PROVE  /\ Good(Whole(s)) /\ Whole(s).stamp = s /\ Whole(s).kind = "whole"
             /\ Whole(s) # Torn /\ Whole(s) # Missing
             /\ Good(Newer(s)) /\ Newer(s).stamp = s /\ Newer(s).kind = "newer"
             /\ Newer(s) # Torn /\ Newer(s) # Missing
  BY DEF Whole, Newer, Good, Torn, Missing
<1>4. ASSUME NEW c, Good(c) PROVE c # Missing /\ c # Torn
  BY <1>4 DEF Good, Missing, Torn
<1>5. ASSUME NEW c \in Content
      PROVE  /\ c = Missing \/ c = Torn \/ Good(c)
             /\ c.stamp \in Stamps
  BY <1>1 DEF Content, Missing, Torn, Good
<1>. QED  BY <1>1, <1>2, <1>3, <1>4, <1>5

LEMMA LegacyTypes ==
  ASSUME legacy \in LegacyCards
  PROVE  /\ \A r \in Roots, n \in Imported :
              /\ legacy[r][n] \in Content
              /\ legacy[r][n] = Missing \/ legacy[r][n].kind = "whole"
         /\ \A n \in Imported :
              /\ LegacyCopy(n) \in Content
              /\ LegacyCopy(n) = Missing \/ LegacyCopy(n).kind = "whole"
<1>1. legacy \in [Roots -> [Imported -> {c \in Content : c = Missing \/ c.kind = "whole"}]]
  BY StoreConstants
<1>2. "crossink" \in Roots /\ "crosspoint" \in Roots
  BY DEF Roots
<1>. QED  BY <1>1, <1>2 DEF LegacyCopy

LEMMA ReadTypes ==
  ASSUME TypeOK
  PROVE  /\ \A n \in Imported : Resolve(n) \in Content
         /\ Loaded \in Content /\ Loaded.stamp \in Stamps
<1>. USE DEF TypeOK
<1>1. \A n \in Imported : Resolve(n) \in Content
  BY LegacyTypes DEF Resolve, Names
<1>2. Loaded \in Content
  BY <1>1, ContentTypes DEF Loaded, Imported
<1>. QED  BY <1>1, <1>2, ContentFacts

LEMMA TaskTypes ==
  ASSUME TypeOK
  PROVE  /\ Rest("off") \in Task /\ Rest("idle") \in Task
         /\ \A step \in BootSteps \cup WriteSteps :
              [task EXCEPT !.at = step] \in Task
         /\ \A step \in BootSteps, b \in BOOLEAN :
              [task EXCEPT !.at = step, !.failed = b] \in Task
<1>1. 0 \in Stamps
  BY StoreConstants DEF Stamps
<1>. QED  BY <1>1 DEF TypeOK, Task, Rest

LEMMA NextStampType ==
  ASSUME TypeOK
  PROVE  NextStamp \in 1..MaxStamp + 1
<1>. DEFINE a == Resolve("main").stamp
            b == Resolve("bak").stamp
<1>1. a \in Stamps /\ b \in Stamps
  BY ReadTypes, ContentFacts DEF Imported
<1>. HIDE DEF a, b
<1>2. \E s \in 1..MaxStamp + 1 : a < s /\ b < s /\ (a + 1 = s \/ b + 1 = s)
  <2>1. CASE a <= b
    <3>1. b + 1 \in 1..MaxStamp + 1 /\ a < b + 1 /\ b < b + 1
      BY <1>1, <2>1, StoreConstants DEF Stamps
    <3>. QED  BY <3>1
  <2>2. CASE b <= a
    <3>1. a + 1 \in 1..MaxStamp + 1 /\ a < a + 1 /\ b < a + 1
      BY <1>1, <2>2, StoreConstants DEF Stamps
    <3>. QED  BY <3>1
  <2>. QED  BY <1>1, <2>1, <2>2 DEF Stamps
<1>3. \E s \in 1..MaxStamp + 1 : /\ \A n \in Imported : Resolve(n).stamp < s
                                /\ \E n \in Imported : Resolve(n).stamp + 1 = s
  BY <1>2 DEF a, b, Imported
<1>. QED  BY <1>3 DEF NextStamp

LEMMA InitTypes == Init => TypeOK
<1>. SUFFICES ASSUME Init PROVE TypeOK
  OBVIOUS
<1>1. card \in [Names -> Content] /\ legacy \in LegacyCards
  BY ContentTypes DEF Init
<1>2. \A n \in Imported : Resolve(n) \in Content
  BY <1>1, LegacyTypes DEF Resolve, Names
<1>3. Loaded.stamp \in Stamps
  BY <1>2, ContentTypes, ContentFacts DEF Loaded, Imported
<1>4. Rest("off") \in Task
  BY StoreConstants DEF Stamps, Task, Rest
<1>5. /\ marker \in BOOLEAN /\ blocked \in BOOLEAN /\ mem \in Stamps \cup {None}
      /\ saved \in Stamps /\ task \in Task
  BY <1>3, <1>4 DEF Init
<1>6. harm \in 0..2
  BY DEF Init
<1>. QED  BY <1>1, <1>5, <1>6 DEF TypeOK

(* What the storage calls of a write leave of the types.                   *)
LEMMA WriteTypes ==
  ASSUME TypeOK, Write
  PROVE  TypeOK'
<1>. USE DEF TypeOK
<1>1. Writing
  BY DEF Write, At, ClearTmp, CreateTmp, WriteTmp, DropBackup, Rotate, DropMain,
         Promote, Restore, CleanUp
<1>2. legacy' \in LegacyCards /\ marker' \in BOOLEAN /\ mem' \in Stamps \cup {None}
      /\ blocked' \in BOOLEAN
  BY DEF Write, Kept, ClearTmp, CreateTmp, WriteTmp, DropBackup, Rotate, DropMain,
         Promote, Restore, CleanUp
<1>3. Works \/ Fails
  BY DEF Write, ClearTmp, CreateTmp, WriteTmp, DropBackup, Rotate, DropMain,
         Promote, Restore, CleanUp
<1>4. harm' \in 0..2
  BY <1>3 DEF Works, Fails, Disturbed
<1>5. saved' \in Stamps
  <2>1. task.value \in Stamps
    BY DEF Task
  <2>2. saved' \in {saved, task.value}
    BY DEF Write, ClearTmp, CreateTmp, WriteTmp, DropBackup, Rotate, DropMain,
           Promote, Restore, CleanUp
  <2>. QED  BY <2>1, <2>2
<1>6. task' \in Task
  <2>1. Return \/ \E step \in WriteSteps : Goto(step)
    BY DEF Write, ClearTmp, CreateTmp, WriteTmp, DropBackup, Rotate, DropMain,
           Promote, Restore, CleanUp, AfterWrite, AfterShortWrite, AfterRefusal, WriteSteps
  <2>. QED  BY <1>1, <2>1, TaskTypes DEF Return, Goto
<1>7. card' \in [Names -> Content]
  <2>. "main" \in Names /\ "bak" \in Names /\ "tmp" \in Names
    BY DEF Names, Imported
  <2>1. CASE ClearTmp \/ CreateTmp \/ WriteTmp \/ CleanUp
    <3>1. \/ card' = card
          \/ \E c \in Content : card' = [card EXCEPT !["tmp"] = c]
      <4>1. Missing \in Content /\ Torn \in Content /\ Whole(task.value) \in Content
        BY ContentTypes DEF Task
      <4>. QED  BY <2>1, <4>1 DEF ClearTmp, CreateTmp, WriteTmp, CleanUp
    <3>. QED  BY <3>1
  <2>2. CASE DropBackup \/ DropMain
    BY <2>2, ContentTypes DEF DropBackup, DropMain
  <2>3. CASE Rotate
    BY <2>3, ContentTypes DEF Rotate, Rotated
  <2>4. CASE Promote
    BY <2>4, ContentTypes DEF Promote
  <2>5. CASE Restore
    BY <2>5, ContentTypes DEF Restore, Restored
  <2>. QED  BY <2>1, <2>2, <2>3, <2>4, <2>5 DEF Write
<1>. QED  BY <1>2, <1>4, <1>5, <1>6, <1>7

LEMMA StepTypes == TypeOK /\ [Next]_vars => TypeOK'
<1>. SUFFICES ASSUME TypeOK, [Next]_vars PROVE TypeOK'
  OBVIOUS
<1>. USE DEF TypeOK
<1>1. CASE Boot
  <2>1. [op |-> "boot", at |-> "main", value |-> 0, failed |-> FALSE] \in Task
    BY StoreConstants DEF Task, BootSteps, Imported, Stamps
  <2>. QED  BY <1>1, <2>1, TaskTypes DEF Boot
<1>2. CASE \E n \in Imported : ImportFile(n)
  <2>. PICK n \in Imported : ImportFile(n)
    BY <1>2
  <2>. PICK ok \in BOOLEAN :
         /\ card' = IF ok THEN [card EXCEPT ![n] = Resolve(n)] ELSE card
         /\ task' = [task EXCEPT !.at = IF n = "main" THEN "bak" ELSE "marker",
                                 !.failed = @ \/ ~ok]
    BY DEF ImportFile
  <2>1. card' \in [Names -> Content]
    BY ReadTypes DEF Names
  <2>2. (task.failed \/ ~ok) \in BOOLEAN
    OBVIOUS
  <2>3. task' \in Task
    BY <2>2, TaskTypes DEF ImportFile, BootSteps, Imported
  <2>. QED  BY <2>1, <2>3 DEF ImportFile
<1>3. CASE FinishImport
  BY <1>3, TaskTypes DEF FinishImport
<1>4. CASE Load
  BY <1>4, ReadTypes, StoreConstants DEF Load, Blocks, Stamps
<1>5. CASE Misread
  <2>1. \A c \in {Resolve("bak"), Missing} : c.stamp \in Stamps
    BY ReadTypes, ContentTypes, ContentFacts DEF Imported
  <2>2. 0 \in Stamps
    BY StoreConstants DEF Stamps
  <2>. QED  BY <1>5, <2>1, <2>2 DEF Misread, Blocks
<1>6. CASE CountSession
  BY <1>6, StoreConstants DEF CountSession, Stamps
<1>7. CASE BeginSave
  <2>1. [op |-> "save", at |-> "clear", value |-> mem, failed |-> FALSE] \in Task
    BY <1>7 DEF BeginSave, Task, WriteSteps
  <2>. QED  BY <1>7, <2>1 DEF BeginSave
<1>8. CASE BeginReset
  <2>1. NextStamp \in Stamps /\ 0 \in Stamps
    BY <1>8, NextStampType, StoreConstants DEF BeginReset, Stamps
  <2>2. [op |-> "reset", at |-> "clear", value |-> NextStamp, failed |-> FALSE] \in Task
    BY <2>1 DEF Task, WriteSteps
  <2>. QED  BY <1>8, <2>1, <2>2 DEF BeginReset
<1>9. CASE Write
  BY <1>9, WriteTypes
<1>10. CASE PowerLoss
  <2>1. harm' \in 0..2
    BY <1>10 DEF PowerLoss, Disturbed
  <2>. QED  BY <1>10, <2>1, TaskTypes DEF PowerLoss
<1>11. CASE NewerBuild
  <2>1. NextStamp \in Stamps
    BY <1>11, NextStampType, StoreConstants DEF NewerBuild, Stamps
  <2>2. \A n \in Names : card'[n] \in Content
    BY <1>11, <2>1, ContentTypes DEF NewerBuild, Names, Imported
  <2>3. card' \in [Names -> Content]
    BY <1>11, <2>2 DEF NewerBuild
  <2>. QED  BY <1>11, <2>1, <2>3 DEF NewerBuild, Disturbed
<1>12. CASE UNCHANGED vars
  <2>1. UNCHANGED Loaded
    BY <1>12 DEF vars, Loaded, Resolve, LegacyCopy
  <2>. QED  BY <1>12 DEF vars
<1>. QED  BY <1>1, <1>2, <1>3, <1>4, <1>5, <1>6, <1>7, <1>8, <1>9, <1>10, <1>11, <1>12
          DEF Next

(* Every variable keeps its type.                                          *)
THEOREM StoreTypeCorrect == Spec => []TypeOK
<1>. QED  BY InitTypes, StepTypes, PTL DEF Spec

-----------------------------------------------------------------------------
(* What one disturbed write leaves.                                        *)

Holds(c) == Good(c) /\ c.stamp >= saved

(* No save yet: the totals are those an older firmware left.               *)
LegacyLoaded ==
  IF Good(LegacyCopy("main")) THEN LegacyCopy("main")
  ELSE IF Good(LegacyCopy("bak")) THEN LegacyCopy("bak") ELSE Missing
OnlyImported ==
  /\ card["main"] = Missing /\ card["bak"] \in {Missing, LegacyCopy("bak")}
  /\ LegacyLoaded.stamp >= saved

(* Which calls an operation makes, and what they have done by then.        *)
WriteOrder ==
  /\ task.op = "save" => task.at # "dropMain" /\ task.value = mem
  /\ task.op = "reset" =>
       task.at \notin {"dropBak", "rotate", "restore"} /\ saved = 0 /\ mem = None
  /\ task.op \in {"off", "boot"} => mem = None
  /\ task.at \in {"dropBak", "rotate", "dropMain", "promote", "restore"} =>
       card["tmp"] = Whole(task.value)
  /\ task.at \in {"promote", "restore"} => card["main"] = Missing
  /\ harm = 0 => task.at \notin {"restore", "cleanup"}
  /\ ~Writing => task.at \notin WriteSteps

(* What an activity holds and may save is as new as the last save.         *)
MemIsNew ==
  Unharmed =>
    /\ mem # None /\ ~blocked => mem >= saved
    /\ task.op = "save" => mem >= saved

(* Undisturbed, the last save is the file; while it is rotated away, it is *)
(* the backup unless the card still has an older firmware's files.         *)
Undisturbed ==
  IF Writing /\ task.at = "promote"
  THEN legacy = EmptyLegacy => saved = 0 \/ Holds(card["bak"])
  ELSE saved = 0 \/ Holds(card["main"]) \/ OnlyImported

(* Once disturbed, it is the file or the backup, or the whole temporary    *)
(* file of the next save.                                                  *)
DisturbedOnce ==
  \/ saved = 0 \/ Holds(card["main"])
  \/ card["main"] = Missing /\ Holds(card["bak"])
  \/ /\ task.op = "save" /\ task.at \in {"rotate", "promote"}
     /\ card["main"] = Missing /\ card["bak"] = Missing

StoreInv ==
  /\ TypeOK /\ NoTornTotals /\ WriteOrder /\ MemIsNew
  /\ harm = 0 => Undisturbed
  /\ harm = 1 /\ legacy = EmptyLegacy => DisturbedOnce

LEMMA SavesKept == StoreInv => SavesSurvive
<1>. SUFFICES ASSUME StoreInv, Unharmed, Idle PROVE Loaded.stamp >= saved
  BY DEF SavesSurvive
<1>. USE DEF StoreInv
<1>1. /\ Resolve("main") \in Content /\ Resolve("bak") \in Content
      /\ LegacyCopy("main") \in Content /\ LegacyCopy("bak") \in Content
      /\ Loaded.stamp \in Nat /\ saved \in Nat
      /\ LegacyCopy("main") # Torn /\ LegacyCopy("bak") # Torn
  BY ReadTypes, LegacyTypes, ContentFacts, StoreConstants DEF TypeOK, Stamps, Imported, Torn, Missing
<1>2. ~Writing
  BY DEF Idle, Rest, Writing
<1>3. CASE saved = 0
  BY <1>1, <1>3
<1>4. CASE Holds(card["main"])
  BY <1>1, <1>4, ContentFacts DEF Holds, Loaded, Resolve
<1>5. CASE OnlyImported
  <2>1. Loaded = LegacyLoaded
    BY <1>1, <1>5, ContentFacts DEF OnlyImported, Loaded, LegacyLoaded, Resolve
  <2>. QED  BY <1>5, <2>1 DEF OnlyImported
<1>6. CASE legacy = EmptyLegacy /\ card["main"] = Missing /\ Holds(card["bak"])
  <2>1. LegacyCopy("main") = Missing
    BY <1>6 DEF LegacyCopy, EmptyLegacy, Roots, Imported
  <2>. QED  BY <1>1, <1>6, <2>1, ContentFacts DEF Holds, Loaded, Resolve
<1>7. CASE harm = 0
  BY <1>2, <1>3, <1>4, <1>5, <1>7 DEF Undisturbed
<1>8. CASE harm = 1 /\ legacy = EmptyLegacy
  BY <1>2, <1>3, <1>4, <1>6, <1>8 DEF DisturbedOnce, Writing
<1>. QED  BY <1>7, <1>8 DEF Unharmed

LEMMA InitStoreInv == Init => StoreInv
<1>. SUFFICES ASSUME Init PROVE StoreInv
  OBVIOUS
<1>1. TypeOK
  BY InitTypes
<1>2. card["main"] = Missing /\ card["bak"] = Missing /\ harm = 0
  BY DEF Init, Names, Imported
<1>3. NoTornTotals /\ WriteOrder /\ MemIsNew
  BY <1>2, ContentFacts DEF Writing, WriteSteps, Init, NoTornTotals, WriteOrder, MemIsNew, Rest
<1>4. Loaded = LegacyLoaded
  BY <1>2 DEF Loaded, LegacyLoaded, Resolve
<1>5. LegacyLoaded.stamp >= saved
  BY <1>1, <1>4, ReadTypes, ContentFacts DEF Init
<1>6. Undisturbed
  BY <1>2, <1>5 DEF Init, Undisturbed, OnlyImported, Writing, Rest
<1>. QED  BY <1>1, <1>2, <1>3, <1>6 DEF StoreInv

(* A step that writes nothing, and starts no rename, leaves the guarantees *)
(* of the card as they are.                                                *)
LEMMA QuietStep ==
  ASSUME StoreInv, UNCHANGED <<card, legacy, saved>>, ~Writing,
         task'.at # "promote", harm' \in {harm, 2}
  PROVE  /\ NoTornTotals'
         /\ harm' = 0 => Undisturbed'
         /\ harm' = 1 /\ legacy' = EmptyLegacy => DisturbedOnce'
<1>1. UNCHANGED <<LegacyLoaded, LegacyCopy("bak")>>
  BY DEF LegacyLoaded, LegacyCopy
<1>2. ~(Writing' /\ task'.at = "promote")
  BY DEF Writing
<1>. QED  BY <1>1, <1>2 DEF StoreInv, NoTornTotals, Undisturbed, DisturbedOnce,
          OnlyImported, Holds, Writing

LEMMA BootStep ==
  ASSUME StoreInv, TypeOK', Boot \/ (\E n \in Imported : ImportFile(n)) \/ FinishImport
  PROVE  StoreInv'
<1>. USE DEF StoreInv
<1>1. UNCHANGED <<legacy, mem, blocked, saved, harm>> /\ ~Writing /\ mem = None
  <2>1. task.op \in {"off", "boot"}
    <3>1. CASE Boot
      BY <3>1 DEF Boot, Rest
    <3>2. CASE (\E n \in Imported : ImportFile(n)) \/ FinishImport
      BY <3>2 DEF ImportFile, FinishImport
    <3>. QED  BY <3>1, <3>2
  <2>2. UNCHANGED <<legacy, mem, blocked, saved, harm>>
    BY DEF Boot, ImportFile, FinishImport
  <2>. QED  BY <2>1, <2>2 DEF Writing, WriteOrder
<1>2. /\ task'.op \in {"off", "idle", "boot"} /\ task'.at \notin WriteSteps
      /\ ~Writing'
  <2>1. CASE Boot \/ FinishImport
    BY <2>1 DEF Boot, FinishImport, Rest, WriteSteps, Writing
  <2>2. CASE \E n \in Imported : ImportFile(n)
    <3>1. task'.op = "boot" /\ task'.at \in {"bak", "marker"}
      BY <2>2 DEF ImportFile, TypeOK, Task
    <3>. QED  BY <3>1 DEF WriteSteps, Writing
  <2>. QED  BY <2>1, <2>2
<1>3. WriteOrder'
  BY <1>1, <1>2 DEF WriteOrder, WriteSteps
<1>4. MemIsNew'
  BY <1>1, <1>2 DEF MemIsNew, Unharmed
<1>5. CASE Boot \/ FinishImport
  <2>1. card' = card /\ task'.at # "promote"
    BY <1>2, <1>5 DEF Boot, FinishImport, WriteSteps
  <2>. QED  BY <1>1, <1>3, <1>4, <2>1, QuietStep
<1>6. CASE \E n \in Imported : ImportFile(n)
  <2>. PICK n \in Imported : card' \in {card, [card EXCEPT ![n] = Resolve(n)]}
    BY <1>6 DEF ImportFile
  <2>1. /\ card \in [Names -> Content] /\ "main" \in Names /\ "bak" \in Names
        /\ LegacyCopy("main") \in Content /\ LegacyCopy("bak") \in Content
        /\ LegacyCopy("main") # Torn /\ LegacyCopy("bak") # Torn
    BY LegacyTypes, ContentFacts DEF TypeOK, Names, Imported, Torn, Missing
  <2>2. n \in {"main", "bak"}
    BY DEF Imported
  <2>3. NoTornTotals'
    BY <2>1, <2>2 DEF NoTornTotals, Resolve
  <2>4. UNCHANGED <<LegacyLoaded, LegacyCopy("main"), LegacyCopy("bak")>>
    BY <1>1 DEF LegacyLoaded, LegacyCopy
  <2>5. ASSUME harm' = 0 PROVE Undisturbed'
    <3>1. saved = 0 \/ Holds(card["main"]) \/ OnlyImported
      BY <1>1, <2>5 DEF Undisturbed
    <3>2. ASSUME Holds(card["main"]) PROVE Holds(card["main"])'
      BY <1>1, <2>1, <2>2, <3>2, ContentFacts DEF Holds, Resolve
    <3>3. ASSUME OnlyImported PROVE (Holds(card["main"]) \/ OnlyImported)'
      BY <1>1, <2>1, <2>2, <2>4, <3>3, ContentFacts
         DEF OnlyImported, Holds, Resolve, LegacyLoaded
    <3>. QED  BY <1>1, <1>2, <3>1, <3>2, <3>3 DEF Undisturbed
  <2>6. ASSUME harm' = 1 /\ legacy' = EmptyLegacy PROVE DisturbedOnce'
    <3>1. LegacyCopy("main") = Missing /\ LegacyCopy("bak") = Missing
      BY <1>1, <2>6 DEF LegacyCopy, EmptyLegacy, Roots, Imported
    <3>2. card' = card
      BY <2>1, <2>2, <3>1 DEF Resolve
    <3>. QED  BY <1>1, <2>6, <3>2 DEF DisturbedOnce, Holds, Writing
  <2>. QED  BY <1>3, <1>4, <2>3, <2>5, <2>6
<1>. QED  BY <1>5, <1>6

LEMMA ActivityStep ==
  ASSUME StoreInv, TypeOK',
         Load \/ Misread \/ CountSession \/ BeginSave \/ BeginReset
  PROVE  StoreInv'
<1>. USE DEF StoreInv
<1>1. Idle /\ ~Writing /\ UNCHANGED <<card, legacy>> /\ task.op = "idle"
  BY DEF Load, Misread, CountSession, BeginSave, BeginReset, Idle, Rest, Writing
<1>2. saved \in Nat /\ Loaded.stamp \in Nat /\ (mem \in Nat \/ mem = None) /\ None \notin Stamps
      /\ 0 \in Stamps
  BY ReadTypes, StoreConstants DEF TypeOK, Stamps
<1>3. CASE Load
  <2>1. UNCHANGED <<card, legacy, task, saved, harm>> /\ ~Writing'
    BY <1>1, <1>3 DEF Load, Writing
  <2>2. WriteOrder'
    BY <1>1, <2>1 DEF WriteOrder, Idle, Rest
  <2>3. MemIsNew'
    BY <1>1, <1>2, <1>3, <2>1, SavesKept DEF MemIsNew, Load, SavesSurvive, Unharmed
  <2>. QED  BY <1>1, <2>1, <2>2, <2>3, QuietStep DEF Idle, Rest
<1>4. CASE Misread
  <2>1. UNCHANGED <<card, legacy, task, saved>> /\ harm' = 2
    BY <1>4 DEF Misread
  <2>2. WriteOrder' /\ MemIsNew'
    BY <1>1, <2>1 DEF WriteOrder, MemIsNew, Unharmed, Idle, Rest
  <2>. QED  BY <1>1, <2>1, <2>2, QuietStep DEF Idle, Rest
<1>5. CASE CountSession
  <2>1. UNCHANGED <<card, legacy, task, blocked, saved, harm>> /\ mem' = mem + 1 /\ mem # None
    BY <1>5 DEF CountSession
  <2>2. WriteOrder'
    BY <1>1, <2>1 DEF WriteOrder, Idle, Rest
  <2>3. MemIsNew'
    BY <1>1, <1>2, <2>1 DEF MemIsNew, Unharmed
  <2>. QED  BY <1>1, <2>1, <2>2, <2>3, QuietStep DEF Idle, Rest
<1>6. CASE BeginSave
  <2>1. /\ UNCHANGED <<card, legacy, mem, blocked, saved, harm>> /\ mem # None /\ ~blocked
        /\ task' = [op |-> "save", at |-> "clear", value |-> mem, failed |-> FALSE]
    BY <1>6 DEF BeginSave
  <2>2. WriteOrder' /\ MemIsNew'
    BY <2>1 DEF Writing, WriteSteps, WriteOrder, MemIsNew, Unharmed
  <2>. QED  BY <1>1, <2>1, <2>2, QuietStep
<1>7. CASE BeginReset
  <2>1. /\ UNCHANGED <<card, legacy, blocked, harm>> /\ mem' = None /\ saved' = 0
        /\ task'.op = "reset" /\ task'.at = "clear"
    BY <1>7 DEF BeginReset
  <2>2. WriteOrder' /\ MemIsNew' /\ NoTornTotals'
    BY <2>1 DEF Writing, WriteSteps, WriteOrder, MemIsNew, NoTornTotals
  <2>3. Undisturbed' /\ DisturbedOnce'
    BY <2>1 DEF Undisturbed, DisturbedOnce
  <2>. QED  BY <2>2, <2>3
<1>. QED  BY <1>3, <1>4, <1>5, <1>6, <1>7

(* The calls of a write before the first rename touch only the temporary   *)
(* file and the backup.                                                    *)
LEMMA EarlyWriteStep ==
  ASSUME StoreInv, TypeOK', ClearTmp \/ CreateTmp \/ WriteTmp \/ CleanUp
  PROVE  StoreInv'
<1>. USE DEF StoreInv
<1>1. /\ Writing /\ task.at \in {"clear", "create", "write", "cleanup"}
      /\ UNCHANGED <<legacy, mem, blocked, saved>>
  BY DEF ClearTmp, CreateTmp, WriteTmp, CleanUp, At, Kept
<1>2. /\ card["main"]' = card["main"] /\ card["bak"]' = card["bak"]
  BY DEF TypeOK, ClearTmp, CreateTmp, WriteTmp, CleanUp, Names, Imported
<1>3. \/ task' = Rest("idle")
      \/ /\ task'.op = task.op /\ task'.value = task.value
         /\ task'.at \in {"create", "write", "dropBak", "dropMain", "cleanup"}
  BY DEF TypeOK, Task, ClearTmp, CreateTmp, WriteTmp, CleanUp, Return, Goto,
         AfterWrite, AfterShortWrite
<1>4. harm' \in {harm, 1, 2} /\ (harm' # harm => harm' # 0)
      /\ (harm' = 1 => harm = 1 \/ harm = 0)
  BY DEF TypeOK, ClearTmp, CreateTmp, WriteTmp, CleanUp, Works, Fails, Disturbed
<1>5. NoTornTotals'
  BY <1>2 DEF NoTornTotals
<1>6. WriteOrder'
  <2>1. task'.at \in {"dropBak", "dropMain"} =>
          /\ card["tmp"]' = Whole(task.value) /\ harm' = harm
          /\ task'.at = AfterWrite
    BY <1>1 DEF TypeOK, Task, ClearTmp, CreateTmp, WriteTmp, CleanUp, Return, Goto,
           AfterWrite, AfterShortWrite, Rest, Works, Names
  <2>2. harm' = 0 => task'.at # "cleanup" /\ harm = 0
    BY <1>1, <1>4 DEF TypeOK, Task, ClearTmp, CreateTmp, WriteTmp, CleanUp, Return, Goto,
           AfterWrite, AfterShortWrite, Rest, Works, Fails, Disturbed
  <2>. QED  BY <1>1, <1>3, <2>1, <2>2 DEF Writing, WriteSteps, WriteOrder, AfterWrite, Rest
<1>7. MemIsNew'
  BY <1>1, <1>3, <1>4 DEF MemIsNew, Unharmed, Rest
<1>8. UNCHANGED LegacyLoaded /\ UNCHANGED LegacyCopy("bak")
  BY <1>1 DEF LegacyLoaded, LegacyCopy
<1>9. ~(Writing' /\ task'.at = "promote") /\ task.at # "promote"
  BY <1>1, <1>3 DEF Writing, Rest
<1>10. ASSUME harm' = 0 PROVE Undisturbed'
  <2>1. harm = 0
    BY <1>4, <1>10
  <2>. QED  BY <1>1, <1>2, <1>8, <1>9, <2>1 DEF Undisturbed, OnlyImported, Holds
<1>11. ASSUME harm' = 1, legacy' = EmptyLegacy PROVE DisturbedOnce'
  <2>1. saved = 0 \/ Holds(card["main"]) \/ OnlyImported
        \/ (card["main"] = Missing /\ Holds(card["bak"]))
    BY <1>1, <1>4, <1>9, <1>11 DEF Undisturbed, DisturbedOnce
  <2>2. OnlyImported => saved = 0
    <3>1. LegacyLoaded = Missing
      BY <1>1, <1>11, ContentFacts DEF LegacyLoaded, LegacyCopy, EmptyLegacy, Roots, Imported
    <3>2. saved \in Nat
      BY StoreConstants DEF TypeOK, Stamps
    <3>. QED  BY <3>1, <3>2, ContentFacts DEF OnlyImported
  <2>. QED  BY <1>1, <1>2, <2>1, <2>2 DEF DisturbedOnce, Holds
<1>. QED  BY <1>5, <1>6, <1>7, <1>10, <1>11

LEMMA RenameStep ==
  ASSUME StoreInv, TypeOK', DropBackup \/ Rotate \/ DropMain \/ Promote \/ Restore
  PROVE  StoreInv'
<1>. USE DEF StoreInv
<1>1. /\ Writing /\ task.at \in {"dropBak", "rotate", "dropMain", "promote", "restore"}
      /\ UNCHANGED <<legacy, mem, blocked>> /\ card["tmp"] = Whole(task.value)
  BY DEF DropBackup, Rotate, DropMain, Promote, Restore, At, Kept, WriteOrder
<1>2. /\ card \in [Names -> Content] /\ "main" \in Names /\ "bak" \in Names
      /\ "tmp" \in Names /\ saved \in Nat /\ harm \in 0..2 /\ task.value \in Nat
  BY StoreConstants DEF TypeOK, Names, Imported, Stamps, Task
<1>3. NoTornTotals'
  BY <1>1, <1>2, ContentFacts DEF NoTornTotals, DropBackup, Rotate, Rotated, DropMain,
     Promote, Restore, Restored
<1>4. legacy = EmptyLegacy /\ OnlyImported => saved = 0
  <2>1. ASSUME legacy = EmptyLegacy PROVE LegacyLoaded = Missing
    BY <2>1, ContentFacts DEF LegacyLoaded, LegacyCopy, EmptyLegacy, Roots, Imported
  <2>. QED  BY <1>2, <2>1, ContentFacts DEF OnlyImported
<1>5. LegacyLoaded' = LegacyLoaded /\ LegacyCopy("bak")' = LegacyCopy("bak")
  BY <1>1 DEF LegacyLoaded, LegacyCopy
<1>6. CASE task.op = "reset"
  <2>1. task.at \in {"dropMain", "promote"} /\ saved = 0 /\ mem = None
    BY <1>1, <1>6 DEF WriteOrder
  <2>2. DropMain \/ Promote
    BY <2>1 DEF DropBackup, Rotate, DropMain, Promote, Restore, At
  <2>3. CASE Works /\ Promote /\ Return
    <3>1. /\ card["main"]' = Whole(task.value) /\ saved' = task.value
          /\ task' = Rest("idle")
      BY <1>1, <1>2, <1>6, <2>3 DEF Promote, Return, Works, Goto, AfterRefusal, Rest
    <3>2. WriteOrder' /\ MemIsNew'
      BY <1>1, <2>1, <3>1 DEF Writing, WriteSteps, WriteOrder, MemIsNew, Rest
    <3>3. Holds(card["main"])'
      BY <1>2, <3>1, ContentFacts DEF Holds
    <3>. QED  BY <1>3, <3>1, <3>2, <3>3 DEF Undisturbed, DisturbedOnce, Rest, Writing
  <2>4. CASE saved' = saved /\ \E step \in {"promote", "cleanup"} : Goto(step)
    <3>1. /\ task'.op = "reset" /\ task'.at \in {"promote", "cleanup"}
          /\ task'.value = task.value
      BY <1>6, <2>4 DEF Goto, TypeOK, Task
    <3>2. task'.at = "promote" => card["tmp"]' = card["tmp"] /\ card["main"]' = Missing
      BY <1>1, <1>2, <1>6, <2>1, <2>2, <3>1 DEF DropMain, Promote, Goto, Return, Rest,
         AfterRefusal, TypeOK, Task, At
    <3>3. harm' = 0 => task'.at # "cleanup"
      BY <1>1, <1>2, <2>1, <2>2 DEF DropMain, Promote, Goto, Return, Rest, TypeOK, Task, At,
         Works, Fails, Disturbed
    <3>4. WriteOrder' /\ MemIsNew'
      BY <1>1, <2>1, <2>4, <3>1, <3>2, <3>3 DEF Writing, WriteSteps, WriteOrder, MemIsNew
    <3>. QED  BY <1>3, <2>1, <2>4, <3>4 DEF Undisturbed, DisturbedOnce
  <2>5. \/ Works /\ Promote /\ Return
        \/ saved' = saved /\ \E step \in {"promote", "cleanup"} : Goto(step)
    BY <1>6, <2>2 DEF DropMain, Promote, AfterRefusal
  <2>. QED  BY <2>3, <2>4, <2>5
<1>7. CASE task.op = "save"
  <2>1. /\ task.at # "dropMain" /\ task.value = mem /\ mem \in Nat
        /\ DropBackup \/ Rotate \/ Promote \/ Restore
    BY <1>1, <1>2, <1>7 DEF WriteOrder, DropBackup, Rotate, DropMain, Promote, Restore, At
  <2>2. Unharmed => mem >= saved
    BY <1>7 DEF MemIsNew
  <2>3. CASE Works /\ Promote /\ Return
    <3>1. /\ card["main"]' = Whole(task.value) /\ saved' = task.value
          /\ task' = Rest("idle")
      BY <1>1, <1>2, <1>7, <2>3 DEF Promote, Return, Works, Goto, AfterRefusal, Rest
    <3>2. WriteOrder'
      BY <1>1, <2>3, <3>1 DEF Writing, WriteSteps, WriteOrder, Rest, Works
    <3>3. MemIsNew'
      BY <1>1, <2>1, <3>1 DEF MemIsNew, Rest
    <3>4. Holds(card["main"])'
      BY <1>2, <3>1, ContentFacts DEF Holds
    <3>. QED  BY <1>3, <3>1, <3>2, <3>3, <3>4 DEF Undisturbed, DisturbedOnce, Rest, Writing
  <2>4. CASE saved' = saved /\ \E step \in {"rotate", "promote", "restore", "cleanup"} : Goto(step)
    <3>1. /\ task'.op = "save" /\ task'.value = task.value
          /\ task'.at \in {"rotate", "promote", "restore", "cleanup"}
      BY <1>7, <2>4 DEF Goto, TypeOK, Task
    <3>2. task'.at # "cleanup" => card["tmp"]' = card["tmp"]
      BY <1>1, <1>2, <2>1, <3>1 DEF DropBackup, Rotate, Rotated, Promote, Restore, Goto,
         Return, Rest, TypeOK, Task
    <3>3. task'.at \in {"promote", "restore"} => card["main"]' = Missing
      BY <1>1, <1>2, <2>1, <3>1 DEF DropBackup, Rotate, Rotated, Promote, Restore, Goto, Return,
         Rest, TypeOK, Task, WriteOrder, AfterRefusal, At
    <3>4. harm' = 0 => task'.at \notin {"restore", "cleanup"} /\ harm = 0
      BY <1>1, <1>2, <1>7, <2>1 DEF DropBackup, Rotate, Promote, Restore, Goto, Return,
         Rest, TypeOK, Task, WriteOrder, AfterRefusal, At, Works, Fails, Disturbed
    <3>5. WriteOrder'
      BY <1>1, <2>1, <3>1, <3>2, <3>3, <3>4 DEF Writing, WriteSteps, WriteOrder
    <3>6. harm' = 1 => harm \in {0, 1}
      BY <1>2, <2>1 DEF DropBackup, Rotate, Promote, Restore, Works, Fails, Disturbed
    <3>7. MemIsNew'
      BY <1>1, <2>1, <2>2, <2>4, <3>1, <3>4, <3>6 DEF MemIsNew, Unharmed
    <3>8. ASSUME harm' = 0 PROVE Undisturbed'
      BY <1>1, <1>2, <1>4, <1>5, <1>7, <2>1, <2>4, <3>1, <3>4, <3>8, ContentFacts
         DEF Undisturbed, DropBackup, Rotate, Rotated, Promote, Restore, At, Goto, Return, Rest,
             TypeOK, Task, Works, Fails, Disturbed, Holds, OnlyImported, Writing, AfterRefusal
    <3>9. ASSUME harm' = 1, legacy' = EmptyLegacy PROVE DisturbedOnce'
      <4>. SUFFICES ASSUME saved # 0 PROVE DisturbedOnce'
        BY <2>4 DEF DisturbedOnce
      <4>1. \/ Holds(card["main"])
            \/ card["main"] = Missing /\ Holds(card["bak"])
            \/ task.at \in {"rotate", "promote"} /\ card["main"] = Missing /\ card["bak"] = Missing
               /\ harm = 1
        <5>1. CASE harm = 0
          BY <1>1, <1>4, <1>7, <3>9, <5>1 DEF Undisturbed, WriteOrder, Writing
        <5>2. CASE harm = 1
          BY <1>1, <1>7, <3>9, <5>2 DEF DisturbedOnce
        <5>. QED  BY <3>6, <3>9, <5>1, <5>2
      <4>2. \A c : Holds(c)' = Holds(c)
        BY <2>4 DEF Holds
      <4>3. ~Holds(Missing)
        BY ContentFacts DEF Holds
      <4>4. CASE DropBackup
        BY <1>1, <1>2, <2>4, <3>1, <4>1, <4>2, <4>4
           DEF DropBackup, DisturbedOnce, At, Goto, TypeOK, Task, Works
      <4>5. CASE Rotate
        BY <1>1, <1>2, <2>4, <3>1, <4>1, <4>2, <4>3, <4>5
           DEF Rotate, Rotated, DisturbedOnce, At, Goto, Works, Fails, Disturbed, TypeOK, Task
      <4>6. CASE Promote
        BY <1>1, <1>2, <2>4, <3>1, <3>9, <4>1, <4>2, <4>3, <4>6
           DEF Promote, DisturbedOnce, At, Goto, Return, Rest, Works, Fails, Disturbed, TypeOK, Task
      <4>7. CASE Restore
        BY <1>1, <1>2, <2>4, <3>1, <3>9, <4>1, <4>2, <4>3, <4>7
           DEF Restore, Restored, DisturbedOnce, At, Works, Fails, Disturbed, WriteOrder
      <4>. QED  BY <2>1, <4>4, <4>5, <4>6, <4>7
    <3>. QED  BY <1>3, <3>5, <3>7, <3>8, <3>9
  <2>5. \/ Works /\ Promote /\ Return
        \/ saved' = saved /\ \E step \in {"rotate", "promote", "restore", "cleanup"} : Goto(step)
    BY <1>7, <2>1 DEF DropBackup, Rotate, Promote, Restore, AfterRefusal
  <2>. QED  BY <2>3, <2>4, <2>5
<1>. QED  BY <1>1, <1>6, <1>7 DEF Writing

LEMMA SurroundingsStep ==
  ASSUME StoreInv, TypeOK', PowerLoss \/ NewerBuild
  PROVE  StoreInv'
<1>. USE DEF StoreInv
<1>1. card \in [Names -> Content] /\ "main" \in Names /\ "bak" \in Names /\ harm \in 0..2
      /\ saved \in Nat
  BY StoreConstants DEF TypeOK, Names, Imported, Stamps
<1>2. CASE PowerLoss
  <2>1. /\ task' = Rest("off") /\ mem' = None /\ UNCHANGED <<card, legacy, saved>>
        /\ task'.at = "none" /\ task'.op = "off"
    BY <1>2 DEF PowerLoss, Rest
  <2>2. WriteOrder' /\ MemIsNew'
    BY <2>1 DEF Writing, WriteSteps, WriteOrder, MemIsNew
  <2>3. CASE ~Writing
    BY <1>2, <2>1, <2>2, <2>3, QuietStep DEF PowerLoss
  <2>4. CASE Writing
    <3>1. harm' = IF harm = 0 THEN 1 ELSE 2
      BY <1>2, <2>4 DEF PowerLoss, Disturbed
    <3>2. ASSUME harm' = 1, legacy' = EmptyLegacy PROVE DisturbedOnce'
      <4>1. harm = 0 /\ legacy = EmptyLegacy
        BY <2>1, <3>1, <3>2
      <4>2. OnlyImported => saved = 0
        <5>1. LegacyLoaded = Missing
          BY <4>1, ContentFacts DEF LegacyLoaded, LegacyCopy, EmptyLegacy, Roots, Imported
        <5>. QED  BY <1>1, <5>1, ContentFacts DEF OnlyImported
      <4>. QED  BY <2>1, <4>1, <4>2 DEF Undisturbed, DisturbedOnce, WriteOrder, Holds
    <3>. QED  BY <1>1, <2>1, <2>2, <3>1, <3>2 DEF NoTornTotals
  <2>. QED  BY <2>3, <2>4
<1>3. CASE NewerBuild
  <2>1. /\ UNCHANGED <<legacy, task, mem, blocked>> /\ task.op = "off" /\ mem = None
        /\ saved' = NextStamp
    BY <1>3 DEF NewerBuild, WriteOrder
  <2>2. NextStamp \in Nat
    BY NextStampType
  <2>3. CASE card' = [card EXCEPT !["main"] = Newer(NextStamp), !["bak"] = card["main"],
                               !["tmp"] = Missing] /\ harm' = harm
    <3>1. card["main"]' = Newer(NextStamp) /\ card["bak"]' = card["main"]
      BY <1>1, <2>3
    <3>2. Holds(card["main"])' /\ NoTornTotals'
      BY <2>1, <2>2, <3>1, ContentFacts DEF Holds, NoTornTotals
    <3>3. WriteOrder' /\ MemIsNew'
      BY <2>1, <2>3, <3>1 DEF WriteOrder, MemIsNew, Writing, WriteSteps
    <3>. QED  BY <2>1, <3>2, <3>3 DEF Undisturbed, DisturbedOnce, Writing
  <2>4. CASE card' = [card EXCEPT !["main"] = Missing, !["bak"] = Newer(NextStamp),
                               !["tmp"] = Torn] /\ Disturbed
    <3>1. card["main"]' = Missing /\ card["bak"]' = Newer(NextStamp) /\ harm' # 0
      BY <1>1, <2>4 DEF Disturbed
    <3>2. Holds(card["bak"])' /\ NoTornTotals'
      BY <2>1, <2>2, <3>1, ContentFacts DEF Holds, NoTornTotals
    <3>3. WriteOrder' /\ MemIsNew'
      BY <2>1, <3>1 DEF WriteOrder, MemIsNew, Writing, WriteSteps
    <3>. QED  BY <3>1, <3>2, <3>3 DEF DisturbedOnce
  <2>. QED  BY <1>3, <2>3, <2>4 DEF NewerBuild
<1>. QED  BY <1>2, <1>3

LEMMA StoreStep == StoreInv /\ [Next]_vars => StoreInv'
<1>. SUFFICES ASSUME StoreInv, [Next]_vars PROVE StoreInv'
  OBVIOUS
<1>1. TypeOK'
  BY StepTypes DEF StoreInv
<1>2. CASE Boot \/ (\E n \in Imported : ImportFile(n)) \/ FinishImport
  BY <1>1, <1>2, BootStep
<1>3. CASE Load \/ Misread \/ CountSession \/ BeginSave \/ BeginReset
  BY <1>1, <1>3, ActivityStep
<1>4. CASE Write
  BY <1>1, <1>4, EarlyWriteStep, RenameStep DEF Write
<1>5. CASE PowerLoss \/ NewerBuild
  BY <1>1, <1>5, SurroundingsStep
<1>6. CASE UNCHANGED vars
  <2>1. UNCHANGED <<LegacyLoaded, LegacyCopy("bak")>>
    BY <1>6 DEF vars, LegacyLoaded, LegacyCopy
  <2>. QED  BY <1>1, <1>6, <2>1 DEF vars, StoreInv, NoTornTotals, WriteOrder, MemIsNew,
            Unharmed, Undisturbed, DisturbedOnce, OnlyImported, Holds, Writing
<1>. QED  BY <1>2, <1>3, <1>4, <1>5, <1>6 DEF Next

(* Neither the file nor its backup is ever half written.                   *)
THEOREM TotalsNeverTorn == Spec => []NoTornTotals
<1>1. StoreInv => NoTornTotals
  BY DEF StoreInv
<1>. QED  BY <1>1, InitStoreInv, StoreStep, PTL DEF Spec

(* Whatever one disturbed write does, load finds the last completed save,  *)
(* and nothing from before the last completed reset.                       *)
THEOREM CompletedSavesSurvive == Spec => []SavesSurvive
<1>. QED  BY InitStoreInv, StoreStep, SavesKept, PTL DEF Spec
-----------------------------------------------------------------------------
(* Totals of a newer build.                                                *)

(* While no harm is done, an activity that holds totals it may save has    *)
(* not been shown newer ones, and from the moment the backup has been      *)
(* dropped its save leaves none anywhere.                                  *)
NewerInv ==
  /\ task.op = "save" => ~blocked
  /\ Unharmed /\ mem # None /\ ~blocked =>
       /\ Loaded.kind # "newer"
       /\ task.at \in {"rotate", "promote", "restore"} => card["bak"].kind # "newer"

LEMMA NewerIsFound ==
  ASSUME TypeOK
  PROVE  /\ Loaded.kind # "newer" => card["main"].kind # "newer"
         /\ card["main"].kind # "newer" /\ card["bak"].kind # "newer" =>
              Loaded.kind # "newer"
         /\ card["main"].kind = "newer" => Loaded.kind = "newer"
<1>1. /\ LegacyCopy("main").kind # "newer" /\ LegacyCopy("bak").kind # "newer"
      /\ Missing.kind # "newer"
  BY LegacyTypes, ContentFacts DEF TypeOK, Imported
<1>. QED  BY <1>1 DEF Loaded, Resolve, Good

LEMMA HarmStays ==
  ASSUME TypeOK, Next, Unharmed'
  PROVE  Unharmed
<1>1. legacy' = legacy /\ (harm' = harm \/ Disturbed \/ harm' = 2)
  BY DEF Next, Boot, ImportFile, FinishImport, Load, Misread, CountSession, BeginSave,
         BeginReset, Write, ClearTmp, CreateTmp, WriteTmp, DropBackup, Rotate, DropMain,
         Promote, Restore, CleanUp, PowerLoss, NewerBuild, Works, Fails, Kept
<1>2. harm \in 0..2
  BY DEF TypeOK
<1>. QED  BY <1>1, <1>2 DEF Unharmed, Disturbed

LEMMA SameCardLoads ==
  ASSUME UNCHANGED <<card, legacy>>
  PROVE  Loaded' = Loaded
BY DEF Loaded, Resolve, LegacyCopy

(* An import copies what load would have resolved to.                      *)
LEMMA ImportLoads ==
  ASSUME TypeOK, \E n \in Imported : ImportFile(n)
  PROVE  Loaded' = Loaded
<1>. PICK n \in Imported : ImportFile(n)
  OBVIOUS
<1>1. card' \in {card, [card EXCEPT ![n] = Resolve(n)]} /\ legacy' = legacy
  BY DEF ImportFile
<1>2. /\ card \in [Names -> Content] /\ "main" \in Names /\ "bak" \in Names
      /\ n \in {"main", "bak"}
  BY DEF TypeOK, Names, Imported
<1>3. LegacyCopy("main")' = LegacyCopy("main") /\ LegacyCopy("bak")' = LegacyCopy("bak")
  BY <1>1 DEF LegacyCopy
<1>4. Resolve("main")' = Resolve("main") /\ Resolve("bak")' = Resolve("bak")
  BY <1>1, <1>2, <1>3 DEF Resolve
<1>. QED  BY <1>4 DEF Loaded

(* The steps outside a write.                                              *)
LEMMA NewerRests ==
  ASSUME StoreInv, NewerInv, TypeOK', Unharmed' => Unharmed,
         \/ Boot \/ (\E n \in Imported : ImportFile(n)) \/ FinishImport
         \/ Load \/ Misread \/ CountSession \/ BeginSave \/ BeginReset
         \/ PowerLoss \/ NewerBuild
  PROVE  NewerInv'
<1>. USE DEF StoreInv
<1>1. CASE Boot \/ (\E n \in Imported : ImportFile(n)) \/ FinishImport
  <2>1. task.op \in {"off", "boot"} /\ mem' = mem /\ task'.op # "save"
    <3>1. CASE Boot
      BY <3>1 DEF Boot, Rest
    <3>2. CASE FinishImport
      BY <3>2 DEF FinishImport, Rest
    <3>3. CASE \E n \in Imported : ImportFile(n)
      BY <3>3 DEF ImportFile, TypeOK, Task
    <3>. QED  BY <1>1, <3>1, <3>2, <3>3
  <2>. QED  BY <2>1 DEF NewerInv, WriteOrder
<1>2. CASE PowerLoss \/ NewerBuild
  <2>1. mem' = None /\ task'.op = "off"
    BY <1>2 DEF PowerLoss, NewerBuild, Rest, WriteOrder
  <2>. QED  BY <2>1 DEF NewerInv
<1>3. CASE Load \/ Misread \/ CountSession \/ BeginSave \/ BeginReset
  <2>1. /\ task.op = "idle" /\ task.at = "none" /\ UNCHANGED <<card, legacy>>
    BY <1>3 DEF Load, Misread, CountSession, BeginSave, BeginReset, Idle, Rest
  <2>2. Loaded' = Loaded
    BY <2>1, SameCardLoads
  <2>3. CASE Load
    BY <2>1, <2>2, <2>3 DEF Load, NewerInv, Blocks
  <2>4. CASE Misread
    BY <2>1, <2>4 DEF Misread, NewerInv, Unharmed
  <2>5. CASE CountSession
    <3>1. /\ mem # None /\ UNCHANGED <<legacy, task, blocked, harm>>
      BY <2>5 DEF CountSession
    <3>. QED  BY <2>1, <2>2, <3>1 DEF NewerInv, Unharmed
  <2>6. CASE BeginSave
    <3>1. /\ UNCHANGED <<legacy, mem, blocked, harm>> /\ ~blocked /\ task'.at = "clear"
      BY <2>6 DEF BeginSave
    <3>. QED  BY <2>1, <2>2, <3>1 DEF NewerInv, Unharmed
  <2>7. CASE BeginReset
    BY <2>7 DEF BeginReset, NewerInv
  <2>. QED  BY <1>3, <2>3, <2>4, <2>5, <2>6, <2>7
<1>. QED  BY <1>1, <1>2, <1>3

LEMMA NewerWrites ==
  ASSUME StoreInv, NewerInv, TypeOK', Unharmed' => Unharmed, Write
  PROVE  NewerInv'
<1>. USE DEF StoreInv
<1>1. Writing /\ UNCHANGED <<legacy, mem, blocked>>
  BY DEF Write, ClearTmp, CreateTmp, WriteTmp, DropBackup, Rotate, DropMain, Promote,
         Restore, CleanUp, At, Kept
<1>2. task'.op \in {"idle", task.op}
  BY DEF Write, ClearTmp, CreateTmp, WriteTmp, DropBackup, Rotate, DropMain, Promote,
         Restore, CleanUp, Return, Goto, Rest, TypeOK, Task
<1>. SUFFICES ASSUME Unharmed', mem # None, ~blocked
              PROVE  /\ Loaded'.kind # "newer"
                     /\ task'.at \in {"rotate", "promote", "restore"} =>
                          card'["bak"].kind # "newer"
  BY <1>1, <1>2 DEF NewerInv
<1>3. task.op = "save" /\ task.at # "dropMain"
  BY <1>1 DEF Writing, WriteOrder
<1>4. /\ Loaded.kind # "newer" /\ card["main"].kind # "newer"
      /\ task.at \in {"rotate", "promote", "restore"} => card["bak"].kind # "newer"
  BY NewerIsFound DEF NewerInv
<1>5. /\ card \in [Names -> Content] /\ "main" \in Names /\ "bak" \in Names
      /\ "tmp" \in Names
  BY DEF TypeOK, Names, Imported
<1>6. Missing.kind # "newer" /\ \A v : Whole(v).kind # "newer"
  BY ContentFacts
<1>7. Rest("idle").at = "none" /\ \A step : Goto(step) => task'.at = step
  BY DEF Rest, Goto, TypeOK, Task
<1>7a. /\ LegacyCopy("main").kind # "newer" /\ LegacyCopy("bak").kind # "newer"
       /\ LegacyCopy("main")' = LegacyCopy("main") /\ LegacyCopy("bak")' = LegacyCopy("bak")
  BY <1>1, <1>6, LegacyTypes DEF TypeOK, Imported, LegacyCopy
<1>7b. ASSUME card'["main"].kind # "newer", card'["bak"].kind # "newer"
       PROVE  Loaded'.kind # "newer"
  BY <1>6, <1>7a, <1>7b DEF Loaded, Resolve
<1>8. CASE ClearTmp \/ CreateTmp \/ WriteTmp \/ CleanUp
  <2>1. card["main"]' = card["main"] /\ card["bak"]' = card["bak"]
    BY <1>5, <1>8 DEF ClearTmp, CreateTmp, WriteTmp, CleanUp
  <2>2. Loaded' = Loaded
    BY <1>1, <2>1 DEF Loaded, Resolve, LegacyCopy
  <2>3. task'.at \notin {"rotate", "promote", "restore"}
    BY <1>7, <1>8 DEF ClearTmp, CreateTmp, WriteTmp, CleanUp, Return, AfterWrite,
                      AfterShortWrite
  <2>. QED  BY <1>4, <2>2, <2>3
<1>9. CASE DropBackup
  <2>1. CASE card' = card /\ Goto("cleanup")
    BY <1>1, <1>4, <1>7, <2>1, SameCardLoads
  <2>2. CASE card' = [card EXCEPT !["bak"] = Missing]
    <3>1. card'["main"].kind # "newer" /\ card'["bak"].kind # "newer"
      BY <1>4, <1>5, <1>6, <2>2
    <3>. QED  BY <1>7b, <3>1
  <2>. QED  BY <1>9, <2>1, <2>2 DEF DropBackup
<1>10. CASE Rotate \/ Promote \/ Restore
  <2>1. card["bak"].kind # "newer" /\ card["tmp"].kind # "newer"
    BY <1>4, <1>6, <1>10 DEF Rotate, Promote, Restore, At, WriteOrder
  <2>2. card'["main"].kind # "newer" /\ card'["bak"].kind # "newer"
    BY <1>4, <1>5, <1>6, <1>10, <2>1 DEF Rotate, Rotated, Promote, Restore, Restored
  <2>. QED  BY <1>7b, <2>2
<1>. QED  BY <1>3, <1>8, <1>9, <1>10 DEF Write, DropMain, At

LEMMA NewerStep == StoreInv /\ NewerInv /\ [Next]_vars => NewerInv'
<1>. SUFFICES ASSUME StoreInv, NewerInv, [Next]_vars PROVE NewerInv'
  OBVIOUS
<1>1. TypeOK /\ TypeOK'
  BY StepTypes DEF StoreInv
<1>2. CASE UNCHANGED vars
  <2>1. UNCHANGED <<card, legacy, task, mem, blocked, harm>>
    BY <1>2 DEF vars
  <2>2. Loaded' = Loaded
    BY <2>1, SameCardLoads
  <2>. QED  BY <2>1, <2>2 DEF NewerInv, Unharmed
<1>3. CASE Next
  <2>1. Unharmed' => Unharmed
    BY <1>1, <1>3, HarmStays
  <2>. QED  BY <1>1, <1>3, <2>1, NewerRests, NewerWrites DEF Next
<1>. QED  BY <1>2, <1>3

(* As long as at most one write has been disturbed, the totals of a newer  *)
(* build are what load finds until the user resets them: no save, import   *)
(* or power loss of this build replaces them (s_blockDestructiveSave).     *)
THEOREM NewerTotalsSurvive == Spec => NewerSurvives
<1>1. ASSUME StoreInv, NewerInv, [Next]_vars, Unharmed', Loaded.kind = "newer",
             task.op # "reset"
      PROVE  Loaded'.kind = "newer"
  <2>1. TypeOK
    BY <1>1 DEF StoreInv
  <2>2. CASE \/ UNCHANGED vars \/ Boot \/ FinishImport \/ Load \/ Misread
             \/ CountSession \/ BeginSave \/ BeginReset \/ PowerLoss
    <3>1. UNCHANGED <<card, legacy>>
      BY <2>2 DEF vars, Boot, FinishImport, Load, Misread, CountSession, BeginSave,
                  BeginReset, PowerLoss
    <3>. QED  BY <1>1, <3>1, SameCardLoads
  <2>3. CASE \E n \in Imported : ImportFile(n)
    BY <1>1, <2>1, <2>3, ImportLoads
  <2>4. CASE Write
    <3>1. Writing
      BY <2>4 DEF Write, ClearTmp, CreateTmp, WriteTmp, DropBackup, Rotate, DropMain,
                  Promote, Restore, CleanUp, At
    <3>2. task.op = "save" /\ mem # None /\ ~blocked
      <4>1. task.op = "save" /\ task.value = mem
        BY <1>1, <3>1 DEF Writing, StoreInv, WriteOrder
      <4>2. task.value \in Stamps
        BY <2>1 DEF TypeOK, Task
      <4>. QED  BY <1>1, <4>1, <4>2, StoreConstants DEF NewerInv
    <3>3. Unharmed
      BY <1>1, <2>1, <2>4, HarmStays DEF Next
    <3>. QED  BY <1>1, <3>2, <3>3 DEF NewerInv
  <2>5. CASE NewerBuild
    <3>1. card \in [Names -> Content] /\ "main" \in Names /\ "bak" \in Names
      BY <2>1 DEF TypeOK, Names, Imported
    <3>2. CASE card' = [card EXCEPT !["main"] = Newer(NextStamp), !["bak"] = card["main"],
                                    !["tmp"] = Missing]
      <4>1. card["main"]' = Newer(NextStamp)
        BY <3>1, <3>2
      <4>. QED  BY <4>1, ContentFacts DEF Loaded, Resolve
    <3>3. CASE card' = [card EXCEPT !["main"] = Missing, !["bak"] = Newer(NextStamp),
                                    !["tmp"] = Torn] /\ Disturbed
      <4>1. card["main"]' = Missing /\ card["bak"]' = Newer(NextStamp)
        BY <3>1, <3>3
      <4>2. legacy' = EmptyLegacy
        BY <1>1, <3>3 DEF Unharmed, Disturbed
      <4>3. LegacyCopy("main")' = Missing
        BY <4>2 DEF LegacyCopy, EmptyLegacy, Roots, Imported
      <4>. QED  BY <4>1, <4>3, ContentFacts DEF Loaded, Resolve
    <3>. QED  BY <2>5, <3>2, <3>3 DEF NewerBuild
  <2>. QED  BY <1>1, <2>2, <2>3, <2>4, <2>5 DEF Next
<1>2. Init => NewerInv
  BY DEF Init, NewerInv, Rest
<1>3. StoreInv /\ NewerInv /\ [Next]_vars =>
        [Unharmed' /\ Loaded.kind = "newer" /\ task.op # "reset"
           => Loaded'.kind = "newer"]_vars
  BY <1>1
<1>. QED  BY <1>2, <1>3, InitStoreInv, StoreStep, NewerStep, PTL DEF Spec, NewerSurvives
=============================================================================
