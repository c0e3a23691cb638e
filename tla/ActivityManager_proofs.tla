-------------------------- MODULE ActivityManager_proofs --------------------------
(***************************************************************************)
(* The safety invariants of ActivityManager, for any number of screens and *)
(* any depth of the stack.                                                 *)
(***************************************************************************)
EXTENDS ActivityManager, SequenceTheorems, TLAPS

(* Whom the lock belongs to, and where the main task is when there is no   *)
(* screen.                                                                 *)
LockDiscipline ==
  /\ rpc \in {"drawing", "drawn"} <=> renderingMutex = "render"
  /\ renderingMutex = "main" => pc = "code"
  /\ painting # None => rpc = "drawing"
  /\ currentActivity = None <=> pc \in {"boot", "homing"}
  /\ currentActivity = None => stackActivities = <<>>

(* A screen with a result handler is the launcher of the screen above it,  *)
(* of the pending one, or about to be left.                                *)
Above(i) == IF i = Len(stackActivities) THEN currentActivity
            ELSE stackActivities[i + 1]
LaunchersBelow ==
  /\ pendingActivity # None => pendingActivity.awaits = None
  /\ currentActivity # None /\ currentActivity.awaits # None =>
       \/ /\ pendingAction = "Push"
          /\ pendingActivity.id = currentActivity.awaits
       \/ pendingAction \in {"Pop", "Replace"}
  /\ pc = "top" => currentActivity.awaits = None
  /\ back = "top" /\ pc \in {"code", "waiting", "timedOut"} =>
       currentActivity.awaits = None
  /\ \A i \in 1..Len(stackActivities) :
       stackActivities[i].awaits # None => stackActivities[i].awaits = Above(i).id

(* Who is answered, and what is then on the panel.                         *)
AnswersMeanShown ==
  /\ confirmed => pc = "code"
  /\ waiter => rpc = "drawn"
  /\ ~amiss =>
       /\ confirmed => frame = "shown"
       /\ answered \/ waiter => pc = "waiting" /\ frame = "shown"
       /\ ~(answered /\ waiter)
       /\ waitingTaskHandle => pc = "waiting" /\ ~answered /\ ~waiter
       /\ rpc = "drawing" => frame # "old" /\ painting # None

(* Types, first: every action keeps them.                                  *)
LEMMA TypeInit == Init => TypeOK
<1>1. Init => Flags
  BY DEF Init, Flags
<1>2. Init => Shapes
  BY DEF Init, Shapes, Actions, MainPlaces
<1>. QED  BY <1>1, <1>2 DEF TypeOK

LEMMA FlagsNext ==
  ASSUME Flags, [Next]_vars
  PROVE  Flags'
<1>. USE DEF Flags, mainVars, nav, renderVars, signals
<1>1. CASE BootSplash
  BY <1>1 DEF BootSplash, ReplaceActivity
<1>2. CASE BootSilent
  BY <1>2 DEF BootSilent, RunCode
<1>3. CASE StartLoop
  BY <1>3 DEF StartLoop, RunCode
<1>4. CASE Rendered
  BY <1>4 DEF Rendered
<1>5. CASE Deregister
  BY <1>5 DEF Deregister
<1>6. CASE Pop
  BY <1>6 DEF Pop, Top, Below, Uncovered, RunCode
<1>7. CASE Popped
  BY <1>7 DEF Popped
<1>8. CASE GoHome
  BY <1>8 DEF GoHome, RunCode
<1>9. CASE Launch
  BY <1>9 DEF Launch, LaunchGuard, RunCode
<1>10. CASE EndLoop
  BY <1>10 DEF EndLoop, PassDeferredUpdate, PushActivity
<1>11. CASE LockAndChange
  BY <1>11 DEF LockAndChange
<1>12. CASE Unlock
  BY <1>12 DEF Unlock
<1>13. CASE AnyRequest
  BY <1>13 DEF AnyRequest, RequestUpdate
<1>14. CASE RequestUpdateAndWait
  BY <1>14 DEF RequestUpdateAndWait, MayWait
<1>15. CASE RejectedUpdate
  BY <1>15 DEF RejectedUpdate, MayWait
<1>16. CASE StartActivityForResult
  BY <1>16 DEF StartActivityForResult, PushActivity
<1>17. CASE Finish
  BY <1>17 DEF Finish, PopActivity
<1>18. CASE GoTo
  BY <1>18 DEF GoTo, ReplaceActivity
<1>19. CASE Return
  BY <1>19 DEF Return
<1>20. CASE GlobalPush
  BY <1>20 DEF GlobalPush, PushActivity
<1>21. CASE GlobalReplace
  BY <1>21 DEF GlobalReplace, ReplaceActivity
<1>22. CASE UsbUpdate
  BY <1>22 DEF UsbUpdate
<1>23. CASE GoToSleep
  BY <1>23 DEF GoToSleep, ReplaceActivity, RunCode
<1>24. CASE Wake
  BY <1>24 DEF Wake
<1>25. CASE RaiseAlert
  BY <1>25 DEF RaiseAlert
<1>26. CASE TimesOut
  BY <1>26 DEF TimesOut
<1>27. CASE TakeNotification
  BY <1>27 DEF TakeNotification
<1>28. CASE BeginRender
  BY <1>28 DEF BeginRender
<1>29. CASE FinishRender
  BY <1>29 DEF FinishRender
<1>30. CASE AnswerWaiter
  BY <1>30 DEF AnswerWaiter, Answer
<1>31. CASE UNCHANGED vars
  BY <1>31 DEF vars
<1>. QED
  BY <1>1, <1>2, <1>3, <1>4, <1>5, <1>6, <1>7, <1>8, <1>9, <1>10, <1>11,
     <1>12, <1>13, <1>14, <1>15, <1>16, <1>17, <1>18, <1>19, <1>20, <1>21,
     <1>22, <1>23, <1>24, <1>25, <1>26, <1>27, <1>28, <1>29, <1>30, <1>31
  DEF Next, MainLoop, Calls, Surroundings, RenderTask

LEMMA FreshScreen ==
  ASSUME NEW kind \in {"splash", "screen", "alert"}, Room
  PROVE  /\ Screen(kind) \in Activity /\ Fresh \in Ids
         /\ Screen(kind).awaits = None /\ Screen(kind).id = Fresh
<1>1. PICK n \in Ids : n \notin Used
  BY DEF Room
<1>2. Fresh \in Ids
  BY <1>1 DEF Fresh
<1>. QED
  BY <1>2 DEF Screen, Activity

LEMMA FirstScreen ==
  ASSUME NEW kind \in {"splash", "screen", "alert"}
  PROVE  First(kind) \in Activity /\ First(kind).awaits = None
BY ManagerConstants DEF First, Activity, Ids

(* currentActivity is a screen, not None, wherever its code can run.       *)
LEMMA ShapesNext ==
  ASSUME Shapes, LockDiscipline, [Next]_vars
  PROVE  Shapes'
<1>. USE DEF Shapes, Actions, MainPlaces, mainVars, nav, renderVars, signals
<1>1. CASE BootSplash
  <2>1. [id |-> 2, kind |-> "screen", awaits |-> None] \in Activity
    BY ManagerConstants DEF Activity, Ids
  <2>. QED  BY <1>1, <2>1, FirstScreen DEF BootSplash, ReplaceActivity
<1>2. CASE BootSilent
  BY <1>2, FirstScreen DEF BootSilent, RunCode
<1>3. CASE StartLoop
  BY <1>3 DEF StartLoop, RunCode
<1>4. CASE Rendered
  BY <1>4 DEF Rendered
<1>5. CASE Deregister
  BY <1>5 DEF Deregister
<1>6. CASE Pop
  <2>. DEFINE n == Len(stackActivities)
              top == stackActivities[n]
  <2>1. CASE stackActivities = <<>>
    BY <1>6, <2>1 DEF Pop, Top, Below, Uncovered
  <2>2. CASE stackActivities # <<>>
    <3>1. n \in 1..n /\ top \in Activity
      BY <2>2
    <3>2. SubSeq(stackActivities, 1, n - 1) \in Seq(Activity)
      BY <3>1
    <3>3. [top EXCEPT !.awaits = None] \in Activity
      BY <3>1 DEF Activity
    <3>4. currentActivity \in Activity
      BY <1>6 DEF Pop, Top, Below, Uncovered, LockDiscipline
    <3>5. top.awaits # None =>
            [from |-> currentActivity.id, for |-> top.awaits] \in [from : Ids, for : Ids]
      BY <3>1, <3>4 DEF Activity
    <3>. QED
      BY <1>6, <2>2, <3>2, <3>3, <3>5 DEF Pop, Top, Below, Uncovered, RunCode
  <2>. QED  BY <2>1, <2>2
<1>7. CASE Popped
  BY <1>7 DEF Popped
<1>8. CASE GoHome
  BY <1>8, FirstScreen DEF GoHome, RunCode
<1>9. CASE Launch
  <2>1. currentActivity \in Activity /\ pendingActivity \in Activity
    BY <1>9 DEF Launch, LaunchGuard, LockDiscipline
  <2>2. Append(stackActivities, currentActivity) \in Seq(Activity)
    BY <2>1
  <2>. QED
    BY <1>9, <2>1, <2>2 DEF Launch, LaunchGuard, RunCode
<1>10. CASE EndLoop
  BY <1>10, FreshScreen DEF EndLoop, PassDeferredUpdate, PushActivity
<1>11. CASE LockAndChange
  BY <1>11 DEF LockAndChange
<1>12. CASE Unlock
  BY <1>12 DEF Unlock
<1>13. CASE AnyRequest
  BY <1>13 DEF AnyRequest, RequestUpdate
<1>14. CASE RequestUpdateAndWait
  BY <1>14 DEF RequestUpdateAndWait, MayWait
<1>15. CASE RejectedUpdate
  BY <1>15 DEF RejectedUpdate, MayWait
<1>16. CASE StartActivityForResult
  <2>1. currentActivity \in Activity
    BY <1>16 DEF StartActivityForResult, LockDiscipline
  <2>2. Fresh \in Ids /\ Screen("screen") \in Activity
    BY <1>16, FreshScreen DEF StartActivityForResult
  <2>3. [currentActivity EXCEPT !.awaits = Fresh] \in Activity
    BY <2>1, <2>2 DEF Activity
  <2>. QED
    BY <1>16, <2>2, <2>3 DEF StartActivityForResult, PushActivity
<1>17. CASE Finish
  BY <1>17 DEF Finish, PopActivity
<1>18. CASE GoTo
  BY <1>18, FreshScreen DEF GoTo, ReplaceActivity
<1>19. CASE Return
  BY <1>19 DEF Return
<1>20. CASE GlobalPush
  BY <1>20, FreshScreen DEF GlobalPush, PushActivity
<1>21. CASE GlobalReplace
  BY <1>21, FreshScreen DEF GlobalReplace, ReplaceActivity
<1>22. CASE UsbUpdate
  BY <1>22 DEF UsbUpdate
<1>23. CASE GoToSleep
  BY <1>23, FreshScreen DEF GoToSleep, ReplaceActivity, RunCode
<1>24. CASE Wake
  BY <1>24 DEF Wake
<1>25. CASE RaiseAlert
  BY <1>25 DEF RaiseAlert
<1>26. CASE TimesOut
  BY <1>26 DEF TimesOut
<1>27. CASE TakeNotification
  BY <1>27 DEF TakeNotification
<1>28. CASE BeginRender
  BY <1>28 DEF BeginRender, Activity
<1>29. CASE FinishRender
  BY <1>29 DEF FinishRender
<1>30. CASE AnswerWaiter
  BY <1>30 DEF AnswerWaiter, Answer
<1>31. CASE UNCHANGED vars
  BY <1>31 DEF vars
<1>. QED
  BY <1>1, <1>2, <1>3, <1>4, <1>5, <1>6, <1>7, <1>8, <1>9, <1>10, <1>11, <1>12,
     <1>13, <1>14, <1>15, <1>16, <1>17, <1>18, <1>19, <1>20, <1>21, <1>22, <1>23,
     <1>24, <1>25, <1>26, <1>27, <1>28, <1>29, <1>30, <1>31
  DEF Next, MainLoop, Calls, Surroundings, RenderTask
(* The lock.                                                               *)
LEMMA LockInit == Init => LockDiscipline
BY ManagerConstants DEF Init, LockDiscipline

LEMMA LockNext ==
  ASSUME TypeOK, LockDiscipline, PendingMatchesAction, [Next]_vars
  PROVE  LockDiscipline'
<1>. USE DEF LockDiscipline, TypeOK, Shapes, mainVars, nav, renderVars, signals
<1>1. CASE BootSplash
  BY <1>1, FirstScreen, ManagerConstants DEF BootSplash, ReplaceActivity
<1>2. CASE BootSilent
  BY <1>2, FirstScreen, ManagerConstants DEF BootSilent, RunCode
<1>3. CASE StartLoop
  BY <1>3 DEF StartLoop, RunCode
<1>4. CASE Rendered
  BY <1>4 DEF Rendered
<1>5. CASE Deregister
  BY <1>5 DEF Deregister
<1>6. CASE Pop
  <2>. DEFINE n == Len(stackActivities)
              top == stackActivities[n]
  <2>1. CASE stackActivities = <<>>
    BY <1>6, <2>1, ManagerConstants DEF Pop, Top, Below, Uncovered
  <2>2. CASE stackActivities # <<>>
    <3>1. top \in Activity
      BY <2>2
    <3>2. [top EXCEPT !.awaits = None] \in Activity
      BY <3>1 DEF Activity
    <3>3. currentActivity' # None /\ pc' \in {"code", "actions"}
      BY <1>6, <2>2, <3>2, ManagerConstants DEF Pop, Top, Below, Uncovered, RunCode
    <3>. QED
      BY <1>6, <2>2, <3>3, ManagerConstants DEF Pop, Top, Below, Uncovered
  <2>. QED  BY <2>1, <2>2
<1>7. CASE Popped
  BY <1>7 DEF Popped
<1>8. CASE GoHome
  BY <1>8, FirstScreen, ManagerConstants DEF GoHome, RunCode
<1>9. CASE Launch
  <2>1. currentActivity' # None /\ pc' = "code" /\ renderingMutex = None
    BY <1>9 DEF Launch, LaunchGuard, RunCode
  <2>. QED  BY <1>9, <2>1, ManagerConstants DEF Launch, LaunchGuard
<1>10. CASE EndLoop
  BY <1>10 DEF EndLoop, PassDeferredUpdate, PushActivity
<1>11. CASE LockAndChange
  BY <1>11, ManagerConstants DEF LockAndChange
<1>12. CASE Unlock
  BY <1>12, ManagerConstants DEF Unlock
<1>13. CASE AnyRequest
  BY <1>13 DEF AnyRequest, RequestUpdate
<1>14. CASE RequestUpdateAndWait
  BY <1>14 DEF RequestUpdateAndWait, MayWait
<1>15. CASE RejectedUpdate
  BY <1>15 DEF RejectedUpdate, MayWait
<1>16. CASE StartActivityForResult
  <2>1. currentActivity \in Activity /\ Fresh \in Ids
    BY <1>16, FreshScreen DEF StartActivityForResult
  <2>2. currentActivity' \in Activity
    BY <1>16, <2>1 DEF StartActivityForResult, Activity
  <2>3. currentActivity' # None
    BY <2>2, ManagerConstants
  <2>. QED  BY <1>16, <2>1, <2>3, ManagerConstants DEF StartActivityForResult
<1>17. CASE Finish
  BY <1>17 DEF Finish, PopActivity
<1>18. CASE GoTo
  BY <1>18 DEF GoTo, ReplaceActivity
<1>19. CASE Return
  BY <1>19 DEF Return
<1>20. CASE GlobalPush
  BY <1>20 DEF GlobalPush, PushActivity
<1>21. CASE GlobalReplace
  BY <1>21 DEF GlobalReplace, ReplaceActivity
<1>22. CASE UsbUpdate
  BY <1>22 DEF UsbUpdate
<1>23. CASE GoToSleep
  BY <1>23 DEF GoToSleep, ReplaceActivity, RunCode
<1>24. CASE Wake
  BY <1>24, ManagerConstants DEF Wake
<1>25. CASE RaiseAlert
  BY <1>25 DEF RaiseAlert
<1>26. CASE TimesOut
  BY <1>26 DEF TimesOut
<1>27. CASE TakeNotification
  BY <1>27 DEF TakeNotification
<1>28. CASE BeginRender
  BY <1>28 DEF BeginRender
<1>29. CASE FinishRender
  BY <1>29 DEF FinishRender
<1>30. CASE AnswerWaiter
  BY <1>30, ManagerConstants DEF AnswerWaiter, Answer
<1>31. CASE UNCHANGED vars
  BY <1>31 DEF vars
<1>. QED
  BY <1>1, <1>2, <1>3, <1>4, <1>5, <1>6, <1>7, <1>8, <1>9, <1>10, <1>11,
     <1>12, <1>13, <1>14, <1>15, <1>16, <1>17, <1>18, <1>19, <1>20, <1>21,
     <1>22, <1>23, <1>24, <1>25, <1>26, <1>27, <1>28, <1>29, <1>30, <1>31
  DEF Next, MainLoop, Calls, Surroundings, RenderTask

(* What is drawn is the current screen.                                    *)
LEMMA DrawnNext ==
  ASSUME TypeOK, LockDiscipline, OnlyCurrentIsDrawn, [Next]_vars
  PROVE  OnlyCurrentIsDrawn'
<1>. USE DEF OnlyCurrentIsDrawn, LockDiscipline, mainVars, nav, renderVars, signals
<1>1. CASE BootSplash
  BY <1>1 DEF BootSplash, ReplaceActivity
<1>2. CASE BootSilent
  BY <1>2 DEF BootSilent, RunCode
<1>3. CASE StartLoop
  BY <1>3 DEF StartLoop, RunCode
<1>4. CASE Rendered
  BY <1>4 DEF Rendered
<1>5. CASE Deregister
  BY <1>5 DEF Deregister
<1>6. CASE Pop
  BY <1>6, ManagerConstants DEF Pop, Top, Below, Uncovered, RunCode
<1>7. CASE Popped
  BY <1>7 DEF Popped
<1>8. CASE GoHome
  BY <1>8 DEF GoHome, RunCode
<1>9. CASE Launch
  BY <1>9, ManagerConstants DEF Launch, LaunchGuard, RunCode
<1>10. CASE EndLoop
  BY <1>10 DEF EndLoop, PassDeferredUpdate, PushActivity
<1>11. CASE LockAndChange
  BY <1>11 DEF LockAndChange
<1>12. CASE Unlock
  BY <1>12 DEF Unlock
<1>13. CASE AnyRequest
  BY <1>13 DEF AnyRequest, RequestUpdate
<1>14. CASE RequestUpdateAndWait
  BY <1>14 DEF RequestUpdateAndWait, MayWait
<1>15. CASE RejectedUpdate
  BY <1>15 DEF RejectedUpdate, MayWait
<1>16. CASE StartActivityForResult
  <2>1. currentActivity \in Activity /\ Fresh \in Ids
    BY <1>16, FreshScreen DEF StartActivityForResult, TypeOK, Shapes
  <2>2. currentActivity' \in Activity /\ currentActivity'.id = currentActivity.id
    BY <1>16, <2>1 DEF StartActivityForResult, Activity
  <2>. QED  BY <1>16, <2>2, ManagerConstants DEF StartActivityForResult
<1>17. CASE Finish
  BY <1>17 DEF Finish, PopActivity
<1>18. CASE GoTo
  BY <1>18 DEF GoTo, ReplaceActivity
<1>19. CASE Return
  BY <1>19 DEF Return
<1>20. CASE GlobalPush
  BY <1>20 DEF GlobalPush, PushActivity
<1>21. CASE GlobalReplace
  BY <1>21 DEF GlobalReplace, ReplaceActivity
<1>22. CASE UsbUpdate
  BY <1>22 DEF UsbUpdate
<1>23. CASE GoToSleep
  BY <1>23 DEF GoToSleep, ReplaceActivity, RunCode
<1>24. CASE Wake
  BY <1>24 DEF Wake
<1>25. CASE RaiseAlert
  BY <1>25 DEF RaiseAlert
<1>26. CASE TimesOut
  BY <1>26 DEF TimesOut
<1>27. CASE TakeNotification
  BY <1>27 DEF TakeNotification
<1>28. CASE BeginRender
  BY <1>28 DEF BeginRender
<1>29. CASE FinishRender
  BY <1>29 DEF FinishRender
<1>30. CASE AnswerWaiter
  BY <1>30 DEF AnswerWaiter, Answer
<1>31. CASE UNCHANGED vars
  BY <1>31 DEF vars
<1>. QED
  BY <1>1, <1>2, <1>3, <1>4, <1>5, <1>6, <1>7, <1>8, <1>9, <1>10, <1>11,
     <1>12, <1>13, <1>14, <1>15, <1>16, <1>17, <1>18, <1>19, <1>20, <1>21,
     <1>22, <1>23, <1>24, <1>25, <1>26, <1>27, <1>28, <1>29, <1>30, <1>31
  DEF Next, MainLoop, Calls, Surroundings, RenderTask

(* A pending screen and the action for it.                                 *)
LEMMA PendingNext ==
  ASSUME TypeOK, LockDiscipline, PendingMatchesAction, [Next]_vars
  PROVE  PendingMatchesAction'
<1>. USE DEF PendingMatchesAction, LockDiscipline, mainVars, nav, renderVars, signals
<1>1. CASE BootSplash
  <2>1. [id |-> 2, kind |-> "screen", awaits |-> None] \in Activity
    BY ManagerConstants DEF Activity, Ids
  <2>. QED  BY <1>1, <2>1, ManagerConstants DEF BootSplash, ReplaceActivity
<1>2. CASE BootSilent
  BY <1>2 DEF BootSilent, RunCode
<1>3. CASE StartLoop
  BY <1>3 DEF StartLoop, RunCode
<1>4. CASE Rendered
  BY <1>4 DEF Rendered
<1>5. CASE Deregister
  BY <1>5 DEF Deregister
<1>6. CASE Pop
  BY <1>6 DEF Pop, Top, Below, Uncovered, RunCode
<1>7. CASE Popped
  BY <1>7 DEF Popped
<1>8. CASE GoHome
  BY <1>8 DEF GoHome, RunCode
<1>9. CASE Launch
  BY <1>9 DEF Launch, LaunchGuard, RunCode
<1>10. CASE EndLoop
  <2>1. hasPendingAlert => Screen("alert") # None
    BY <1>10, FreshScreen, ManagerConstants DEF EndLoop, PassDeferredUpdate
  <2>. QED  BY <1>10, <2>1 DEF EndLoop, PassDeferredUpdate, PushActivity
<1>11. CASE LockAndChange
  BY <1>11 DEF LockAndChange
<1>12. CASE Unlock
  BY <1>12 DEF Unlock
<1>13. CASE AnyRequest
  BY <1>13 DEF AnyRequest, RequestUpdate
<1>14. CASE RequestUpdateAndWait
  BY <1>14 DEF RequestUpdateAndWait, MayWait
<1>15. CASE RejectedUpdate
  BY <1>15 DEF RejectedUpdate, MayWait
<1>16. CASE StartActivityForResult
  <2>1. Screen("screen") # None
    BY <1>16, FreshScreen, ManagerConstants DEF StartActivityForResult
  <2>. QED  BY <1>16, <2>1 DEF StartActivityForResult, PushActivity
<1>17. CASE Finish
  BY <1>17 DEF Finish, PopActivity
<1>18. CASE GoTo
  <2>1. Screen("screen") # None
    BY <1>18, FreshScreen, ManagerConstants DEF GoTo
  <2>. QED  BY <1>18, <2>1 DEF GoTo, ReplaceActivity
<1>19. CASE Return
  BY <1>19 DEF Return
<1>20. CASE GlobalPush
  <2>1. Screen("screen") # None
    BY <1>20, FreshScreen, ManagerConstants DEF GlobalPush
  <2>. QED  BY <1>20, <2>1 DEF GlobalPush, PushActivity
<1>21. CASE GlobalReplace
  <2>1. Screen("screen") # None
    BY <1>21, FreshScreen, ManagerConstants DEF GlobalReplace
  <2>. QED  BY <1>21, <2>1 DEF GlobalReplace, ReplaceActivity
<1>22. CASE UsbUpdate
  BY <1>22 DEF UsbUpdate
<1>23. CASE GoToSleep
  <2>1. Screen("screen") # None
    BY <1>23, FreshScreen, ManagerConstants DEF GoToSleep
  <2>. QED  BY <1>23, <2>1 DEF GoToSleep, ReplaceActivity, RunCode
<1>24. CASE Wake
  BY <1>24 DEF Wake
<1>25. CASE RaiseAlert
  BY <1>25 DEF RaiseAlert
<1>26. CASE TimesOut
  BY <1>26 DEF TimesOut
<1>27. CASE TakeNotification
  BY <1>27 DEF TakeNotification
<1>28. CASE BeginRender
  BY <1>28 DEF BeginRender
<1>29. CASE FinishRender
  BY <1>29 DEF FinishRender
<1>30. CASE AnswerWaiter
  BY <1>30 DEF AnswerWaiter, Answer
<1>31. CASE UNCHANGED vars
  BY <1>31 DEF vars
<1>. QED
  BY <1>1, <1>2, <1>3, <1>4, <1>5, <1>6, <1>7, <1>8, <1>9, <1>10, <1>11,
     <1>12, <1>13, <1>14, <1>15, <1>16, <1>17, <1>18, <1>19, <1>20, <1>21,
     <1>22, <1>23, <1>24, <1>25, <1>26, <1>27, <1>28, <1>29, <1>30, <1>31
  DEF Next, MainLoop, Calls, Surroundings, RenderTask

LEMMA DropLast ==
  ASSUME NEW S, NEW s \in Seq(S), s # <<>>
  PROVE  LET t == SubSeq(s, 1, Len(s) - 1) IN
         /\ Len(t) = Len(s) - 1
         /\ \A i \in 1..(Len(s) - 1) : t[i] = s[i]
<1>1. Len(s) \in Nat /\ Len(s) # 0
  BY EmptySeq
<1>2. Len(s) - 1 \in Nat
  BY <1>1
<1>3. \A i \in 1..(Len(s) - 1) : s[i] \in S
  BY <1>1, ElementOfSeq
<1>4. ASSUME NEW k \in Nat, \A i \in 1..k : s[i] \in S
      PROVE  /\ Len(SubSeq(s, 1, k)) = k
             /\ \A i \in 1..k : SubSeq(s, 1, k)[i] = s[i]
  <2>1. /\ Len(SubSeq(s, 1, k)) = IF 1 <= k THEN k - 1 + 1 ELSE 0
        /\ \A i \in 1..(k - 1 + 1) : SubSeq(s, 1, k)[i] = s[1 + i - 1]
    BY <1>4, SubSeqProperties
  <2>. QED  BY <2>1
<1>. QED  BY <1>2, <1>3, <1>4

(* Who waits for whose result.                                             *)
LEMMA LaunchersNext ==
  ASSUME TypeOK, LockDiscipline, PendingMatchesAction, LaunchersBelow, [Next]_vars
  PROVE  LaunchersBelow'
<1>. USE DEF LaunchersBelow, Above, LockDiscipline, PendingMatchesAction, TypeOK, Shapes,
             mainVars, nav, renderVars, signals
<1>1. CASE BootSplash
  BY <1>1, FirstScreen, ManagerConstants DEF BootSplash, ReplaceActivity
<1>2. CASE BootSilent
  BY <1>2, FirstScreen, ManagerConstants DEF BootSilent, RunCode
<1>3. CASE StartLoop
  BY <1>3 DEF StartLoop, RunCode
<1>4. CASE Rendered
  BY <1>4 DEF Rendered
<1>5. CASE Deregister
  BY <1>5 DEF Deregister
<1>6. CASE Pop
  <2>. DEFINE n == Len(stackActivities)
              top == stackActivities[n]
  <2>1. CASE stackActivities = <<>>
    BY <1>6, <2>1, ManagerConstants DEF Pop, Top, Below, Uncovered
  <2>2. CASE stackActivities # <<>>
    <3>1. n \in Nat /\ n > 0 /\ top \in Activity
      BY <2>2
    <3>2. /\ currentActivity' = [top EXCEPT !.awaits = None]
          /\ stackActivities' = SubSeq(stackActivities, 1, n - 1)
          /\ pendingAction' = "None" /\ pendingActivity' = None
          /\ pc' = "actions" \/ (pc' = "code" /\ back' = "popped")
      <4>1. pendingActivity = None
        BY <1>6 DEF Pop, Top, Below, Uncovered
      <4>. QED  BY <1>6, <2>2, <4>1 DEF Pop, Top, Below, Uncovered, RunCode
    <3>3. currentActivity'.id = top.id /\ currentActivity'.awaits = None
      BY <3>1, <3>2 DEF Activity
    <3>4. /\ Len(stackActivities') = n - 1
          /\ \A i \in 1..(n - 1) : stackActivities'[i] = stackActivities[i]
      BY <2>2, <3>2, DropLast
    <3>5. \A i \in 1..(n - 1) : Above(i)'.id = Above(i).id
      BY <3>1, <3>3, <3>4
    <3>6. ASSUME NEW i \in 1..(n - 1), stackActivities'[i].awaits # None
          PROVE  stackActivities'[i].awaits = Above(i)'.id
      <4>1. stackActivities[i].awaits # None => stackActivities[i].awaits = Above(i).id
        BY <3>1
      <4>. QED  BY <3>4, <3>5, <3>6, <4>1
    <3>7. \A i \in 1..Len(stackActivities') :
            stackActivities'[i].awaits # None => stackActivities'[i].awaits = Above(i)'.id
      BY <3>4, <3>6
    <3>. QED
      BY <3>2, <3>3, <3>7
  <2>. QED  BY <2>1, <2>2
<1>7. CASE Popped
  BY <1>7 DEF Popped
<1>8. CASE GoHome
  BY <1>8, FirstScreen, ManagerConstants DEF GoHome, RunCode
<1>9. CASE Launch
  BY <1>9 DEF Launch, LaunchGuard, RunCode
<1>10. CASE EndLoop
  BY <1>10, FreshScreen, ManagerConstants DEF EndLoop, PassDeferredUpdate, PushActivity
<1>11. CASE LockAndChange
  BY <1>11 DEF LockAndChange
<1>12. CASE Unlock
  BY <1>12 DEF Unlock
<1>13. CASE AnyRequest
  BY <1>13 DEF AnyRequest, RequestUpdate
<1>14. CASE RequestUpdateAndWait
  BY <1>14 DEF RequestUpdateAndWait, MayWait
<1>15. CASE RejectedUpdate
  BY <1>15 DEF RejectedUpdate, MayWait
<1>16. CASE StartActivityForResult
  <2>1. currentActivity \in Activity /\ Fresh \in Ids
    BY <1>16, FreshScreen DEF StartActivityForResult
  <2>2. /\ currentActivity'.id = currentActivity.id
        /\ currentActivity'.awaits = Fresh
    BY <1>16, <2>1 DEF StartActivityForResult, Activity
  <2>3. /\ pendingActivity' = Screen("screen") /\ pendingAction' = "Push"
        /\ pendingActivity'.id = Fresh /\ pendingActivity'.awaits = None
    BY <1>16, FreshScreen DEF StartActivityForResult, PushActivity
  <2>4. \A i \in 1..Len(stackActivities) : Above(i)'.id = Above(i).id
    BY <1>16, <2>2 DEF StartActivityForResult
  <2>5. pc' = "code" /\ back' # "top" /\ UNCHANGED stackActivities
    BY <1>16 DEF StartActivityForResult
  <2>6. \A i \in 1..Len(stackActivities)' :
          stackActivities'[i].awaits # None => stackActivities'[i].awaits = Above(i)'.id
    BY <2>4, <2>5
  <2>. QED  BY <2>2, <2>3, <2>5, <2>6
<1>17. CASE Finish
  BY <1>17 DEF Finish, PopActivity
<1>18. CASE GoTo
  BY <1>18, FreshScreen, ManagerConstants DEF GoTo, ReplaceActivity
<1>19. CASE Return
  BY <1>19 DEF Return
<1>20. CASE GlobalPush
  <2>1. /\ pendingActivity' = Screen("screen") /\ pendingActivity'.awaits = None
        /\ UNCHANGED <<currentActivity, stackActivities, pc, back>>
    BY <1>20, FreshScreen DEF GlobalPush, PushActivity
  <2>2. currentActivity.awaits = None
    BY <1>20 DEF GlobalPush
  <2>. QED  BY <2>1, <2>2
<1>21. CASE GlobalReplace
  BY <1>21, FreshScreen, ManagerConstants DEF GlobalReplace, ReplaceActivity
<1>22. CASE UsbUpdate
  BY <1>22 DEF UsbUpdate
<1>23. CASE GoToSleep
  BY <1>23, FreshScreen, ManagerConstants DEF GoToSleep, ReplaceActivity, RunCode
<1>24. CASE Wake
  BY <1>24 DEF Wake
<1>25. CASE RaiseAlert
  BY <1>25 DEF RaiseAlert
<1>26. CASE TimesOut
  BY <1>26 DEF TimesOut
<1>27. CASE TakeNotification
  BY <1>27 DEF TakeNotification
<1>28. CASE BeginRender
  BY <1>28 DEF BeginRender
<1>29. CASE FinishRender
  BY <1>29 DEF FinishRender
<1>30. CASE AnswerWaiter
  BY <1>30 DEF AnswerWaiter, Answer
<1>31. CASE UNCHANGED vars
  BY <1>31 DEF vars
<1>. QED
  BY <1>1, <1>2, <1>3, <1>4, <1>5, <1>6, <1>7, <1>8, <1>9, <1>10, <1>11,
     <1>12, <1>13, <1>14, <1>15, <1>16, <1>17, <1>18, <1>19, <1>20, <1>21,
     <1>22, <1>23, <1>24, <1>25, <1>26, <1>27, <1>28, <1>29, <1>30, <1>31
  DEF Next, MainLoop, Calls, Surroundings, RenderTask

LEMMA ResultsNext ==
  ASSUME TypeOK, LockDiscipline, LaunchersBelow, ResultsReachTheirLauncher, [Next]_vars
  PROVE  ResultsReachTheirLauncher'
<1>. USE DEF ResultsReachTheirLauncher, LaunchersBelow, Above, LockDiscipline, TypeOK, Shapes,
             mainVars, nav, renderVars, signals
<1>1. CASE BootSplash
  BY <1>1 DEF BootSplash, ReplaceActivity
<1>2. CASE BootSilent
  BY <1>2 DEF BootSilent, RunCode
<1>3. CASE StartLoop
  BY <1>3 DEF StartLoop, RunCode
<1>4. CASE Rendered
  BY <1>4 DEF Rendered
<1>5. CASE Deregister
  BY <1>5 DEF Deregister
<1>6. CASE Pop
  <2>1. CASE stackActivities = <<>>
    BY <1>6, <2>1 DEF Pop, Top, Below, Uncovered
  <2>2. CASE stackActivities # <<>>
    <3>. DEFINE n == Len(stackActivities)
                top == stackActivities[n]
    <3>1. n \in 1..n
      BY <2>2
    <3>2. top.awaits # None => top.awaits = currentActivity.id
      BY <3>1
    <3>3. top.awaits # None =>
            result' = [from |-> currentActivity.id, for |-> top.awaits]
      BY <1>6, <2>2 DEF Pop, Top, Below, Uncovered, RunCode
    <3>4. ~(top.awaits # None) => result' = result
      BY <1>6, <2>2 DEF Pop, Top, Below, Uncovered, RunCode
    <3>. QED  BY <3>2, <3>3, <3>4
  <2>. QED  BY <2>1, <2>2
<1>7. CASE Popped
  BY <1>7 DEF Popped
<1>8. CASE GoHome
  BY <1>8 DEF GoHome, RunCode
<1>9. CASE Launch
  BY <1>9 DEF Launch, LaunchGuard, RunCode
<1>10. CASE EndLoop
  BY <1>10 DEF EndLoop, PassDeferredUpdate, PushActivity
<1>11. CASE LockAndChange
  BY <1>11 DEF LockAndChange
<1>12. CASE Unlock
  BY <1>12 DEF Unlock
<1>13. CASE AnyRequest
  BY <1>13 DEF AnyRequest, RequestUpdate
<1>14. CASE RequestUpdateAndWait
  BY <1>14 DEF RequestUpdateAndWait, MayWait
<1>15. CASE RejectedUpdate
  BY <1>15 DEF RejectedUpdate, MayWait
<1>16. CASE StartActivityForResult
  BY <1>16 DEF StartActivityForResult, PushActivity
<1>17. CASE Finish
  BY <1>17 DEF Finish, PopActivity
<1>18. CASE GoTo
  BY <1>18 DEF GoTo, ReplaceActivity
<1>19. CASE Return
  BY <1>19 DEF Return
<1>20. CASE GlobalPush
  BY <1>20 DEF GlobalPush, PushActivity
<1>21. CASE GlobalReplace
  BY <1>21 DEF GlobalReplace, ReplaceActivity
<1>22. CASE UsbUpdate
  BY <1>22 DEF UsbUpdate
<1>23. CASE GoToSleep
  BY <1>23 DEF GoToSleep, ReplaceActivity, RunCode
<1>24. CASE Wake
  BY <1>24 DEF Wake
<1>25. CASE RaiseAlert
  BY <1>25 DEF RaiseAlert
<1>26. CASE TimesOut
  BY <1>26 DEF TimesOut
<1>27. CASE TakeNotification
  BY <1>27 DEF TakeNotification
<1>28. CASE BeginRender
  BY <1>28 DEF BeginRender
<1>29. CASE FinishRender
  BY <1>29 DEF FinishRender
<1>30. CASE AnswerWaiter
  BY <1>30 DEF AnswerWaiter, Answer
<1>31. CASE UNCHANGED vars
  BY <1>31 DEF vars
<1>. QED
  BY <1>1, <1>2, <1>3, <1>4, <1>5, <1>6, <1>7, <1>8, <1>9, <1>10, <1>11,
     <1>12, <1>13, <1>14, <1>15, <1>16, <1>17, <1>18, <1>19, <1>20, <1>21,
     <1>22, <1>23, <1>24, <1>25, <1>26, <1>27, <1>28, <1>29, <1>30, <1>31
  DEF Next, MainLoop, Calls, Surroundings, RenderTask

(* Answers.                                                                *)
LEMMA AnswersNext ==
  ASSUME TypeOK, LockDiscipline, OnlyCurrentIsDrawn, AnswersMeanShown, [Next]_vars
  PROVE  AnswersMeanShown'
<1>. USE DEF AnswersMeanShown, LockDiscipline, OnlyCurrentIsDrawn, TypeOK, Flags, Shapes,
             mainVars, nav, renderVars, signals
<1>1. CASE BootSplash
  BY <1>1 DEF BootSplash, ReplaceActivity
<1>2. CASE BootSilent
  BY <1>2 DEF BootSilent, RunCode
<1>3. CASE StartLoop
  BY <1>3 DEF StartLoop, RunCode
<1>4. CASE Rendered
  BY <1>4 DEF Rendered
<1>5. CASE Deregister
  BY <1>5 DEF Deregister
<1>6. CASE Pop
  BY <1>6, ManagerConstants DEF Pop, Top, Below, Uncovered, RunCode
<1>7. CASE Popped
  BY <1>7 DEF Popped
<1>8. CASE GoHome
  BY <1>8 DEF GoHome, RunCode
<1>9. CASE Launch
  BY <1>9, ManagerConstants DEF Launch, LaunchGuard, RunCode
<1>10. CASE EndLoop
  BY <1>10 DEF EndLoop, PassDeferredUpdate, PushActivity
<1>11. CASE LockAndChange
  BY <1>11, ManagerConstants DEF LockAndChange
<1>12. CASE Unlock
  BY <1>12 DEF Unlock
<1>13. CASE AnyRequest
  BY <1>13 DEF AnyRequest, RequestUpdate
<1>14. CASE RequestUpdateAndWait
  BY <1>14 DEF RequestUpdateAndWait, MayWait
<1>15. CASE RejectedUpdate
  BY <1>15 DEF RejectedUpdate, MayWait
<1>16. CASE StartActivityForResult
  BY <1>16 DEF StartActivityForResult, PushActivity
<1>17. CASE Finish
  BY <1>17 DEF Finish, PopActivity
<1>18. CASE GoTo
  BY <1>18 DEF GoTo, ReplaceActivity
<1>19. CASE Return
  BY <1>19 DEF Return
<1>20. CASE GlobalPush
  BY <1>20 DEF GlobalPush, PushActivity
<1>21. CASE GlobalReplace
  BY <1>21 DEF GlobalReplace, ReplaceActivity
<1>22. CASE UsbUpdate
  BY <1>22 DEF UsbUpdate
<1>23. CASE GoToSleep
  BY <1>23 DEF GoToSleep, ReplaceActivity, RunCode
<1>24. CASE Wake
  BY <1>24 DEF Wake
<1>25. CASE RaiseAlert
  BY <1>25 DEF RaiseAlert
<1>26. CASE TimesOut
  BY <1>26 DEF TimesOut
<1>27. CASE TakeNotification
  BY <1>27 DEF TakeNotification
<1>28. CASE BeginRender
  <2>1. currentActivity # None => currentActivity.id # None
    BY ManagerConstants DEF Activity
  <2>. QED  BY <1>28, <2>1, ManagerConstants DEF BeginRender
<1>29. CASE FinishRender
  BY <1>29 DEF FinishRender
<1>30. CASE AnswerWaiter
  BY <1>30 DEF AnswerWaiter, Answer
<1>31. CASE UNCHANGED vars
  BY <1>31 DEF vars
<1>. QED
  BY <1>1, <1>2, <1>3, <1>4, <1>5, <1>6, <1>7, <1>8, <1>9, <1>10, <1>11,
     <1>12, <1>13, <1>14, <1>15, <1>16, <1>17, <1>18, <1>19, <1>20, <1>21,
     <1>22, <1>23, <1>24, <1>25, <1>26, <1>27, <1>28, <1>29, <1>30, <1>31
  DEF Next, MainLoop, Calls, Surroundings, RenderTask

-----------------------------------------------------------------------------
(* The inductive invariant.                                                *)
ManagerInv ==
  /\ TypeOK /\ LockDiscipline /\ OnlyCurrentIsDrawn /\ PendingMatchesAction
  /\ LaunchersBelow /\ ResultsReachTheirLauncher /\ AnswersMeanShown

LEMMA ManagerInvHolds == Spec => []ManagerInv
<1>1. Init => ManagerInv
  <2>. SUFFICES ASSUME Init PROVE ManagerInv
    OBVIOUS
  <2>1. OnlyCurrentIsDrawn /\ PendingMatchesAction /\ ResultsReachTheirLauncher
    BY DEF Init, OnlyCurrentIsDrawn, PendingMatchesAction, ResultsReachTheirLauncher
  <2>2. LaunchersBelow
    BY DEF Init, LaunchersBelow
  <2>3. AnswersMeanShown
    BY DEF Init, AnswersMeanShown
  <2>. QED  BY <2>1, <2>2, <2>3, TypeInit, LockInit DEF ManagerInv
<1>2. ManagerInv /\ [Next]_vars => ManagerInv'
  <2>. SUFFICES ASSUME ManagerInv, [Next]_vars PROVE ManagerInv'
    OBVIOUS
  <2>1. TypeOK'
    BY FlagsNext, ShapesNext DEF ManagerInv, TypeOK
  <2>. QED
    BY <2>1, LockNext, DrawnNext, PendingNext, LaunchersNext, ResultsNext, AnswersNext
    DEF ManagerInv
<1>. QED  BY <1>1, <1>2, PTL DEF Spec

(* Every variable of the manager and of the two tasks keeps its type.      *)
THEOREM ManagerTypeCorrect == Spec => []TypeOK
<1>1. ManagerInv => TypeOK
  BY DEF ManagerInv
<1>. QED  BY <1>1, ManagerInvHolds, PTL

(* renderTaskLoop never draws a screen the main task has destroyed or      *)
(* covered, however renders, navigation, alerts and waits interleave.      *)
THEOREM NoDeadScreenDrawn == Spec => []OnlyCurrentIsDrawn
<1>1. ManagerInv => OnlyCurrentIsDrawn
  BY DEF ManagerInv
<1>. QED  BY <1>1, ManagerInvHolds, PTL

(* The loop over pending actions never finds one without its screen.       *)
THEOREM PendingIsPaired == Spec => []PendingMatchesAction
<1>1. ManagerInv => PendingMatchesAction
  BY DEF ManagerInv
<1>. QED  BY <1>1, ManagerInvHolds, PTL

(* A result handler gets the result of the screen it was set for.          *)
THEOREM ResultsGoHome == Spec => []ResultsReachTheirLauncher
<1>1. ManagerInv => ResultsReachTheirLauncher
  BY DEF ManagerInv
<1>. QED  BY <1>1, ManagerInvHolds, PTL

(* requestUpdateAndWait says Rendered only of what is on the panel, until  *)
(* a wait times out or a turn of the render task finds no screen.          *)
THEOREM RenderedIsShown == Spec => []ConfirmedWhileInTime
<1>1. ManagerInv => ConfirmedWhileInTime
  BY DEF ManagerInv, AnswersMeanShown, ConfirmedWhileInTime
<1>. QED  BY <1>1, ManagerInvHolds, PTL
================================================================================
