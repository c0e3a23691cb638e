---------------------------- MODULE ActivityManager ----------------------------
(***************************************************************************)
(* The screen manager: the main task runs the current screen (an activity) *)
(* and carries out the navigation it asked for; the render task draws the  *)
(* current screen whenever it is notified.  They share currentActivity     *)
(* under renderingMutex and talk through two FreeRTOS task notifications:  *)
(* main -> render "draw", render -> main "drawn", the latter only to a     *)
(* main task registered in waitingTaskHandle.                              *)
(*                                                                         *)
(* What a screen does is left open: in its loop(), its onEnter() or a      *)
(* result handler it may call the manager in any order.  It is only held   *)
(* to the documented rules: what render() reads it changes under the lock, *)
(* and it requests an update for what it changed.                          *)
(***************************************************************************)
EXTENDS Integers, Sequences

CONSTANTS
  MaxScreens,   \* bound: screens alive or awaited at the same time
  MaxDepth,     \* bound: screens on the stack when a screen starts another
  Env,          \* what a run allows beyond the screens' own calls, see EnvEvents
  None

(* The user starts a screen or goes to sleep from the main loop, the main  *)
(* loop asks for a redraw, an alert is raised, a synchronous update takes  *)
(* longer than eight seconds.                                              *)
EnvEvents == {"GlobalPush", "GlobalReplace", "Sleep", "Usb", "Alert", "Timeout"}

Ids == 1..MaxScreens

VARIABLES
  \* the manager's members that only the main task writes
  currentActivity, stackActivities, pendingActivity, pendingAction,
  \* the main task
  pc,           \* where the main task is, see MainPlaces
  back,         \* where the code of a screen returns to
  owes,         \* the screen has changed something and not asked for an update
  result,       \* in a result handler: who finished, and whom the handler is for
  confirmed,    \* requestUpdateAndWait has returned Rendered, nothing changed since
  sleeping,     \* loop() is being called by goToSleep()
  amiss,        \* history: since the boot, some wait has timed out or the render
                \* task has found no screen to draw
  \* the render task
  rpc,          \* "idle", "woken", "drawing" or "drawn"
  painting,     \* the screen whose render() is running
  waiter,       \* the task read from waitingTaskHandle, to be notified
  \* shared
  renderingMutex,
  requestedUpdate,
  notified,     \* notification value of the render task
  waitingTaskHandle,
  answered,     \* notification value of the main task
  hasPendingAlert,
  frame         \* is what the current screen holds "old" (not on the panel),
                \* being drawn ("drawing") or on the panel ("shown")?

nav == <<currentActivity, stackActivities, pendingActivity, pendingAction>>
mainVars == <<pc, back, owes, result, confirmed, sleeping, amiss>>
renderVars == <<rpc, painting, waiter>>
signals == <<requestedUpdate, notified, waitingTaskHandle, answered>>
vars == <<nav, mainVars, renderVars, renderingMutex, signals, hasPendingAlert,
          frame>>

-----------------------------------------------------------------------------
(* Screens.  awaits is the child whose result resultHandler is set for.    *)
Activity == [id : Ids, kind : {"splash", "screen", "alert"},
             awaits : Ids \cup {None}]

ASSUME ManagerConstants ==
  /\ MaxScreens \in Nat /\ MaxScreens > 1 /\ MaxDepth \in Nat
  /\ Env \subseteq EnvEvents
  /\ None \notin Ids /\ None \notin Activity
  /\ None \notin [from : Ids, for : Ids] /\ None \notin {"main", "render"}

Actions == {"None", "Push", "Pop", "Replace"}
MainPlaces == {"boot", "top", "code", "waiting", "timedOut", "actions",
               "homing", "popped", "asleep"}

Alive == {currentActivity, pendingActivity} \cup
         {stackActivities[i] : i \in DOMAIN stackActivities}
Kept == Alive \ {pendingActivity, None}    \* what a new pending screen leaves alive
Used == {a.id : a \in Kept} \cup {a.awaits : a \in Kept}
Fresh == CHOOSE n \in Ids : n \notin Used
Screen(kind) == [id |-> Fresh, kind |-> kind, awaits |-> None]
First(kind) == [id |-> 1, kind |-> kind, awaits |-> None]   \* nothing else is alive
Room == Ids \ Used # {}
AlertAlive == \E a \in Alive \ {None} : a.kind = "alert"

(* pushActivity, popActivity and replaceActivity while there is a current  *)
(* screen: the navigation is left for the loop to carry out, and replaces  *)
(* one that was asked for before (mutant: finishing forgets to drop it).   *)
PopActivityKeepingPending == pendingAction' = "Pop" /\ UNCHANGED pendingActivity

PushActivity(a) == pendingActivity' = a /\ pendingAction' = "Push"
PopActivity == pendingActivity' = None /\ pendingAction' = "Pop"
ReplaceActivity(a) == pendingActivity' = a /\ pendingAction' = "Replace"

(* The code of a screen starts or ends.                                    *)
RunCode(ret) == pc' = "code" /\ back' = ret /\ confirmed' = FALSE

Init ==
  /\ currentActivity = None /\ stackActivities = <<>>
  /\ pendingActivity = None /\ pendingAction = "None"
  /\ pc = "boot" /\ back = "actions" /\ owes = FALSE /\ result = None
  /\ confirmed = FALSE /\ sleeping = FALSE /\ amiss = FALSE
  /\ rpc = "idle" /\ painting = None /\ waiter = FALSE
  /\ renderingMutex = None /\ requestedUpdate = FALSE /\ notified = FALSE
  /\ waitingTaskHandle = FALSE /\ answered = FALSE
  /\ hasPendingAlert = FALSE /\ frame = "shown"

-----------------------------------------------------------------------------
(* setup(): a splash is replaced by the first screen in the first loop; a  *)
(* silent restart enters that screen at once and waits for its paint.      *)
BootSplash ==
  /\ pc = "boot"
  /\ currentActivity' = First("splash")
  /\ ReplaceActivity([id |-> 2, kind |-> "screen", awaits |-> None])
  /\ pc' = "top"
  /\ UNCHANGED <<stackActivities, back, owes, result, confirmed, sleeping, amiss,
                 renderVars, renderingMutex, signals, hasPendingAlert, frame>>

BootSilent ==
  /\ pc = "boot"
  /\ currentActivity' = First("screen")
  /\ RunCode("top") /\ owes' = TRUE /\ frame' = "old"
  /\ UNCHANGED <<stackActivities, pendingActivity, pendingAction, result,
                 sleeping, amiss, renderVars, renderingMutex, signals,
                 hasPendingAlert>>

(* Deep sleep ends in a restart of the program.                            *)
Wake ==
  /\ pc = "asleep"
  /\ currentActivity' = None /\ stackActivities' = <<>>
  /\ pendingActivity' = None /\ pendingAction' = "None"
  /\ pc' = "boot" /\ back' = "actions" /\ owes' = FALSE /\ result' = None
  /\ confirmed' = FALSE /\ sleeping' = FALSE /\ amiss' = FALSE
  /\ rpc' = "idle" /\ painting' = None /\ waiter' = FALSE
  /\ renderingMutex' = None /\ requestedUpdate' = FALSE /\ notified' = FALSE
  /\ waitingTaskHandle' = FALSE /\ answered' = FALSE
  /\ hasPendingAlert' = FALSE /\ frame' = "shown"

-----------------------------------------------------------------------------
(* main.cpp's loop(), between two calls of the manager's.                  *)
GlobalPush ==
  /\ pc = "top" /\ "GlobalPush" \in Env
  /\ Len(stackActivities) < MaxDepth /\ Room
  /\ PushActivity(Screen("screen"))
  /\ UNCHANGED <<currentActivity, stackActivities, mainVars, renderVars,
                 renderingMutex, signals, hasPendingAlert, frame>>

GlobalReplace ==
  /\ pc = "top" /\ "GlobalReplace" \in Env /\ Room
  /\ ReplaceActivity(Screen("screen"))
  /\ UNCHANGED <<currentActivity, stackActivities, mainVars, renderVars,
                 renderingMutex, signals, hasPendingAlert, frame>>

UsbUpdate ==
  /\ pc = "top" /\ "Usb" \in Env
  /\ requestedUpdate' = TRUE
  /\ UNCHANGED <<nav, mainVars, renderVars, renderingMutex, notified,
                 waitingTaskHandle, answered, hasPendingAlert, frame>>

(* goToSleep() calls the manager's loop() itself, which first runs the     *)
(* loop() of the screen that is still current.                             *)
GoToSleep ==
  /\ pc = "top" /\ "Sleep" \in Env /\ Room
  /\ ReplaceActivity(Screen("screen"))
  /\ sleeping' = TRUE /\ RunCode("actions")
  /\ UNCHANGED <<currentActivity, stackActivities, owes, result, amiss,
                 renderVars, renderingMutex, signals, hasPendingAlert, frame>>

(* The manager's loop() runs the current screen; a splash's does nothing.  *)
StartLoop ==
  /\ pc = "top"
  /\ IF currentActivity.kind = "splash"
     THEN pc' = "actions" /\ UNCHANGED <<back, confirmed>>
     ELSE RunCode("actions")
  /\ UNCHANGED <<nav, owes, result, sleeping, amiss, renderVars, renderingMutex,
                 signals, hasPendingAlert, frame>>

-----------------------------------------------------------------------------
(* What the code of a screen may call.                                     *)
LockAndChange ==
  /\ pc = "code" /\ ~owes
  /\ renderingMutex = None
  /\ renderingMutex' = "main"
  /\ frame' = "old" /\ owes' = TRUE /\ confirmed' = FALSE
  /\ UNCHANGED <<nav, pc, back, result, sleeping, amiss, renderVars, signals,
                 hasPendingAlert>>

Unlock ==
  /\ pc = "code" /\ renderingMutex = "main"
  /\ renderingMutex' = None
  /\ UNCHANGED <<nav, mainVars, renderVars, signals, hasPendingAlert, frame>>

RequestUpdate(immediate) ==
  /\ pc = "code" /\ owes
  /\ owes' = FALSE
  /\ IF immediate THEN notified' = TRUE /\ UNCHANGED requestedUpdate
                  ELSE requestedUpdate' = TRUE /\ UNCHANGED notified
  /\ UNCHANGED <<nav, pc, back, result, confirmed, sleeping, amiss, renderVars,
                 renderingMutex, waitingTaskHandle, answered, hasPendingAlert,
                 frame>>

(* Mutant: forgetting that the caller may hold the lock the drawing needs. *)
MayWaitHoldingLock == ~waitingTaskHandle

MayWait == ~waitingTaskHandle /\ renderingMutex # "main"

RequestUpdateAndWait ==
  /\ pc = "code" /\ MayWait
  /\ waitingTaskHandle' = TRUE /\ notified' = TRUE
  /\ pc' = "waiting" /\ owes' = FALSE /\ confirmed' = FALSE
  /\ UNCHANGED <<nav, back, result, sleeping, amiss, renderVars, renderingMutex,
                 requestedUpdate, answered, hasPendingAlert, frame>>

RejectedUpdate ==
  /\ pc = "code" /\ ~MayWait
  /\ confirmed' = FALSE
  /\ UNCHANGED <<nav, pc, back, owes, result, sleeping, amiss, renderVars,
                 renderingMutex, signals, hasPendingAlert, frame>>

(* ulTaskNotifyTake returns: the answer has come, or eight seconds are     *)
(* over.  Only then is the registration taken back.                        *)
Rendered ==
  /\ pc = "waiting" /\ answered
  /\ answered' = FALSE
  /\ pc' = "code" /\ confirmed' = TRUE
  /\ UNCHANGED <<nav, back, owes, result, sleeping, amiss, renderVars,
                 renderingMutex, requestedUpdate, notified, waitingTaskHandle,
                 hasPendingAlert, frame>>

TimesOut ==
  /\ pc = "waiting" /\ ~answered /\ "Timeout" \in Env
  /\ pc' = "timedOut" /\ amiss' = TRUE
  /\ UNCHANGED <<nav, back, owes, result, confirmed, sleeping, renderVars,
                 renderingMutex, signals, hasPendingAlert, frame>>

Deregister ==
  /\ pc = "timedOut"
  /\ waitingTaskHandle' = FALSE
  /\ pc' = "code"
  /\ UNCHANGED <<nav, back, owes, result, confirmed, sleeping, amiss, renderVars,
                 renderingMutex, requestedUpdate, notified, answered,
                 hasPendingAlert, frame>>

(* The screen a silent restart enters (home or the reader) starts no other *)
(* one for its result in onEnter().                                        *)
StartActivityForResult ==
  /\ pc = "code" /\ back # "top" /\ Len(stackActivities) < MaxDepth /\ Room
  /\ PushActivity(Screen("screen"))
  /\ currentActivity' = [currentActivity EXCEPT !.awaits = Fresh]
  /\ owes' = FALSE
  /\ UNCHANGED <<stackActivities, pc, back, result, confirmed, sleeping, amiss,
                 renderVars, renderingMutex, signals, hasPendingAlert, frame>>

Finish ==
  /\ pc = "code"
  /\ PopActivity
  /\ owes' = FALSE
  /\ UNCHANGED <<currentActivity, stackActivities, pc, back, result, confirmed,
                 sleeping, amiss, renderVars, renderingMutex, signals,
                 hasPendingAlert, frame>>

GoTo ==
  /\ pc = "code" /\ Room
  /\ ReplaceActivity(Screen("screen"))
  /\ owes' = FALSE
  /\ UNCHANGED <<currentActivity, stackActivities, pc, back, result, confirmed,
                 sleeping, amiss, renderVars, renderingMutex, signals,
                 hasPendingAlert, frame>>

(* The code returns: its lock is released by then, and it has asked for an *)
(* update of what it changed, or for another screen.                       *)
Return ==
  /\ pc = "code" /\ renderingMutex # "main" /\ ~owes
  /\ pc' = back
  /\ back' = "actions" /\ result' = None /\ confirmed' = FALSE
  /\ UNCHANGED <<nav, owes, sleeping, amiss, renderVars, renderingMutex, signals,
                 hasPendingAlert, frame>>

(* An alert is raised by the code of a screen or by the rendering of one.  *)
RaiseAlert ==
  /\ pc = "code" \/ painting # None
  /\ "Alert" \in Env /\ ~hasPendingAlert /\ ~AlertAlive
  /\ hasPendingAlert' = TRUE
  /\ UNCHANGED <<nav, mainVars, renderVars, renderingMutex, signals, frame>>

-----------------------------------------------------------------------------
(* The second half of the manager's loop(): one pending action after the   *)
(* other, each under the lock, then the alert and the deferred update.     *)
(* Mutants: taking the screen out without removing its place; calling the  *)
(* handler without clearing it.                                            *)
BelowWithHole == [stackActivities EXCEPT ![Len(stackActivities)] = None]
UncoveredWithHandler == stackActivities[Len(stackActivities)]

Top == stackActivities[Len(stackActivities)]
Below == SubSeq(stackActivities, 1, Len(stackActivities) - 1)
Uncovered == [Top EXCEPT !.awaits = None]    \* its handler is moved out

Pop ==
  /\ pc = "actions" /\ pendingAction = "Pop"
  /\ renderingMutex = None
  /\ pendingAction' = "None"
  /\ IF stackActivities = <<>>
     THEN /\ currentActivity' = None
          /\ pc' = "homing"
          /\ UNCHANGED <<stackActivities, back, result, confirmed,
                         requestedUpdate, frame>>
     ELSE /\ stackActivities' = Below /\ currentActivity' = Uncovered
          /\ frame' = "old"
          /\ IF Top.awaits # None
             THEN /\ result' = [from |-> currentActivity.id, for |-> Top.awaits]
                  /\ RunCode("popped") /\ UNCHANGED requestedUpdate
             ELSE /\ requestedUpdate' = TRUE
                  /\ UNCHANGED <<pc, back, result, confirmed>>
  /\ UNCHANGED <<pendingActivity, owes, sleeping, amiss, renderVars,
                 renderingMutex, notified, waitingTaskHandle, answered,
                 hasPendingAlert>>

(* The handler has returned: the uncovered screen is drawn again, unless   *)
(* the handler went on to another one.                                     *)
Popped ==
  /\ pc = "popped"
  /\ pc' = "actions"
  /\ requestedUpdate' = (requestedUpdate \/ pendingAction = "None")
  /\ UNCHANGED <<nav, back, owes, result, confirmed, sleeping, amiss, renderVars,
                 renderingMutex, notified, waitingTaskHandle, answered,
                 hasPendingAlert, frame>>

(* goHome() after the last screen was popped: the lock is free by then.    *)
GoHome ==
  /\ pc = "homing"
  /\ currentActivity' = First("screen")
  /\ RunCode("actions") /\ owes' = TRUE /\ frame' = "old"
  /\ UNCHANGED <<stackActivities, pendingActivity, pendingAction, result,
                 sleeping, amiss, renderVars, renderingMutex, signals,
                 hasPendingAlert>>

(* Mutant: "no lock here", as in replaceActivity.                          *)
LaunchGuardWithoutLock ==
  pendingAction \in {"Push", "Replace"} /\ pendingActivity # None

LaunchGuard ==
  /\ pendingAction \in {"Push", "Replace"} /\ pendingActivity # None
  /\ renderingMutex = None

Launch ==
  /\ pc = "actions" /\ LaunchGuard
  /\ stackActivities' = IF pendingAction = "Push"
                        THEN Append(stackActivities, currentActivity) ELSE <<>>
  /\ currentActivity' = pendingActivity
  /\ pendingActivity' = None /\ pendingAction' = "None"
  /\ RunCode("actions") /\ owes' = TRUE /\ frame' = "old"
  /\ UNCHANGED <<result, sleeping, amiss, renderVars, renderingMutex, signals,
                 hasPendingAlert>>

(* Mutant: the deferred update is taken back and never passed on.          *)
DropDeferredUpdate == requestedUpdate' = FALSE /\ UNCHANGED notified

PassDeferredUpdate ==
  requestedUpdate' = FALSE /\ notified' = (notified \/ requestedUpdate)

EndLoop ==
  /\ pc = "actions" /\ pendingAction = "None" /\ (hasPendingAlert => Room)
  /\ hasPendingAlert' = FALSE
  /\ IF hasPendingAlert THEN PushActivity(Screen("alert"))
                        ELSE UNCHANGED <<pendingActivity, pendingAction>>
  /\ PassDeferredUpdate
  /\ pc' = IF sleeping THEN "asleep" ELSE "top"
  /\ UNCHANGED <<currentActivity, stackActivities, back, owes, result, confirmed,
                 sleeping, amiss, renderVars, renderingMutex, waitingTaskHandle,
                 answered, frame>>

-----------------------------------------------------------------------------
(* The render task.  It keeps the lock from before it reads                *)
(* currentActivity until after it has answered the waiting task.           *)
TakeNotification ==
  /\ rpc = "idle" /\ notified
  /\ notified' = FALSE /\ rpc' = "woken"
  /\ UNCHANGED <<nav, mainVars, painting, waiter, renderingMutex,
                 requestedUpdate, waitingTaskHandle, answered, hasPendingAlert,
                 frame>>

BeginRender ==
  /\ rpc = "woken" /\ renderingMutex = None
  /\ renderingMutex' = "render" /\ rpc' = "drawing"
  /\ IF currentActivity = None
     THEN amiss' = TRUE /\ UNCHANGED <<painting, frame>>
     ELSE /\ painting' = currentActivity.id
          /\ frame' = IF frame = "old" THEN "drawing" ELSE frame
          /\ UNCHANGED amiss
  /\ UNCHANGED <<nav, pc, back, owes, result, confirmed, sleeping, waiter, signals,
                 hasPendingAlert>>

FinishRender ==
  /\ rpc = "drawing"
  /\ rpc' = "drawn" /\ painting' = None
  /\ frame' = IF frame = "drawing" THEN "shown" ELSE frame
  /\ waiter' = waitingTaskHandle /\ waitingTaskHandle' = FALSE
  /\ UNCHANGED <<nav, mainVars, renderingMutex, requestedUpdate, notified,
                 answered, hasPendingAlert>>

(* Mutant: answering the main task whether it waits or not.                *)
AnswerUnasked == answered' = TRUE

Answer == answered' = (answered \/ waiter)

AnswerWaiter ==
  /\ rpc = "drawn"
  /\ rpc' = "idle" /\ renderingMutex' = None
  /\ Answer /\ waiter' = FALSE
  /\ UNCHANGED <<nav, mainVars, painting, requestedUpdate, notified,
                 waitingTaskHandle, hasPendingAlert, frame>>

-----------------------------------------------------------------------------
MainLoop == BootSplash \/ BootSilent \/ StartLoop \/ Rendered \/ Deregister
            \/ Pop \/ Popped \/ GoHome \/ Launch \/ EndLoop
AnyRequest == \E immediate \in BOOLEAN : RequestUpdate(immediate)
Calls == \/ LockAndChange \/ Unlock \/ AnyRequest \/ RequestUpdateAndWait
         \/ RejectedUpdate \/ StartActivityForResult \/ Finish \/ GoTo \/ Return
Surroundings == GlobalPush \/ GlobalReplace \/ UsbUpdate \/ GoToSleep \/ Wake
                \/ RaiseAlert \/ TimesOut
RenderTask == TakeNotification \/ BeginRender \/ FinishRender \/ AnswerWaiter

Next == MainLoop \/ Calls \/ Surroundings \/ RenderTask

Spec == Init /\ [][Next]_vars

(* Both tasks are scheduled; the mutex goes to its longest waiter, so the  *)
(* render task gets it in the end; a screen releases its lock, asks for    *)
(* the updates it owes and returns.  Nothing relies on the eight seconds   *)
(* running out.                                                            *)
Fairness ==
  /\ WF_vars(MainLoop) /\ WF_vars(Unlock)
  /\ WF_vars(AnyRequest) /\ SF_vars(Return)
  /\ WF_vars(TakeNotification) /\ SF_vars(BeginRender)
  /\ WF_vars(FinishRender) /\ WF_vars(AnswerWaiter)

FairSpec == Spec /\ Fairness

-----------------------------------------------------------------------------
Flags ==
  /\ owes \in BOOLEAN /\ confirmed \in BOOLEAN
  /\ sleeping \in BOOLEAN /\ amiss \in BOOLEAN /\ waiter \in BOOLEAN
  /\ requestedUpdate \in BOOLEAN /\ notified \in BOOLEAN
  /\ waitingTaskHandle \in BOOLEAN /\ answered \in BOOLEAN
  /\ hasPendingAlert \in BOOLEAN
Shapes ==
  /\ currentActivity \in Activity \cup {None}
  /\ stackActivities \in Seq(Activity)
  /\ pendingActivity \in Activity \cup {None}
  /\ pendingAction \in Actions
  /\ pc \in MainPlaces /\ back \in {"actions", "top", "popped"}
  /\ result \in [from : Ids, for : Ids] \cup {None}
  /\ rpc \in {"idle", "woken", "drawing", "drawn"}
  /\ painting \in Ids \cup {None}
  /\ renderingMutex \in {None, "main", "render"}
  /\ frame \in {"old", "drawing", "shown"}

(* Every variable has its type; screens on the stack are real ones.        *)
TypeOK == Flags /\ Shapes

(* The render task never runs the render() of a screen that the main task  *)
(* has destroyed or put on the stack meanwhile (the comment in             *)
(* renderTaskLoop on the race between the null check and render()).        *)
OnlyCurrentIsDrawn ==
  painting # None => currentActivity # None /\ painting = currentActivity.id

(* A pending screen and a pending action to launch it come and go          *)
(* together: otherwise the loop over pending actions would spin for ever,  *)
(* or an earlier call's screen would be launched by a later one.           *)
PendingMatchesAction ==
  pendingAction \in {"Push", "Replace"} <=> pendingActivity # None

(* A result handler only ever gets the result of the screen it was set for *)
(* whatever alerts or global actions push in between.                      *)
ResultsReachTheirLauncher == result # None => result.from = result.for

(* requestUpdateAndWait returns Rendered only when what the screen held    *)
(* when it called is on the panel, as long as no earlier wait timed out    *)
(* and the render task has always found a screen to draw.                  *)
ConfirmedWhileInTime == confirmed /\ ~amiss => frame = "shown"

(* The same without that condition: "Trigger a render and block until it   *)
(* completes" (ActivityManager.h).                                         *)
RenderedMeansShown == confirmed => frame = "shown"

(* What a screen changes, and a screen that is entered or uncovered, is    *)
(* drawn in the end, unless it is left or the reader falls asleep first.   *)
ChangesAreDrawn ==
  frame = "old" ~> frame = "shown" \/ pendingAction # "None" \/ pc = "asleep"

(* A synchronous update never blocks the main task for ever: the answer    *)
(* comes even if no timeout were to rescue it.                             *)
WaitsEnd == pc = "waiting" ~> pc # "waiting"
================================================================================
