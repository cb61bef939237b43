----------------------------- MODULE RenderWindow -----------------------------
(***************************************************************************)
(* The render window and its thread (RKit_System_Win32/                    *)
(* DisplayManager_Win32.cpp).  The thread runs the actions that are        *)
(* queued, and handles the window's messages when there are none; a        *)
(* message kicks it out of that.  The owner creates the window, and may    *)
(* change its display mode before anybody else has it; clients then post   *)
(* tasks and wait for them; the owner destroys it when none of them does.  *)
(* The user may close the window, which no code handles.                   *)
(***************************************************************************)
EXTENDS Integers, Sequences

CONSTANTS
  Clients,    \* the callers of PostWindowThreadTask
  ChangeMode  \* the action of the owner

ASSUME RenderWindowAssumption == ChangeMode \notin Clients

VARIABLES
  owner,         \* what the owner does next
  waiters,       \* the clients that wait for their task
  actions,       \* from m_firstItem to m_lastItem: whose they are
  windowThread,  \* what the window's thread does next
  action,        \* whose action it runs
  hwnd,          \* the window: none, open, or closed by the user with m_hWnd left as it is
  isWaitingForActions, wantsToExit,  \* m_isWaitingForActions, m_wantsToExit
  kicks,         \* the kick messages in the window's message queue
  done,          \* whose event is signaled, and m_changeDisplayModeEvent
  completed,     \* the owner's flag of a mode that has been changed
  started, exited, destroyWindow  \* m_startEvent, m_exitEvent, m_destroyWindowEvent

queueVars == <<actions, isWaitingForActions, kicks>>
eventVars == <<done, completed, started, exited, destroyWindow>>
windowVars == <<owner, waiters, queueVars, windowThread, action, hwnd, wantsToExit, eventVars>>

(* PostMessageW fails, unnoticed, when the window has been closed.         *)
PostKick ==
  /\ isWaitingForActions' = FALSE
  /\ kicks' = IF hwnd = "open" THEN kicks + 1 ELSE kicks

\* Mutant of QueueAction: the thread is kicked for every action but the first.
QueueActionUnkicked(c) ==
  /\ actions' = Append(actions, c)
  /\ IF actions # <<>> /\ isWaitingForActions THEN PostKick
     ELSE UNCHANGED <<isWaitingForActions, kicks>>

(* QueueActionBase and PostAQIToActionQueue.  Where there is no memory for *)
(* the action its caller is told so, and nothing has changed: a client     *)
(* does not wait then, and the owner does as below.                        *)
QueueAction(c) ==
  /\ actions' = Append(actions, c)
  /\ IF actions = <<>> /\ isWaitingForActions THEN PostKick
     ELSE UNCHANGED <<isWaitingForActions, kicks>>

(* PostWindowThreadTask and the wait behind it.                            *)
PostTask(c) ==
  /\ owner = "shares" /\ c \notin waiters
  /\ QueueAction(c)
  /\ waiters' = waiters \cup {c}
  /\ UNCHANGED <<owner, windowThread, action, hwnd, wantsToExit, eventVars>>

TaskIsDone(c) ==
  /\ c \in waiters /\ c \in done
  /\ waiters' = waiters \ {c} /\ done' = done \ {c}
  /\ UNCHANGED <<owner, queueVars, windowThread, action, hwnd, wantsToExit,
                 completed, started, exited, destroyWindow>>

OwnerSteps(from, to) == owner = from /\ owner' \in to

(* Initialize: without a window it fails, and what was made is destroyed.  *)
Initialized ==
  /\ OwnerSteps("initializes", IF hwnd = "none" THEN {"exits"} ELSE {"changes", "shares"})
  /\ started
  /\ UNCHANGED <<waiters, queueVars, windowThread, action, hwnd, wantsToExit, eventVars>>

(* CreateRenderWindow, for another display mode than that of a new window. *)
(* If the action cannot be queued, the window is destroyed again.          *)
BecomeBorderlessFullScreen ==
  /\ \/ OwnerSteps("changes", {"awaitsMode"}) /\ QueueAction(ChangeMode)
     \/ OwnerSteps("changes", {"exits"}) /\ UNCHANGED queueVars
  /\ UNCHANGED <<waiters, windowThread, action, hwnd, wantsToExit, eventVars>>

ModeIsChanged ==
  /\ OwnerSteps("awaitsMode", IF completed THEN {"shares"} ELSE {"exits"})
  /\ ChangeMode \in done /\ done' = done \ {ChangeMode}
  /\ UNCHANGED <<waiters, queueVars, windowThread, action, hwnd, wantsToExit,
                 completed, started, exited, destroyWindow>>

(* The destructor: nobody uses the window any more.                        *)
Destroy ==
  /\ OwnerSteps("shares", {"exits"}) /\ waiters = {}
  /\ UNCHANGED <<waiters, queueVars, windowThread, action, hwnd, wantsToExit, eventVars>>

WantToExit ==
  /\ OwnerSteps("exits", {"kicks"})
  /\ wantsToExit' = TRUE
  /\ UNCHANGED <<waiters, queueVars, windowThread, action, hwnd, eventVars>>

KickThread ==
  /\ OwnerSteps("kicks", {"awaitsExit"})
  /\ IF hwnd # "none" /\ isWaitingForActions /\ actions = <<>> THEN PostKick
     ELSE UNCHANGED <<isWaitingForActions, kicks>>
  /\ UNCHANGED <<waiters, actions, windowThread, action, hwnd, wantsToExit, eventVars>>

\* m_exitEvent resets itself, and stands for both of the thread's last steps.
ThreadHasExited ==
  /\ OwnerSteps("awaitsExit", {"awaitsDestroyed"})
  /\ exited /\ exited' = FALSE
  /\ destroyWindow' = TRUE
  /\ UNCHANGED <<waiters, queueVars, windowThread, action, hwnd, wantsToExit,
                 done, completed, started>>

(* The rest of the destructor: actions that are left are not run.          *)
WindowIsDestroyed ==
  /\ OwnerSteps("awaitsDestroyed", {"destroyed"})
  /\ exited /\ exited' = FALSE
  /\ actions' = <<>>
  /\ UNCHANGED <<waiters, isWaitingForActions, kicks, windowThread, action, hwnd, wantsToExit,
                 done, completed, started, destroyWindow>>

ThreadSteps(from, to) == windowThread = from /\ windowThread' = to

(* SetupWindow.                                                            *)
SetupWindow ==
  /\ \/ ThreadSteps("starts", "loops") /\ hwnd' = "open"
     \/ ThreadSteps("starts", "exits") /\ hwnd' = "none"
  /\ started' = TRUE
  /\ UNCHANGED <<owner, waiters, queueVars, action, wantsToExit,
                 done, completed, exited, destroyWindow>>

(* The locked part of ThreadFunc.                                          *)
TakeAction ==
  /\ actions # <<>> /\ ThreadSteps("loops", "runs")
  /\ action' = Head(actions) /\ actions' = Tail(actions)
  /\ isWaitingForActions' = FALSE
  /\ UNCHANGED <<owner, waiters, kicks, hwnd, wantsToExit, eventVars>>

NoAction ==
  /\ actions = <<>> /\ ThreadSteps("loops", IF wantsToExit THEN "exits" ELSE "messages")
  /\ isWaitingForActions' = (~wantsToExit \/ isWaitingForActions)
  /\ UNCHANGED <<owner, waiters, actions, kicks, action, hwnd, wantsToExit, eventVars>>

(* Action_RunCustomTask.                                                   *)
RunCustomTask ==
  /\ action # ChangeMode /\ ThreadSteps("runs", "loops")
  /\ done' = done \cup {action}
  /\ UNCHANGED <<owner, waiters, queueVars, action, hwnd, wantsToExit,
                 completed, started, exited, destroyWindow>>

(* Action_ChangeDisplayMode: its error is the thread's.                    *)
ChangeDisplayMode ==
  /\ action = ChangeMode
  /\ \/ ThreadSteps("runs", "loops") /\ completed' = TRUE
     \/ ThreadSteps("runs", "exits") /\ completed' = FALSE
  /\ done' = done \cup {ChangeMode}
  /\ UNCHANGED <<owner, waiters, queueVars, action, hwnd, wantsToExit,
                 started, exited, destroyWindow>>

(* ThreadProcessWinMessages.                                               *)
HandleKick ==
  /\ ThreadSteps("messages", "loops") /\ hwnd = "open"
  /\ kicks > 0 /\ kicks' = kicks - 1
  /\ UNCHANGED <<owner, waiters, actions, isWaitingForActions, action, hwnd, wantsToExit, eventVars>>

\* DefWindowProcW destroys the window, and what is in its message queue.
UserCloses ==
  /\ windowThread = "messages" /\ hwnd = "open"
  /\ hwnd' = "closed" /\ kicks' = 0
  /\ UNCHANGED <<owner, waiters, actions, isWaitingForActions, windowThread, action, wantsToExit,
                 eventVars>>

GetMessageFails ==
  /\ ThreadSteps("messages", "exits") /\ hwnd = "closed"
  /\ UNCHANGED <<owner, waiters, queueVars, action, hwnd, wantsToExit, eventVars>>

(* ThreadContext::Run, when ThreadFunc has returned.                       *)
ExitThread ==
  /\ ThreadSteps("exits", "awaitsDestroy")
  /\ exited' = TRUE
  /\ UNCHANGED <<owner, waiters, queueVars, action, hwnd, wantsToExit,
                 done, completed, started, destroyWindow>>

DestroyWindow ==
  /\ destroyWindow /\ ThreadSteps("awaitsDestroy", "gone")
  /\ hwnd' = "none" /\ exited' = TRUE
  /\ UNCHANGED <<owner, waiters, queueVars, action, wantsToExit,
                 done, completed, started, destroyWindow>>

RenderWindowInit ==
  /\ owner = "initializes" /\ windowThread = "starts" /\ hwnd = "none"
  /\ waiters = {} /\ actions = <<>> /\ action = ChangeMode
  /\ isWaitingForActions = FALSE /\ wantsToExit = FALSE /\ kicks = 0
  /\ done = {} /\ completed = FALSE
  /\ started = FALSE /\ exited = FALSE /\ destroyWindow = FALSE

WindowThread ==
  \/ SetupWindow \/ TakeAction \/ NoAction \/ RunCustomTask \/ ChangeDisplayMode
  \/ HandleKick \/ GetMessageFails \/ ExitThread \/ DestroyWindow

\* What the owner does without being asked to.
Owner ==
  \/ Initialized \/ BecomeBorderlessFullScreen \/ ModeIsChanged
  \/ WantToExit \/ KickThread \/ ThreadHasExited \/ WindowIsDestroyed

RenderWindowNext ==
  \/ WindowThread \/ Owner \/ Destroy \/ UserCloses
  \/ \E c \in Clients : PostTask(c) \/ TaskIsDone(c)

RenderWindowSpec ==
  /\ RenderWindowInit /\ [][RenderWindowNext]_windowVars
  /\ WF_windowVars(WindowThread) /\ WF_windowVars(Owner)
  /\ \A c \in Clients : WF_windowVars(TaskIsDone(c))

-----------------------------------------------------------------------------
RenderWindowTypeOK ==
  /\ owner \in {"initializes", "changes", "awaitsMode", "shares", "exits", "kicks",
                "awaitsExit", "awaitsDestroyed", "destroyed"}
  /\ waiters \subseteq Clients /\ done \subseteq Clients \cup {ChangeMode}
  /\ actions \in Seq(Clients \cup {ChangeMode}) /\ action \in Clients \cup {ChangeMode}
  /\ windowThread \in {"starts", "loops", "runs", "messages", "exits", "awaitsDestroy", "gone"}
  /\ hwnd \in {"none", "open", "closed"} /\ kicks \in {0, 1}
  /\ {isWaitingForActions, wantsToExit, completed, started, exited, destroyWindow} \subseteq BOOLEAN

ThreadStops == windowThread \in {"exits", "awaitsDestroy", "gone"}

(* No kick is lost: who waits for an action gets on, unless the thread has *)
(* stopped; the owner does not stay in a call once the thread has set up   *)
(* the window, but for the change of mode of a thread that has stopped;    *)
(* and the window is destroyed by its own thread, which is gone when the   *)
(* destructor returns, whatever has stopped it before.                     *)
WindowWaitsEnd ==
  /\ \A c \in Clients : []<>(c \notin waiters \/ ThreadStops)
  /\ []<>(started => owner \in {"shares", "destroyed"} \/ (owner = "awaitsMode" /\ ThreadStops))
  /\ [](owner = "destroyed" => windowThread = "gone" /\ hwnd = "none")
=============================================================================
