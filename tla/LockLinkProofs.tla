--------------------------- MODULE LockLinkProofs ---------------------------
(***************************************************************************)
(* Theorems about LockLink, for any tasks, clients and bounds.             *)
(***************************************************************************)
EXTENDS LockLink, TLAPS

(* What the lemmas need of the types of the variables a task owns.         *)
TaskTypes ==
  /\ cancelled \in SUBSET Task /\ awaited \in SUBSET Task
  /\ connLock \in Task \cup {None} /\ opLock \in Task \cup {None}
  /\ pc \in [Task -> Place] /\ at \in [Task -> Client \cup {None}]
  /\ then \in [Task -> Back] /\ left \in [Task -> 0..Attempts]
  /\ again \in SUBSET Task

LinkTypes ==
  /\ open \in SUBSET Client /\ client \in Client \cup {None}
  /\ connected \in BOOLEAN /\ timer \in BOOLEAN /\ persistent \in BOOLEAN
  /\ stopping \in BOOLEAN /\ toggles \in 0..MaxToggles

LEMMA TypesSplit == TypeOK <=> TaskTypes /\ LinkTypes
BY DEF TypeOK, TaskTypes, LinkTypes

LEMMA ReturnTypes ==
  ASSUME TaskTypes, NEW t \in Task, Return(t) PROVE TaskTypes'
<1>1. (IF t = Unload THEN "done" ELSE "idle") \in Place
  BY DEF Place
<1>2. pc' \in [Task -> Place]
  BY <1>1 DEF TaskTypes, Return, Goto
<1>3. /\ at' \in [Task -> Client \cup {None}] /\ then' \in [Task -> Back]
      /\ again' \in SUBSET Task
  BY DEF TaskTypes, Return, Back
<1>4. left' \in [Task -> 0..Attempts]
  BY BoundAssumption DEF TaskTypes, Return
<1>5. /\ cancelled' \in SUBSET Task /\ awaited' \in SUBSET Task
      /\ connLock' \in Task \cup {None} /\ opLock' \in Task \cup {None}
  BY DEF TaskTypes, Return, Free
<1> QED BY <1>2, <1>3, <1>4, <1>5 DEF TaskTypes

LEMMA ContinueTypes ==
  ASSUME TaskTypes, NEW t \in Task, NEW place \in Back, Continue(t, place)
  PROVE  TaskTypes'
<1>1. CASE place \in {"end", "failed"}
  BY <1>1, ReturnTypes DEF Continue
<1>2. CASE place \notin {"end", "failed"}
  BY <1>2 DEF Continue, TaskTypes, Goto, Place, Back, lockVars, cancelVars
<1> QED BY <1>1, <1>2

LEMMA HangUpTypes ==
  ASSUME TaskTypes, LinkTypes, NEW t \in Task, NEW place \in Back, HangUp(t, place)
  PROVE  /\ TaskTypes'
         /\ open' \in SUBSET Client /\ client' \in Client \cup {None}
         /\ connected' \in BOOLEAN
<1>1. CASE client = None
  BY <1>1, ContinueTypes DEF HangUp, LinkTypes
<1>2. CASE client # None
  BY <1>2 DEF HangUp, TaskTypes, LinkTypes, Goto, Free, Place, Back, linkVars, cancelVars
<1> QED BY <1>1, <1>2

LEMMA AttemptTypes ==
  ASSUME TaskTypes, LinkTypes, NEW t \in Task, NEW more \in 0..Attempts,
         Attempt(t, more)
  PROVE  /\ TaskTypes'
         /\ open' \in SUBSET Client /\ client' \in Client \cup {None}
         /\ connected' \in BOOLEAN
BY DEF Attempt, TaskTypes, LinkTypes, Goto, Place, Back, linkVars, cancelVars

LEMMA OnlyGotoTypes ==
  ASSUME TaskTypes, LinkTypes, NEW t \in Task, NEW place \in Place, OnlyGoto(t, place)
  PROVE  /\ TaskTypes'
         /\ open' \in SUBSET Client /\ client' \in Client \cup {None}
         /\ connected' \in BOOLEAN
BY DEF OnlyGoto, TaskTypes, LinkTypes, Goto, linkVars, lockVars, cancelVars

LEMMA EnsureTypes ==
  ASSUME TaskTypes, NEW t \in Task, EnsureConnected(t)
  PROVE  /\ pc' \in [Task -> Place] /\ left' \in [Task -> 0..Attempts]
<1>1. /\ (IF stopping THEN "failed" ELSE IF connected THEN "work" ELSE "connect")
           \in Place
      /\ Attempts - 1 \in 0..Attempts
  BY BoundAssumption DEF Place
<1> QED BY <1>1 DEF EnsureConnected, TaskTypes, Goto

-----------------------------------------------------------------------------

(* Connecting and hanging up keep the types.                               *)
LEMMA ConnectingTypes ==
  ASSUME TypeOK, NEW t \in Task,
         \/ StopNotified(t) \/ Disconnected(t) \/ Connect(t) \/ Established(t)
         \/ Notified(t) \/ Greeted(t) \/ Unbound(t) \/ AttemptFails(t)
         \/ Retry(t) \/ Paired(t) \/ PairRaises(t)
  PROVE  TypeOK'
<1> USE TypesSplit
<1>0. TaskTypes /\ LinkTypes OBVIOUS
<1> SUFFICES TaskTypes' /\ LinkTypes'
  BY DEF TypeOK, TaskTypes, LinkTypes
<1>1. CASE StopNotified(t)
  <2>1. CASE client = None
    BY <1>0, <1>1, <2>1, ContinueTypes DEF StopNotified, TaskTypes, LinkTypes, switchVars
  <2>2. CASE client # None
    BY <1>0, <1>1, <2>2 DEF StopNotified, TaskTypes, LinkTypes, Goto, Place, linkVars,
                            lockVars, switchVars, cancelVars
  <2> QED BY <2>1, <2>2
<1>2. CASE Disconnected(t)
  BY <1>0, <1>2, ContinueTypes DEF Disconnected, TaskTypes, LinkTypes, switchVars
<1>3. CASE Connect(t)
  <2>1. CASE OnlyGoto(t, "failed") \/ OnlyGoto(t, "work")
    BY <1>0, <1>3, <2>1, OnlyGotoTypes DEF Connect, LinkTypes, switchVars, Place
  <2>2. CASE Attempt(t, left[t])
    BY <1>0, <1>3, <2>2, AttemptTypes DEF Connect, TaskTypes, LinkTypes, switchVars
  <2> QED BY <1>3, <2>1, <2>2 DEF Connect
<1>4. CASE Established(t)
  <2>1. NewClient \in Client
    BY <1>4 DEF Established, NewClient, Unused
  <2> QED BY <1>0, <1>4, <2>1 DEF Established, TaskTypes, LinkTypes, Goto, Place,
                                  lockVars, switchVars, cancelVars
<1>5. CASE Notified(t)
  BY <1>0, <1>5 DEF Notified, TaskTypes, LinkTypes, Goto, Place, lockVars, switchVars,
                    cancelVars
<1>6. CASE Greeted(t)
  BY <1>0, <1>6, OnlyGotoTypes DEF Greeted, LinkTypes, switchVars, Place
<1>7. CASE Unbound(t)
  BY <1>0, <1>7, HangUpTypes DEF Unbound, LinkTypes, switchVars, Back
<1>8. CASE AttemptFails(t)
  BY <1>0, <1>8 DEF AttemptFails, TaskTypes, LinkTypes, Goto, Place, linkVars, lockVars,
                    switchVars, cancelVars
<1>9. CASE Retry(t)
  <2>1. CASE left[t] > 0
    <3>1. left[t] - 1 \in 0..Attempts
      BY <1>0, <2>1, BoundAssumption DEF TaskTypes
    <3> QED BY <1>0, <1>9, <2>1, <3>1, AttemptTypes DEF Retry, LinkTypes, switchVars
  <2>2. CASE ~(left[t] > 0)
    BY <1>0, <1>9, <2>2 DEF Retry, TaskTypes, LinkTypes, Goto, Place, lockVars,
                            switchVars, cancelVars
  <2> QED BY <2>1, <2>2
<1>10. CASE Paired(t)
  BY <1>0, <1>10 DEF Paired, TaskTypes, LinkTypes, Goto, Place, linkVars, switchVars,
                     cancelVars
<1>11. CASE PairRaises(t)
  BY <1>0, <1>11, OnlyGotoTypes DEF PairRaises, LinkTypes, switchVars, Place
<1> QED BY <1>1, <1>2, <1>3, <1>4, <1>5, <1>6, <1>7, <1>8, <1>9, <1>10, <1>11

(* So do the tasks, and what interferes with them.                         *)
LEMMA TaskStepTypes ==
  ASSUME TypeOK, NEW t \in Task,
         \/ Call(t) \/ TakeOpLock(t) \/ OneShot(t) \/ CallService(t)
         \/ WorkDone(t) \/ ResetIdleTimer(t) \/ WorkFails(t) \/ SendAgain(t)
         \/ NextCredential(t) \/ Fail(t) \/ Unwind(t) \/ Suspend(t) \/ Resume(t)
  PROVE  TypeOK'
<1>0. TaskTypes /\ LinkTypes BY TypesSplit
<1> SUFFICES TaskTypes' /\ LinkTypes'
  BY DEF TypeOK, TaskTypes, LinkTypes
<1>1. CASE Call(t)
  BY <1>0, <1>1, OnlyGotoTypes DEF Call, LinkTypes, switchVars, Place
<1>2. CASE TakeOpLock(t)
  BY <1>0, <1>2, EnsureTypes DEF TakeOpLock, TaskTypes, LinkTypes, linkVars, switchVars,
                                 cancelVars
<1>3. CASE OneShot(t)
  BY <1>0, <1>3 DEF OneShot, TaskTypes, LinkTypes, Goto, Place, linkVars, switchVars,
                    cancelVars
<1>4. CASE CallService(t)
  BY <1>0, <1>4, EnsureTypes DEF CallService, TaskTypes, LinkTypes, linkVars, lockVars,
                                 switchVars, cancelVars
<1>5. CASE WorkDone(t)
  <2>1. /\ stopping' \in BOOLEAN /\ persistent' \in BOOLEAN
        /\ toggles' \in 0..MaxToggles
    BY <1>0, <1>5 DEF WorkDone, LinkTypes, switchVars
  <2>2. CASE Return(t) /\ UNCHANGED linkVars /\ timer' \in BOOLEAN
    BY <1>0, <2>1, <2>2, ReturnTypes DEF LinkTypes, linkVars
  <2>3. CASE HangUp(t, "end") /\ UNCHANGED timer
    BY <1>0, <2>1, <2>3, HangUpTypes DEF LinkTypes, Back
  <2> QED BY <1>0, <1>5, <2>2, <2>3 DEF WorkDone, LinkTypes
<1>6. CASE ResetIdleTimer(t)
  BY <1>0, <1>6 DEF ResetIdleTimer, TaskTypes, LinkTypes, linkVars, lockVars, switchVars,
                    cancelVars
<1>7. CASE WorkFails(t)
  BY <1>0, <1>7, OnlyGotoTypes DEF WorkFails, LinkTypes, switchVars, Place
<1>8. CASE SendAgain(t)
  <2>1. /\ (IF stopping THEN "failed" ELSE "connect") \in Place
        /\ Attempts - 1 \in 0..Attempts
    BY BoundAssumption DEF Place
  <2> QED BY <1>0, <1>8, <2>1 DEF SendAgain, TaskTypes, LinkTypes, Goto, lockVars,
                                  switchVars, cancelVars
<1>9. CASE NextCredential(t)
  BY <1>0, <1>9, EnsureTypes DEF NextCredential, TaskTypes, LinkTypes, Free, linkVars,
                                 switchVars, cancelVars
<1>10. CASE Fail(t)
  <2>1. CASE Return(t) /\ UNCHANGED linkVars
    BY <1>0, <1>10, <2>1, ReturnTypes DEF Fail, LinkTypes, linkVars, switchVars
  <2>2. CASE HangUp(t, "end")
    BY <1>0, <1>10, <2>2, HangUpTypes DEF Fail, LinkTypes, switchVars, Back
  <2> QED BY <1>10, <2>1, <2>2 DEF Fail
<1>11. CASE Unwind(t)
  BY <1>0, <1>11 DEF Unwind, TaskTypes, LinkTypes, Goto, Place, linkVars, lockVars,
                     switchVars
<1>12. CASE Suspend(t)
  BY <1>0, <1>12 DEF Suspend, TaskTypes, LinkTypes, Goto, Place, Back, linkVars,
                     switchVars, cancelVars
<1>13. CASE Resume(t)
  BY <1>0, <1>13, ReturnTypes DEF Resume, LinkTypes, linkVars, switchVars
<1> QED BY <1>1, <1>2, <1>3, <1>4, <1>5, <1>6, <1>7, <1>8, <1>9, <1>10, <1>11, <1>12,
           <1>13

LEMMA OutsideTypes ==
  ASSUME TypeOK,
         \/ TimerFires \/ (\E on \in BOOLEAN : SetPersistent(on))
         \/ StartUnload \/ Gathered \/ (\E c \in Client : LinkDrops(c))
  PROVE  TypeOK'
<1>0. TaskTypes /\ LinkTypes BY TypesSplit
<1> SUFFICES TaskTypes' /\ LinkTypes'
  BY DEF TypeOK, TaskTypes, LinkTypes
<1>a. IdleTimer \in Task /\ Unload \in Task
  BY DEF Task
<1>1. CASE TimerFires
  <2>1. CASE HangUp(IdleTimer, "end")
    BY <1>0, <1>a, <1>1, <2>1, HangUpTypes DEF TimerFires, LinkTypes, switchVars, Back
  <2>2. CASE ~HangUp(IdleTimer, "end")
    BY <1>0, <1>1, <2>2 DEF TimerFires, TaskTypes, LinkTypes, linkVars, lockVars,
                            switchVars, cancelVars
  <2> QED BY <2>1, <2>2
<1>2. ASSUME NEW on \in BOOLEAN, SetPersistent(on) PROVE TaskTypes' /\ LinkTypes'
  <2>1. toggles' \in 0..MaxToggles
    BY <1>0, <1>2, BoundAssumption DEF SetPersistent, LinkTypes
  <2>2. cancelled' \in SUBSET Task
    BY <1>0, <1>2 DEF SetPersistent, TaskTypes, Running
  <2>3. timer' \in BOOLEAN /\ persistent' \in BOOLEAN
    BY <1>0, <1>2 DEF SetPersistent, LinkTypes
  <2> QED BY <1>0, <1>2, <2>1, <2>2, <2>3 DEF SetPersistent, TaskTypes, LinkTypes,
                                              linkVars, lockVars
<1>3. CASE StartUnload
  <2>1. cancelled' \in SUBSET Task /\ awaited' \in SUBSET Task
    BY <1>0, <1>3 DEF StartUnload, TaskTypes, Running
  <2> QED BY <1>0, <1>3, <1>a, <2>1 DEF StartUnload, TaskTypes, LinkTypes, Goto, Place,
                                        linkVars, lockVars
<1>4. CASE Gathered
  BY <1>0, <1>a, <1>4, HangUpTypes DEF Gathered, LinkTypes, switchVars, Back
<1>5. ASSUME NEW c \in Client, LinkDrops(c) PROVE TaskTypes' /\ LinkTypes'
  BY <1>0, <1>5 DEF LinkDrops, TaskTypes, LinkTypes, lockVars, switchVars, cancelVars
<1> QED BY <1>1, <1>2, <1>3, <1>4, <1>5

LEMMA InitTypes == ASSUME Init PROVE TypeOK
<1>1. pc \in [Task -> Place] /\ then \in [Task -> Back]
  BY DEF Init, Place, Back
<1>2. left \in [Task -> 0..Attempts] /\ toggles \in 0..MaxToggles
  BY BoundAssumption DEF Init
<1> QED BY <1>1, <1>2 DEF Init, TypeOK

(* Type correctness: the link, the locks and the positions of the tasks    *)
(* have the values the code gives them.                                    *)
THEOREM TypeCorrect == Spec => []TypeOK
<1>1. Init => TypeOK
  BY InitTypes
<1>2. TypeOK /\ [Next]_vars => TypeOK'
  <2> SUFFICES ASSUME TypeOK, [Next]_vars PROVE TypeOK'
    OBVIOUS
  <2>1. CASE Next
    BY <2>1, ConnectingTypes, TaskStepTypes, OutsideTypes DEF Next, Step
  <2>2. CASE UNCHANGED vars
    BY <2>2 DEF TypeOK, vars
  <2> QED BY <2>1, <2>2
<1> QED BY <1>1, <1>2, PTL DEF Spec

-----------------------------------------------------------------------------
(* Nothing is opened after the shutdown.                                   *)

(* A task that may still open a link, _connect_lock being passed.          *)
Reconnecting(t) ==
  \/ pc[t] \in {"establish", "notify", "hello", "pair", "retry"}
  \/ HangingUp(t) /\ then[t] = "establish"

Unloading ==
  \/ pc[Unload] \in {"idle", "gather", "done"}
  \/ HangingUp(Unload) /\ then[Unload] = "end"

(* While the coordinator is stopping only tasks that async_shutdown awaits *)
(* may open a link, and it waits until there are none of them.             *)
ShutInv ==
  /\ TypeOK
  /\ Unloading /\ Unload \notin cancelled
  /\ ShutDown => awaited = {}
  /\ stopping => \A t \in Task : Reconnecting(t) => t \in awaited

(* What a step of one task changes of all this.                            *)
Progress(t) ==
  /\ stopping' = stopping /\ cancelled' \subseteq cancelled
  /\ \A u \in Task \ {t} : pc'[u] = pc[u] /\ then'[u] = then[u]
  /\ \/ awaited' = awaited
     \/ awaited' = awaited \ {t} /\ ~Reconnecting(t)'
  /\ stopping /\ Reconnecting(t)' => Reconnecting(t)
  /\ t = Unload => Unloading' /\ pc'[t] # "gather" /\ pc[t] # "gather"

LEMMA ProgressKeeps ==
  ASSUME ShutInv, NEW t \in Task, Progress(t), TypeOK' PROVE ShutInv'
<1>1. Unload \in Task
  BY DEF Task
<1>2. Unloading' /\ Unload \notin cancelled'
  BY <1>1 DEF ShutInv, Progress, Unloading, HangingUp
<1>3. ShutDown' => awaited' = {}
  BY <1>1 DEF ShutInv, Progress, ShutDown
<1>4. ASSUME stopping', NEW u \in Task, Reconnecting(u)' PROVE u \in awaited'
  <2>1. CASE u = t
    BY <1>4, <2>1 DEF ShutInv, Progress
  <2>2. CASE u # t
    <3>1. Reconnecting(u)
      BY <1>4, <2>2 DEF Progress, Reconnecting, HangingUp
    <3> QED BY <1>4, <2>2, <3>1 DEF ShutInv, Progress
  <2> QED BY <2>1, <2>2
<1> QED BY <1>2, <1>3, <1>4 DEF ShutInv

LEMMA ReturnProgress ==
  ASSUME TypeOK, NEW t \in Task, Return(t), stopping' = stopping, pc[t] # "gather"
  PROVE  Progress(t)
BY DEF TypeOK, Return, Progress, Goto, Reconnecting, HangingUp, Unloading

LEMMA HangUpProgress ==
  ASSUME TypeOK, NEW t \in Task, NEW place \in {"end", "failed"},
         HangUp(t, place), stopping' = stopping, pc[t] # "gather",
         t = Unload => place = "end"
  PROVE  Progress(t)
<1>1. CASE client = None
  BY <1>1, ReturnProgress DEF HangUp, Continue
<1>2. CASE client # None
  BY <1>2 DEF TypeOK, HangUp, Progress, Goto, Reconnecting, HangingUp, Unloading, cancelVars
<1> QED BY <1>1, <1>2

LEMMA ContinueProgress ==
  ASSUME TypeOK, Unloading, NEW t \in Task, HangingUp(t), Continue(t, then[t]),
         stopping' = stopping
  PROVE  Progress(t)
<1>1. CASE then[t] \in {"end", "failed"}
  BY <1>1, ReturnProgress DEF Continue, HangingUp
<1>2. CASE then[t] \notin {"end", "failed"}
  BY <1>2 DEF TypeOK, Continue, Progress, Goto, Reconnecting, HangingUp, Unloading,
              cancelVars, Back
<1> QED BY <1>1, <1>2

LEMMA ConnectingProgress ==
  ASSUME ShutInv, NEW t \in Task,
         \/ StopNotified(t) \/ Disconnected(t) \/ Connect(t) \/ Established(t)
         \/ Notified(t) \/ Greeted(t) \/ Unbound(t) \/ AttemptFails(t)
         \/ Retry(t) \/ Paired(t) \/ PairRaises(t)
  PROVE  Progress(t)
<1>0. TypeOK /\ Unloading
  BY DEF ShutInv
<1>1. CASE StopNotified(t)
  <2>1. CASE client = None
    BY <1>0, <1>1, <2>1, ContinueProgress DEF StopNotified, HangingUp, switchVars
  <2>2. CASE client # None
    BY <1>0, <1>1, <2>2 DEF StopNotified, TypeOK, Progress, Goto, Reconnecting, HangingUp,
                            Unloading, switchVars, cancelVars
  <2> QED BY <2>1, <2>2
<1>2. CASE Disconnected(t)
  BY <1>0, <1>2, ContinueProgress DEF Disconnected, HangingUp, switchVars
<1>u. CASE ~StopNotified(t) /\ ~Disconnected(t)
  <2>0. pc[t] \in {"connect", "establish", "notify", "hello", "pair", "retry"}
    BY <1>u DEF Connect, Established, Notified, Greeted, Unbound, AttemptFails, Retry,
                Paired, PairRaises, At
  <2>u. t # Unload
    BY <1>0, <2>0 DEF Unloading, HangingUp
  <2>1. CASE Connect(t)
    BY <1>0, <2>0, <2>u, <2>1 DEF Connect, At, OnlyGoto, Attempt, TypeOK, Progress, Goto,
                                  Reconnecting, HangingUp, switchVars, cancelVars
  <2>2. CASE Established(t) \/ Notified(t) \/ AttemptFails(t) \/ Paired(t)
    BY <1>0, <2>0, <2>u, <2>2 DEF Established, Notified, AttemptFails, Paired, At, TypeOK,
         Progress, Goto, Reconnecting, HangingUp, lockVars, switchVars, cancelVars
  <2>3. CASE Greeted(t) \/ PairRaises(t)
    BY <1>0, <2>0, <2>u, <2>3 DEF Greeted, PairRaises, At, OnlyGoto, TypeOK, Progress,
         Goto, Reconnecting, HangingUp, switchVars, cancelVars
  <2>4. CASE Unbound(t)
    BY <1>0, <2>0, <2>u, <2>4, HangUpProgress DEF Unbound, switchVars
  <2>5. CASE Retry(t)
    BY <1>0, <2>0, <2>u, <2>5 DEF Retry, At, Attempt, TypeOK, Progress, Goto, Reconnecting,
                                  HangingUp, lockVars, switchVars, cancelVars
  <2> QED BY <1>u, <2>1, <2>2, <2>3, <2>4, <2>5
<1> QED BY <1>1, <1>2, <1>u

LEMMA TaskProgress ==
  ASSUME ShutInv, NEW t \in Task,
         \/ Call(t) \/ TakeOpLock(t) \/ OneShot(t) \/ CallService(t)
         \/ WorkDone(t) \/ ResetIdleTimer(t) \/ WorkFails(t) \/ SendAgain(t)
         \/ NextCredential(t) \/ Fail(t) \/ Unwind(t) \/ Suspend(t) \/ Resume(t)
  PROVE  Progress(t)
<1>0. TypeOK /\ Unloading /\ Unload \notin cancelled
  BY DEF ShutInv
<1>u. t # Unload
  BY <1>0, TaskAssumption DEF Unloading, HangingUp, Call, TakeOpLock, OneShot, CallService,
       WorkDone, ResetIdleTimer, WorkFails, SendAgain, NextCredential, Fail, Unwind,
       Suspend, Resume, At, Unload
<1>1. CASE Call(t) \/ WorkFails(t)
  BY <1>0, <1>u, <1>1 DEF Call, WorkFails, OnlyGoto, TypeOK, Progress, Goto, Reconnecting,
                          HangingUp, switchVars, cancelVars
<1>2. CASE TakeOpLock(t) \/ CallService(t) \/ NextCredential(t)
  BY <1>0, <1>u, <1>2 DEF TakeOpLock, CallService, NextCredential, EnsureConnected, TypeOK,
       Progress, Goto, Reconnecting, HangingUp, switchVars, cancelVars
<1>3. CASE OneShot(t) \/ SendAgain(t) \/ Suspend(t)
  BY <1>0, <1>u, <1>3 DEF OneShot, SendAgain, Suspend, TypeOK, Progress, Goto,
       Reconnecting, HangingUp, switchVars, cancelVars
<1>4. CASE WorkDone(t)
  <2>1. pc[t] = "work" /\ stopping' = stopping
    BY <1>4 DEF WorkDone, At, switchVars
  <2> QED BY <1>0, <1>u, <1>4, <2>1, ReturnProgress, HangUpProgress DEF WorkDone
<1>5. CASE Fail(t)
  <2>1. pc[t] = "failed" /\ stopping' = stopping
    BY <1>5 DEF Fail, switchVars
  <2> QED BY <1>0, <1>u, <1>5, <2>1, ReturnProgress, HangUpProgress DEF Fail
<1>6. CASE ResetIdleTimer(t)
  BY <1>0, <1>u, <1>6 DEF ResetIdleTimer, Progress, Reconnecting, HangingUp, switchVars,
                          cancelVars
<1>7. CASE Unwind(t)
  BY <1>0, <1>u, <1>7 DEF Unwind, TypeOK, Progress, Goto, Reconnecting, HangingUp,
                          switchVars
<1>8. CASE Resume(t)
  BY <1>0, <1>u, <1>8, ReturnProgress DEF Resume, At, switchVars
<1> QED BY <1>1, <1>2, <1>3, <1>4, <1>5, <1>6, <1>7, <1>8

LEMMA OutsideShut ==
  ASSUME ShutInv, TypeOK',
         \/ TimerFires \/ (\E on \in BOOLEAN : SetPersistent(on))
         \/ StartUnload \/ Gathered \/ (\E c \in Client : LinkDrops(c))
  PROVE  ShutInv'
<1>0. TypeOK /\ Unloading /\ Unload \notin cancelled
  BY DEF ShutInv
<1>a. IdleTimer \in Task /\ Unload \in Task /\ IdleTimer # Unload
  BY DEF Task, IdleTimer, Unload
<1>1. CASE TimerFires
  <2>1. CASE HangUp(IdleTimer, "end")
    <3>1. Progress(IdleTimer)
      BY <1>0, <1>a, <1>1, <2>1, HangUpProgress DEF TimerFires, switchVars
    <3> QED BY <1>a, <3>1, ProgressKeeps
  <2>2. CASE ~HangUp(IdleTimer, "end")
    BY <1>1, <2>2 DEF TimerFires, ShutInv, Unloading, HangingUp, ShutDown, Reconnecting,
                      switchVars, cancelVars
  <2> QED BY <2>1, <2>2
<1>2. ASSUME NEW on \in BOOLEAN, SetPersistent(on) PROVE ShutInv'
  <2>1. Unload \notin cancelled'
    BY <1>0, <1>2, TaskAssumption DEF SetPersistent, Unload
  <2> QED BY <1>2, <2>1 DEF SetPersistent, ShutInv, Unloading, HangingUp, ShutDown,
                            Reconnecting
<1>3. CASE StartUnload
  <2>1. Unload \notin cancelled'
    <3>1. ~Connecting(Unload)
      BY <1>3 DEF StartUnload, Connecting
    <3>2. Unload \notin Operation \cup {None} /\ Unload # KeepAlive
      BY TaskAssumption DEF Unload
    <3> QED BY <1>0, <1>3, <3>1, <3>2 DEF StartUnload
  <2>2. pc' = [pc EXCEPT ![Unload] = "gather"] /\ then' = then
        /\ awaited' = {t \in Task : Connecting(t)}
    BY <1>3 DEF StartUnload, Goto
  <2>3. pc'[Unload] = "gather"
    BY <1>0, <1>a, <2>2 DEF TypeOK
  <2>4. ASSUME NEW t \in Task, Reconnecting(t)' PROVE t \in awaited'
    <3>1. t # Unload
      BY <2>3, <2>4 DEF Reconnecting, HangingUp
    <3>2. Reconnecting(t)
      BY <1>0, <2>2, <2>4, <3>1 DEF TypeOK, Reconnecting, HangingUp
    <3> QED BY <2>2, <3>2 DEF Reconnecting, HangingUp, Connecting
  <2> QED BY <2>1, <2>3, <2>4 DEF ShutInv, Unloading, ShutDown
<1>4. CASE Gathered
  <2>1. pc[Unload] = "gather" /\ awaited = {} /\ HangUp(Unload, "end")
        /\ stopping' = stopping
    BY <1>4 DEF Gathered, switchVars
  <2>2. CASE client = None
    <3>1. Return(Unload)
      BY <2>1, <2>2 DEF HangUp, Continue
    <3>2. /\ pc' = [pc EXCEPT ![Unload] = "done"]
          /\ then' = [then EXCEPT ![Unload] = "end"]
          /\ awaited' = {} /\ cancelled' \subseteq cancelled
      BY <2>1, <3>1 DEF Return, Goto
    <3> QED BY <1>0, <1>a, <2>1, <3>2 DEF TypeOK, ShutInv, Unloading, HangingUp, ShutDown,
                                          Reconnecting
  <2>3. CASE client # None
    <3>1. /\ pc' = [pc EXCEPT ![Unload] = "stop notify"]
          /\ then' = [then EXCEPT ![Unload] = "end"]
          /\ awaited' = {} /\ cancelled' = cancelled
      BY <2>1, <2>3 DEF HangUp, Goto, cancelVars
    <3> QED BY <1>0, <1>a, <2>1, <3>1 DEF TypeOK, ShutInv, Unloading, HangingUp, ShutDown,
                                          Reconnecting
  <2> QED BY <2>2, <2>3
<1>5. ASSUME NEW c \in Client, LinkDrops(c) PROVE ShutInv'
  BY <1>5 DEF LinkDrops, ShutInv, Unloading, HangingUp, ShutDown, Reconnecting, switchVars,
              cancelVars
<1> QED BY <1>1, <1>2, <1>3, <1>4, <1>5

LEMMA ShutInvariant == Spec => []ShutInv
<1>1. Init => ShutInv
  <2> SUFFICES ASSUME Init, TypeOK PROVE ShutInv
    BY InitTypes
  <2> QED BY DEF Init, ShutInv, Unloading, ShutDown, Task
<1>2. ShutInv /\ TypeOK' /\ [Next]_vars => ShutInv'
  <2> SUFFICES ASSUME ShutInv, TypeOK', [Next]_vars PROVE ShutInv'
    OBVIOUS
  <2>1. CASE Next
    <3>1. ASSUME NEW t \in Task, Progress(t) PROVE ShutInv'
      BY <3>1, ProgressKeeps
    <3> QED BY <2>1, <3>1, ConnectingProgress, TaskProgress, OutsideShut DEF Next, Step
  <2>2. CASE UNCHANGED vars
    BY <2>2 DEF vars, ShutInv, Unloading, HangingUp, ShutDown, Reconnecting
  <2> QED BY <2>1, <2>2
<1> QED BY <1>1, <1>2, TypeCorrect, PTL DEF Spec

-----------------------------------------------------------------------------

LEMMA HangUpShrinks ==
  ASSUME NEW t, NEW place, HangUp(t, place) PROVE open' = open
BY DEF HangUp, linkVars

(* Only a new link adds to the open ones.                                  *)
LEMMA OpenShrinks ==
  ASSUME Next, ~\E t \in Task : Established(t) PROVE open' \subseteq open
<1>1. ASSUME NEW t \in Task,
             \/ StopNotified(t) \/ Disconnected(t) \/ Connect(t) \/ Notified(t)
             \/ Greeted(t) \/ Unbound(t) \/ AttemptFails(t) \/ Retry(t) \/ Paired(t)
             \/ PairRaises(t)
      PROVE  open' \subseteq open
  BY <1>1, HangUpShrinks DEF StopNotified, Disconnected, Connect, Notified, Greeted,
       Unbound, AttemptFails, Retry, Paired, PairRaises, OnlyGoto, Attempt, linkVars
<1>2. ASSUME NEW t \in Task,
             \/ Call(t) \/ TakeOpLock(t) \/ OneShot(t) \/ CallService(t)
             \/ WorkDone(t) \/ ResetIdleTimer(t) \/ WorkFails(t) \/ SendAgain(t)
             \/ NextCredential(t) \/ Fail(t) \/ Unwind(t) \/ Suspend(t) \/ Resume(t)
      PROVE  open' \subseteq open
  BY <1>2, HangUpShrinks DEF Call, TakeOpLock, OneShot, CallService, WorkDone,
       ResetIdleTimer, WorkFails, SendAgain, NextCredential, Fail, Unwind, Suspend, Resume,
       OnlyGoto, linkVars
<1>3. ASSUME \/ TimerFires \/ (\E on \in BOOLEAN : SetPersistent(on))
             \/ StartUnload \/ Gathered \/ (\E c \in Client : LinkDrops(c))
      PROVE  open' \subseteq open
  BY <1>3, HangUpShrinks DEF TimerFires, SetPersistent, StartUnload, Gathered, LinkDrops,
       linkVars
<1> QED BY <1>1, <1>2, <1>3 DEF Next, Step

(* Once async_shutdown has gathered the connecting tasks no link is opened *)
(* any more: those that come later find _stopped set, those that were in   *)
(* an attempt are over.                                                    *)
THEOREM NothingAfterShutdownHolds == Spec => NothingAfterShutdown
<1>1. ShutInv /\ [Next]_vars => [ShutDown => open' \subseteq open]_vars
  <2> SUFFICES ASSUME ShutInv, Next, ShutDown PROVE open' \subseteq open
    BY DEF vars
  <2>1. ~\E t \in Task : Established(t)
    BY DEF ShutInv, ShutDown, Established, At, Reconnecting
  <2> QED BY <2>1, OpenShrinks
<1> QED BY <1>1, ShutInvariant, PTL DEF Spec, NothingAfterShutdown

-----------------------------------------------------------------------------
(* is_connected has a link behind it, or something will clear it.          *)

(* A task whose next steps clear is_connected, unless it is cancelled or   *)
(* the lock answers it.                                                    *)
Clearing(t) == /\ t \notin cancelled
               /\ pc[t] \in {"hello", "retry"} \/ HangingUp(t)

(* A cancelled task clears nothing; async_shutdown does so once it has     *)
(* cancelled them all, and a keep-alive that is switched off leaves the    *)
(* timer.                                                                  *)
BackInv ==
  /\ stopping <=> pc[Unload] # "idle"
  /\ pc[Unload] = "done" => ~connected
  /\ ~stopping /\ connected =>
       open # {} \/ timer \/ persistent \/ \E t \in Task : Clearing(t)
  /\ ~stopping => cancelled \subseteq {KeepAlive}

(* What a step of one task changes of all this.                            *)
KeepsBack(t) ==
  /\ stopping' = stopping /\ persistent' = persistent /\ cancelled' \subseteq cancelled
  /\ \A u \in Task \ {t} : pc'[u] = pc[u]
  /\ t = Unload => /\ pc[t] # "idle" /\ pc'[t] # "idle"
                   /\ pc'[t] = "done" => ~connected'
  /\ connected' => connected \/ pc[t] = "notify"
  /\ \/ ~connected' \/ open' # {} \/ timer' \/ persistent' \/ Clearing(t)'
     \/ ~Clearing(t) /\ open' = open /\ timer' = timer /\ connected' = connected

LEMMA KeepsBackInv ==
  ASSUME ShutInv, BackInv, NEW t \in Task, KeepsBack(t) PROVE BackInv'
<1>1. Unload \in Task
  BY DEF Task
<1>2. stopping' <=> pc'[Unload] # "idle"
  BY <1>1 DEF BackInv, KeepsBack
<1>3. ASSUME pc'[Unload] = "done" PROVE ~connected'
  <2>1. CASE t = Unload
    BY <1>3, <2>1 DEF KeepsBack
  <2>2. CASE t # Unload
    <3>1. pc[Unload] = "done" /\ ~connected /\ stopping
      BY <1>1, <1>3, <2>2 DEF BackInv, KeepsBack
    <3>2. ~Reconnecting(t)
      BY <3>1 DEF ShutInv, ShutDown
    <3>3. pc[t] # "notify"
      BY <3>2 DEF Reconnecting
    <3> QED BY <3>1, <3>3 DEF KeepsBack
  <2> QED BY <2>1, <2>2
<1>4. ASSUME ~stopping', connected', open' = {}, ~timer', ~persistent'
      PROVE  \E u \in Task : Clearing(u)'
  <2>1. CASE Clearing(t)'
    BY <2>1
  <2>2. CASE ~Clearing(t)'
    <3>0. /\ stopping' = stopping /\ persistent' = persistent /\ ~Clearing(t)
          /\ open' = open /\ timer' = timer /\ connected' = connected
      BY <1>4, <2>2 DEF KeepsBack
    <3>1. open = {} /\ ~timer /\ connected /\ ~stopping /\ ~persistent
      BY <1>4, <3>0, Zenon
    <3>2. PICK u \in Task : Clearing(u)
      BY <3>1 DEF BackInv
    <3>3. u # t
      BY <3>0, <3>2
    <3>4. pc'[u] = pc[u] /\ u \notin cancelled'
      BY <3>2, <3>3 DEF KeepsBack, Clearing
    <3> QED BY <3>2, <3>4 DEF Clearing, HangingUp
  <2> QED BY <2>1, <2>2
<1>5. ~stopping' => cancelled' \subseteq {KeepAlive}
  BY DEF BackInv, KeepsBack
<1> QED BY <1>2, <1>3, <1>4, <1>5 DEF BackInv

(* A task that is over has cleared is_connected, or was not about to.      *)
LEMMA ReturnKeepsBack ==
  ASSUME TypeOK, NEW t \in Task, Return(t),
         stopping' = stopping, persistent' = persistent,
         t = Unload => pc[t] # "idle" /\ ~connected',
         connected' => connected,
         \/ ~connected' \/ timer' \/ persistent'
         \/ ~Clearing(t) /\ open' = open /\ timer' = timer /\ connected' = connected
  PROVE  KeepsBack(t)
BY DEF TypeOK, Return, Goto, KeepsBack

LEMMA HangUpKeepsBack ==
  ASSUME TypeOK, NEW t \in Task, NEW place \in {"end", "failed"}, HangUp(t, place),
         stopping' = stopping, persistent' = persistent, pc[t] # "idle",
         ~Clearing(t) \/ t \notin cancelled, timer' = timer
  PROVE  KeepsBack(t)
<1>1. CASE client = None
  BY <1>1, ReturnKeepsBack DEF HangUp, Continue
<1>2. CASE client # None
  <2>1. /\ pc' = [pc EXCEPT ![t] = "stop notify"] /\ cancelled' = cancelled
        /\ open' = open /\ connected' = connected
    BY <1>2 DEF HangUp, Goto, linkVars, cancelVars
  <2> QED BY <2>1 DEF TypeOK, KeepsBack, Clearing, HangingUp
<1> QED BY <1>1, <1>2

(* A hang-up that returns has cleared is_connected.                        *)
LEMMA ContinueKeepsBack ==
  ASSUME TypeOK, NEW t \in Task, NEW place, Continue(t, place),
         stopping' = stopping, persistent' = persistent, pc[t] # "idle",
         place # "idle", place # "done" \/ t # Unload, ~connected'
  PROVE  KeepsBack(t)
<1>1. CASE place \in {"end", "failed"}
  BY <1>1, ReturnKeepsBack DEF Continue
<1>2. CASE place \notin {"end", "failed"}
  BY <1>2 DEF Continue, Goto, TypeOK, KeepsBack, cancelVars
<1> QED BY <1>1, <1>2

(* The hand-shake that the lock has answered has a link.                   *)
LEMMA AnsweredIsBacked ==
  ASSUME Answered, connected PROVE open # {}
BY DEF Answered

(* A step of a task that leaves the link and the timer alone.              *)
LEMMA MoveKeepsBack ==
  ASSUME TypeOK, NEW t \in Task, t # Unload, NEW place, Goto(t, place), ~Clearing(t),
         stopping' = stopping, persistent' = persistent, cancelled' = cancelled,
         timer' = timer, UNCHANGED linkVars
  PROVE  KeepsBack(t)
BY DEF TypeOK, Goto, KeepsBack, linkVars

LEMMA ConnectingKeepsBack ==
  ASSUME ShutInv, BackInv, NEW t \in Task,
         \/ StopNotified(t) \/ Disconnected(t) \/ Connect(t) \/ Established(t)
         \/ Notified(t) \/ Greeted(t) \/ Unbound(t) \/ AttemptFails(t)
         \/ Retry(t) \/ Paired(t) \/ PairRaises(t)
  PROVE  KeepsBack(t)
<1>0. TypeOK /\ Unloading
  BY DEF ShutInv
<1>s. stopping' = stopping /\ persistent' = persistent /\ timer' = timer
  BY DEF StopNotified, Disconnected, Connect, Established, Notified, Greeted, Unbound,
         AttemptFails, Retry, Paired, PairRaises, switchVars
<1>b. then[t] \in Back
  BY <1>0 DEF TypeOK
<1>1. CASE StopNotified(t)
  <2>1. CASE client = None
    BY <1>0, <1>s, <1>b, <1>1, <2>1, ContinueKeepsBack DEF StopNotified, Back
  <2>2. CASE client # None
    <3>1. /\ pc' = [pc EXCEPT ![t] = "disconnect"] /\ cancelled' = cancelled
          /\ pc[t] = "stop notify" /\ t \notin cancelled /\ connected' = connected
      BY <1>1, <2>2 DEF StopNotified, Goto, linkVars, cancelVars
    <3> QED BY <1>0, <1>s, <3>1 DEF TypeOK, KeepsBack, Clearing, HangingUp
  <2> QED BY <2>1, <2>2
<1>2. CASE Disconnected(t)
  BY <1>0, <1>s, <1>b, <1>2, ContinueKeepsBack DEF Disconnected, Back
<1>u. CASE ~StopNotified(t) /\ ~Disconnected(t)
  <2>0. /\ pc[t] \in {"connect", "establish", "notify", "hello", "pair", "retry"}
        /\ t \notin cancelled
    BY <1>u DEF Connect, Established, Notified, Greeted, Unbound, AttemptFails, Retry,
                Paired, PairRaises, At
  <2>u. t # Unload
    BY <1>0, <2>0 DEF Unloading, HangingUp
  <2>1. CASE Connect(t)
    BY <1>0, <1>s, <2>u, <2>1 DEF Connect, At, OnlyGoto, Attempt, TypeOK, KeepsBack, Goto,
                                  Clearing, HangingUp, linkVars, cancelVars
  <2>2. CASE Established(t)
    BY <1>0, <1>s, <2>u, <2>2 DEF Established, At, TypeOK, KeepsBack, Goto, Clearing,
                                  HangingUp, cancelVars
  <2>3. CASE Notified(t)
    BY <1>0, <1>s, <2>0, <2>u, <2>3 DEF Notified, At, TypeOK, KeepsBack, Goto, Clearing,
         cancelVars
  <2>8. CASE AttemptFails(t)
    <3>1. /\ pc' = [pc EXCEPT ![t] = "retry"] /\ cancelled' = cancelled
          /\ connected' = connected
      BY <2>8 DEF AttemptFails, Goto, linkVars, cancelVars
    <3> QED BY <1>0, <1>s, <2>0, <2>u, <3>1 DEF TypeOK, KeepsBack, Clearing
  <2>4. CASE Paired(t) \/ PairRaises(t)
    <3>1. ~Clearing(t) /\ UNCHANGED linkVars /\ cancelled' = cancelled
      BY <2>4 DEF Paired, PairRaises, At, OnlyGoto, Clearing, HangingUp, cancelVars
    <3> QED BY <1>0, <1>s, <2>u, <2>4, <3>1, MoveKeepsBack DEF Paired, PairRaises, OnlyGoto
  <2>5. CASE Greeted(t)
    <3>1. connected' => open' # {}
      BY <2>5, AnsweredIsBacked DEF Greeted, OnlyGoto, linkVars
    <3> QED BY <1>0, <1>s, <2>u, <2>5, <3>1 DEF Greeted, OnlyGoto, TypeOK, KeepsBack, Goto,
                                            linkVars, cancelVars
  <2>6. CASE Unbound(t)
    BY <1>0, <1>s, <2>0, <2>6, HangUpKeepsBack DEF Unbound
  <2>7. CASE Retry(t)
    BY <1>0, <1>s, <2>0, <2>u, <2>7 DEF Retry, At, Attempt, TypeOK, KeepsBack, Goto,
         Clearing, HangingUp, linkVars, cancelVars
  <2> QED BY <1>u, <2>1, <2>2, <2>3, <2>4, <2>5, <2>6, <2>7, <2>8
<1> QED BY <1>1, <1>2, <1>u

LEMMA TaskKeepsBack ==
  ASSUME ShutInv, BackInv, NEW t \in Task,
         \/ Call(t) \/ TakeOpLock(t) \/ OneShot(t) \/ CallService(t)
         \/ WorkDone(t) \/ ResetIdleTimer(t) \/ WorkFails(t) \/ SendAgain(t)
         \/ NextCredential(t) \/ Fail(t) \/ Unwind(t) \/ Suspend(t) \/ Resume(t)
  PROVE  KeepsBack(t)
<1>0. TypeOK /\ Unloading /\ Unload \notin cancelled
  BY DEF ShutInv
<1>u. t # Unload
  BY <1>0, TaskAssumption DEF Unloading, HangingUp, Call, TakeOpLock, OneShot, CallService,
       WorkDone, ResetIdleTimer, WorkFails, SendAgain, NextCredential, Fail, Unwind,
       Suspend, Resume, At, Unload
<1>s. stopping' = stopping /\ persistent' = persistent
  BY DEF Call, TakeOpLock, OneShot, CallService, WorkDone, ResetIdleTimer, WorkFails,
         SendAgain, NextCredential, Fail, Unwind, Suspend, Resume, switchVars
<1>1. CASE Call(t) \/ WorkFails(t)
  <2>1. ~Clearing(t) /\ UNCHANGED linkVars /\ cancelled' = cancelled /\ timer' = timer
    BY <1>1 DEF Call, WorkFails, At, OnlyGoto, Clearing, HangingUp, cancelVars
  <2> QED BY <1>0, <1>s, <1>u, <1>1, <2>1, MoveKeepsBack DEF Call, WorkFails, OnlyGoto
<1>2. CASE TakeOpLock(t) \/ CallService(t) \/ NextCredential(t)
  <2>1. ~Clearing(t) /\ UNCHANGED linkVars /\ cancelled' = cancelled /\ timer' = timer
    BY <1>2 DEF TakeOpLock, CallService, NextCredential, At, Clearing, HangingUp,
                cancelVars
  <2> QED BY <1>0, <1>s, <1>u, <1>2, <2>1, MoveKeepsBack
          DEF TakeOpLock, CallService, NextCredential, EnsureConnected
<1>3. CASE OneShot(t)
  <2>1. ~Clearing(t) /\ UNCHANGED linkVars /\ cancelled' = cancelled /\ timer' = timer
    BY <1>3 DEF OneShot, At, Clearing, HangingUp, cancelVars
  <2> QED BY <1>0, <1>s, <1>u, <1>3, <2>1, MoveKeepsBack DEF OneShot
<1>10. CASE SendAgain(t)
  BY <1>0, <1>s, <1>u, <1>10 DEF SendAgain, TypeOK, KeepsBack, Goto, cancelVars
<1>4. CASE Suspend(t)
  <2>1. CASE client = None
    BY <1>0, <1>s, <1>u, <1>4, <2>1 DEF Suspend, At, TypeOK, KeepsBack, Goto, cancelVars
  <2>2. CASE client # None
    <3>1. /\ pc' = [pc EXCEPT ![t] = "stop notify"] /\ cancelled' = cancelled
          /\ t \notin cancelled /\ connected' = connected
      BY <1>4, <2>2 DEF Suspend, At, Goto, linkVars, cancelVars
    <3> QED BY <1>0, <1>s, <1>u, <3>1 DEF TypeOK, KeepsBack, Clearing, HangingUp
  <2> QED BY <2>1, <2>2
<1>5. CASE WorkDone(t)
  <2>0. pc[t] = "work" /\ ~Clearing(t)
    BY <1>5 DEF WorkDone, At, Clearing, HangingUp
  <2>1. CASE t \in Operation \ {KeepAlive} /\ timer' = ~persistent /\ Return(t)
             /\ UNCHANGED linkVars
    <3>1. timer' \/ persistent'
      BY <1>s, <2>1
    <3> QED BY <1>0, <1>s, <1>u, <2>0, <2>1, <3>1, ReturnKeepsBack DEF linkVars
  <2>2. CASE HangUp(t, "end") /\ UNCHANGED timer
    BY <1>0, <1>s, <2>0, <2>2, HangUpKeepsBack
  <2>3. CASE Return(t) /\ UNCHANGED <<linkVars, timer>>
    BY <1>0, <1>s, <1>u, <2>0, <2>3, ReturnKeepsBack DEF linkVars
  <2> QED BY <1>5, <2>1, <2>2, <2>3 DEF WorkDone
<1>6. CASE ResetIdleTimer(t)
  <2>1. timer' \/ persistent'
    BY <1>s, <1>6 DEF ResetIdleTimer
  <2> QED BY <1>s, <1>u, <1>6, <2>1 DEF ResetIdleTimer, KeepsBack, linkVars, cancelVars
<1>7. CASE Fail(t)
  <2>0. pc[t] = "failed" /\ ~Clearing(t) /\ timer' = timer
    BY <1>7 DEF Fail, Clearing, HangingUp
  <2>1. CASE Return(t) /\ UNCHANGED linkVars
    BY <1>0, <1>s, <1>u, <2>0, <2>1, ReturnKeepsBack DEF linkVars
  <2>2. CASE HangUp(t, "end")
    BY <1>0, <1>s, <2>0, <2>2, HangUpKeepsBack
  <2> QED BY <1>7, <2>1, <2>2 DEF Fail
<1>8. CASE Unwind(t)
  BY <1>0, <1>s, <1>u, <1>8 DEF Unwind, TypeOK, KeepsBack, Goto, Clearing, linkVars
<1>9. CASE Resume(t)
  <2>1. pc[t] = "suspended" /\ ~Clearing(t) /\ Return(t) /\ UNCHANGED linkVars /\ timer' = timer
    BY <1>9 DEF Resume, At, Clearing, HangingUp
  <2> QED BY <1>0, <1>s, <1>u, <2>1, ReturnKeepsBack DEF linkVars
<1> QED BY <1>1, <1>2, <1>3, <1>4, <1>5, <1>6, <1>7, <1>8, <1>9, <1>10

LEMMA OutsideBack ==
  ASSUME ShutInv, BackInv,
         \/ TimerFires \/ (\E on \in BOOLEAN : SetPersistent(on))
         \/ StartUnload \/ Gathered \/ (\E c \in Client : LinkDrops(c))
  PROVE  BackInv'
<1>0. TypeOK /\ Unloading /\ Unload \notin cancelled
  BY DEF ShutInv
<1>a. IdleTimer \in Task /\ Unload \in Task /\ IdleTimer # Unload /\ IdleTimer # KeepAlive
  BY TaskAssumption DEF Task, IdleTimer, Unload
<1>1. CASE TimerFires
  <2>0. /\ stopping' = stopping /\ persistent' = persistent
        /\ pc[IdleTimer] = "idle"
    BY <1>1 DEF TimerFires, switchVars
  <2>1. CASE HangUp(IdleTimer, "end") /\ client = None
    <3>1. /\ ~connected' /\ pc' = [pc EXCEPT ![IdleTimer] = "idle"]
          /\ cancelled' \subseteq cancelled
      BY <1>a, <2>1 DEF HangUp, Continue, Return, Goto
    <3> QED BY <1>0, <1>a, <2>0, <3>1 DEF TypeOK, BackInv
  <2>2. CASE HangUp(IdleTimer, "end") /\ client # None
    <3>1. /\ pc' = [pc EXCEPT ![IdleTimer] = "stop notify"] /\ cancelled' = cancelled
          /\ connected' = connected
      BY <2>2 DEF HangUp, Goto, linkVars, cancelVars
    <3>2. pc'[IdleTimer] = "stop notify" /\ pc'[Unload] = pc[Unload]
      BY <1>0, <1>a, <3>1 DEF TypeOK
    <3>3. ~stopping => Clearing(IdleTimer)'
      BY <1>a, <3>1, <3>2 DEF BackInv, Clearing, HangingUp
    <3> QED BY <1>a, <2>0, <3>1, <3>2, <3>3 DEF BackInv
  <2>3. CASE /\ ~(connected /\ ~persistent)
             /\ UNCHANGED <<linkVars, lockVars, cancelVars, pc, at, then, left, again>>
    <3>1. /\ connected' = connected /\ cancelled' = cancelled /\ pc' = pc
      BY <2>3 DEF linkVars, cancelVars
    <3>2. connected' => persistent'
      BY <2>0, <2>3, <3>1, Zenon
    <3> QED BY <2>0, <3>1, <3>2 DEF BackInv
  <2> QED BY <1>1, <2>1, <2>2, <2>3 DEF TimerFires
<1>2. ASSUME NEW on \in BOOLEAN, SetPersistent(on) PROVE BackInv'
  <2>1. /\ stopping' = stopping /\ connected' = connected /\ pc' = pc
    BY <1>2 DEF SetPersistent, linkVars
  <2>2. connected' => timer' \/ persistent'
    BY <1>2, <2>1, Zenon DEF SetPersistent
  <2>3. cancelled' \subseteq cancelled \cup {KeepAlive}
    BY <1>2 DEF SetPersistent
  <2> QED BY <2>1, <2>2, <2>3 DEF BackInv
<1>3. CASE StartUnload
  <2>1. pc' = [pc EXCEPT ![Unload] = "gather"] /\ stopping'
    BY <1>3 DEF StartUnload, Goto
  <2> QED BY <1>0, <1>a, <2>1 DEF TypeOK, BackInv
<1>4. CASE Gathered
  <2>1. /\ pc[Unload] = "gather" /\ HangUp(Unload, "end") /\ ~Clearing(Unload)
        /\ stopping' = stopping /\ persistent' = persistent /\ timer' = timer
    BY <1>4 DEF Gathered, switchVars, Clearing, HangingUp
  <2>2. KeepsBack(Unload)
    BY <1>0, <1>a, <2>1, HangUpKeepsBack
  <2> QED BY <1>a, <2>2, KeepsBackInv
<1>5. ASSUME NEW c \in Client, LinkDrops(c) PROVE BackInv'
  BY <1>5 DEF LinkDrops, BackInv, switchVars, cancelVars
<1> QED BY <1>1, <1>2, <1>3, <1>4, <1>5

LEMMA BackInvariant == Spec => []BackInv
<1>1. Init => BackInv
  <2> SUFFICES ASSUME Init PROVE BackInv
    OBVIOUS
  <2> QED BY DEF Init, BackInv, Task
<1>2. ShutInv /\ BackInv /\ [Next]_vars => BackInv'
  <2> SUFFICES ASSUME ShutInv, BackInv, [Next]_vars PROVE BackInv'
    OBVIOUS
  <2>1. CASE Next
    <3>1. ASSUME NEW t \in Task, KeepsBack(t) PROVE BackInv'
      BY <3>1, KeepsBackInv
    <3> QED BY <2>1, <3>1, ConnectingKeepsBack, TaskKeepsBack, OutsideBack DEF Next, Step
  <2>2. CASE UNCHANGED vars
    BY <2>2 DEF vars, BackInv, Clearing, HangingUp
  <2> QED BY <2>1, <2>2
<1> QED BY <1>1, <1>2, ShutInvariant, PTL DEF Spec

(* is_connected without a link behind it, which would keep every task from *)
(* connecting, does not outlive the tasks that connect and hang up, unless *)
(* the idle timer is set or the connection persistent.                     *)
THEOREM ConnectedIsBackedHolds == Spec => []ConnectedIsBacked
<1>1. ShutInv /\ BackInv => ConnectedIsBacked
  <2> SUFFICES ASSUME ShutInv, BackInv, Quiet, connected
               PROVE  open # {} \/ timer \/ persistent
    BY DEF ConnectedIsBacked
  <2>1. Unload \in Task
    BY DEF Task
  <2>2. pc[Unload] \in {"idle", "done"}
    BY <2>1 DEF Quiet, ShutInv, Unloading
  <2>3. ~stopping
    BY <2>2 DEF BackInv
  <2>4. ASSUME NEW t \in Task PROVE ~Clearing(t)
    BY DEF Quiet, Clearing, Connecting
  <2> QED BY <2>3, <2>4 DEF BackInv
<1> QED BY <1>1, ShutInvariant, BackInvariant, PTL

=============================================================================
