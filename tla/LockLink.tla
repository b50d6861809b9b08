------------------------------ MODULE LockLink ------------------------------
(***************************************************************************)
(* The Bluetooth link of one lock: connecting and hanging up               *)
(* (ble_session.py), and the tasks of the coordinator, the services, the   *)
(* activation and the entry that do so (coordinator.py, services.py,       *)
(* activation.py, __init__.py).                                            *)
(*                                                                         *)
(* Connecting is serialised by _connect_lock, operations of the            *)
(* coordinator by _op_lock; hanging up is serialised by nothing, and most  *)
(* credential services take no _op_lock.  A step is what a task does       *)
(* between two awaits; an await ends at any time, well or with an          *)
(* exception.  The lock accepts one connection, may end it at any time,    *)
(* and its end clears is_connected (_on_disconnect), whichever client it   *)
(* was.  Requests, replies and reports on the link are left out.           *)
(***************************************************************************)
EXTENDS Naturals

CONSTANTS
  Operation,  \* tasks under _op_lock: sweep, unlock, event session, ...
  KeepAlive,  \* the keep-alive task, one of them, or None
  Service,    \* credential services that do not take _op_lock
  Several,    \* those of them for several credentials
  Suspender,  \* activation and route changes: hold _op_lock, hang up, go on
  Client,     \* Bluetooth clients; one that is not referred to is made anew
  None,
  Attempts,   \* 3: attempts of async_connect
  MaxToggles  \* bound: changes of the persistent connection

ASSUME TaskAssumption ==
  /\ KeepAlive \in Operation \cup {None}
  /\ Operation \cap Service = {} /\ Several \subseteq Service
  /\ Suspender \cap (Operation \cup Service) = {}
  /\ None \notin Client \cup Operation \cup Service \cup Suspender
                \cup {"idle timer", "unload"}
  /\ {"idle timer", "unload"} \cap (Operation \cup Service \cup Suspender) = {}
ASSUME BoundAssumption == Attempts \in Nat \ {0} /\ MaxToggles \in Nat

VARIABLES
  open,       \* clients with a connection to the lock
  client,     \* _client
  connected,  \* is_connected
  connLock,   \* holder of _connect_lock
  opLock,     \* holder of _op_lock
  timer,      \* _idle_timer is set
  persistent, \* _persistent_connection
  toggles,
  stopping,   \* _stopping of the coordinator and _stopped of the session
  cancelled,  \* tasks that raise CancelledError at their await
  awaited,    \* tasks that async_shutdown gathers
  pc,         \* where each task awaits
  at,         \* the client whose end or subscription a task awaits
  then,       \* where async_disconnect returns to
  left,       \* attempts left
  again       \* operations that do not connect again

linkVars == <<open, client, connected>>
lockVars == <<connLock, opLock>>
switchVars == <<persistent, toggles, stopping>>
cancelVars == <<cancelled, awaited>>
vars == <<open, client, connected, connLock, opLock, timer, persistent, toggles,
          stopping, cancelled, awaited, pc, at, then, left, again>>

-----------------------------------------------------------------------------

IdleTimer == "idle timer"
Unload    == "unload"
Task == Operation \cup Service \cup Suspender \cup {IdleTimer, Unload}

(* In _async_connect_tracked, and so in _connection_tasks.                 *)
Connecting(t) ==
  \/ pc[t] \in {"connect", "establish", "notify", "hello", "pair", "retry"}
  \/ pc[t] \in {"stop notify", "disconnect"} /\ then[t] \in {"establish", "failed"}
HangingUp(t) == pc[t] \in {"stop notify", "disconnect"}

(* The awaits of a task, and where async_disconnect returns to.            *)
Place == {"idle", "op lock", "connect", "stop notify", "disconnect", "establish",
          "notify", "hello", "pair", "retry", "work", "failed", "suspended",
          "gather", "done"}
Back  == {"establish", "failed", "suspended", "end"}

TypeOK ==
  /\ open \in SUBSET Client /\ client \in Client \cup {None}
  /\ connected \in BOOLEAN
  /\ connLock \in Task \cup {None} /\ opLock \in Task \cup {None}
  /\ timer \in BOOLEAN /\ persistent \in BOOLEAN /\ stopping \in BOOLEAN
  /\ toggles \in 0..MaxToggles
  /\ cancelled \in SUBSET Task /\ awaited \in SUBSET Task
  /\ pc \in [Task -> Place]
  /\ at \in [Task -> Client \cup {None}]
  /\ then \in [Task -> Back]
  /\ left \in [Task -> 0..Attempts]
  /\ again \in SUBSET Task

Init ==
  /\ open = {} /\ client = None /\ connected = FALSE
  /\ connLock = None /\ opLock = None /\ timer = FALSE
  /\ persistent = FALSE /\ toggles = 0 /\ stopping = FALSE
  /\ cancelled = {} /\ awaited = {}
  /\ pc = [t \in Task |-> "idle"] /\ at = [t \in Task |-> None]
  /\ then = [t \in Task |-> "end"] /\ left = [t \in Task |-> 0]
  /\ again = {}

-----------------------------------------------------------------------------

Goto(t, place) == pc' = [pc EXCEPT ![t] = place]
Free(lock, t)  == IF lock = t THEN None ELSE lock

(* _async_ensure_connected up to its first await.                          *)
EnsureConnected(t) ==
  /\ Goto(t, IF stopping THEN "failed" ELSE IF connected THEN "work" ELSE "connect")
  /\ left' = [left EXCEPT ![t] = Attempts - 1]

(* A task is over: it gives up its locks, and async_shutdown may go on.    *)
Return(t) ==
  /\ Goto(t, IF t = Unload THEN "done" ELSE "idle")
  /\ at' = [at EXCEPT ![t] = None] /\ then' = [then EXCEPT ![t] = "end"]
  /\ left' = [left EXCEPT ![t] = 0] /\ again' = again \ {t}
  /\ cancelled' = cancelled \ {t} /\ awaited' = awaited \ {t}
  /\ connLock' = Free(connLock, t) /\ opLock' = Free(opLock, t)

-----------------------------------------------------------------------------
(* Hanging up (async_disconnect).  It reads _client anew after each await. *)

(* "failed" is the end as well: a hang-up that follows finds no client.    *)
Continue(t, place) ==
  IF place \in {"end", "failed"} THEN Return(t)
  ELSE /\ Goto(t, place) /\ at' = [at EXCEPT ![t] = None]
       /\ UNCHANGED <<lockVars, cancelVars, then, left, again>>

(* Its start; a task that hangs up at its end has left _connect_lock.      *)
HangUp(t, place) ==
  IF client = None
  THEN /\ connected' = FALSE /\ Continue(t, place)
       /\ UNCHANGED <<open, client>>
  ELSE /\ Goto(t, "stop notify") /\ at' = [at EXCEPT ![t] = client]
       /\ then' = [then EXCEPT ![t] = place]
       /\ connLock' = IF place = "end" THEN Free(connLock, t) ELSE connLock
       /\ UNCHANGED <<linkVars, opLock, cancelVars, left, again>>

StopNotified(t) ==
  /\ pc[t] = "stop notify" /\ t \notin cancelled
  /\ IF client = None
     THEN /\ connected' = FALSE /\ Continue(t, then[t])
          /\ UNCHANGED <<open, client>>
     ELSE /\ Goto(t, "disconnect") /\ at' = [at EXCEPT ![t] = client]
          /\ UNCHANGED <<linkVars, lockVars, cancelVars, then, left, again>>
  /\ UNCHANGED <<timer, switchVars>>

Disconnected(t) ==
  /\ pc[t] = "disconnect" /\ t \notin cancelled
  /\ open' = open \ {at[t]}
  /\ client' = None /\ connected' = FALSE
  /\ Continue(t, then[t])
  /\ UNCHANGED <<timer, switchVars>>

-----------------------------------------------------------------------------
(* Connecting (_async_connect_tracked, _async_connect_inner).              *)

(* An attempt begins by hanging up.                                        *)
Attempt(t, more) ==
  /\ connLock' = t /\ left' = [left EXCEPT ![t] = more]
  /\ IF client = None
     THEN /\ connected' = FALSE /\ Goto(t, "establish")
          /\ UNCHANGED <<open, client, at, then>>
     ELSE /\ Goto(t, "stop notify") /\ at' = [at EXCEPT ![t] = client]
          /\ then' = [then EXCEPT ![t] = "establish"]
          /\ UNCHANGED linkVars
  /\ UNCHANGED <<opLock, cancelVars, again>>

At(t, place) == pc[t] = place /\ t \notin cancelled
OnlyGoto(t, place) ==
  /\ Goto(t, place)
  /\ UNCHANGED <<linkVars, lockVars, cancelVars, at, then, left, again>>

(* Mutant: _stopped was read before the lock was taken.                    *)
ConnectUnchecked(t) ==
  /\ At(t, "connect") /\ connLock = None
  /\ IF connected THEN OnlyGoto(t, "work") ELSE Attempt(t, left[t])
  /\ UNCHANGED <<timer, switchVars>>

Connect(t) ==
  /\ At(t, "connect") /\ connLock = None
  /\ IF stopping THEN OnlyGoto(t, "failed")
     ELSE IF connected THEN OnlyGoto(t, "work") ELSE Attempt(t, left[t])
  /\ UNCHANGED <<timer, switchVars>>

(* The lock advertises only while it has no connection.  Which of the      *)
(* unused clients is taken makes no difference; the old one is overwritten.*)
Unused == {c \in Client : \A t \in Task : at[t] # c}
NewClient == IF client \in Unused THEN client ELSE CHOOSE c \in Unused : TRUE

Established(t) ==
  /\ At(t, "establish") /\ open = {} /\ Unused # {}
  /\ client' = NewClient /\ open' = {NewClient}
  /\ at' = [at EXCEPT ![t] = NewClient]
  /\ Goto(t, "notify")
  /\ UNCHANGED <<connected, lockVars, cancelVars, then, left, again, timer,
                 switchVars>>

(* start_notify has returned; the link may have gone since.                *)
Notified(t) ==
  /\ At(t, "notify") /\ connected' = TRUE
  /\ Goto(t, "hello") /\ at' = [at EXCEPT ![t] = None]
  /\ UNCHANGED <<open, client, lockVars, cancelVars, then, left, again, timer,
                 switchVars>>

(* The lock has answered DEVICE_INFO and is bound, or is not.  The write   *)
(* has found a link, and an end of it since has cleared is_connected.      *)
Answered == connected => client \in open

Greeted(t) ==
  /\ At(t, "hello") /\ Answered
  /\ OnlyGoto(t, "pair")
  /\ UNCHANGED <<timer, switchVars>>

Unbound(t) ==
  /\ At(t, "hello") /\ Answered
  /\ HangUp(t, "failed")
  /\ UNCHANGED <<timer, switchVars>>

(* No device, an exception, or no answer: two seconds of sleep.            *)
AttemptFails(t) ==
  /\ \E place \in {"establish", "notify", "hello"} : At(t, place)
  /\ Goto(t, "retry") /\ at' = [at EXCEPT ![t] = None]
  /\ UNCHANGED <<linkVars, lockVars, cancelVars, then, left, again, timer,
                 switchVars>>

(* Mutant: is_connected stays when all attempts have failed.               *)
RetryKeeping(t) ==
  /\ At(t, "retry")
  /\ IF left[t] > 0 THEN Attempt(t, left[t] - 1) ELSE OnlyGoto(t, "failed")
  /\ UNCHANGED <<timer, switchVars>>

(* Mutant: attempts are not counted.                                       *)
RetryForEver(t) ==
  /\ At(t, "retry")
  /\ Attempt(t, left[t])
  /\ UNCHANGED <<timer, switchVars>>

(* Mutant: one attempt too many.                                           *)
RetryOnceMore(t) ==
  /\ At(t, "retry")
  /\ IF left[t] >= 0 THEN Attempt(t, left[t] - 1) ELSE OnlyGoto(t, "failed")
  /\ UNCHANGED <<timer, switchVars>>

Retry(t) ==
  /\ At(t, "retry")
  /\ IF left[t] > 0 THEN Attempt(t, left[t] - 1)
     ELSE /\ connected' = FALSE /\ Goto(t, "failed")
          /\ UNCHANGED <<open, client, lockVars, cancelVars, at, then, left, again>>
  /\ UNCHANGED <<timer, switchVars>>

(* PAIR: an exception of the write leaves the connection as it is; a       *)
(* missing answer and a failure to arm the event push are ignored.         *)
Paired(t) ==
  /\ At(t, "pair") /\ Goto(t, "work") /\ connLock' = None
  /\ UNCHANGED <<linkVars, opLock, cancelVars, at, then, left, again, timer,
                 switchVars>>

PairRaises(t) ==
  /\ At(t, "pair") /\ OnlyGoto(t, "failed")
  /\ UNCHANGED <<timer, switchVars>>

-----------------------------------------------------------------------------
(* The tasks.                                                              *)

Call(t) ==
  /\ pc[t] = "idle" /\ t \in Operation \cup Suspender
  /\ t = KeepAlive => persistent /\ ~stopping /\ ~connected
  /\ OnlyGoto(t, "op lock")
  /\ UNCHANGED <<timer, switchVars>>

TakeOpLock(t) ==
  /\ At(t, "op lock") /\ t \in Operation /\ opLock = None
  /\ opLock' = t /\ EnsureConnected(t)
  /\ UNCHANGED <<linkVars, connLock, cancelVars, at, then, again, timer,
                 switchVars>>

(* async_one_shot_status makes one attempt, even when the coordinator is   *)
(* stopping, and never sends again.                                        *)
OneShot(t) ==
  /\ At(t, "op lock") /\ t \in Operation \ {KeepAlive} /\ opLock = None
  /\ opLock' = t /\ Goto(t, "connect") /\ again' = again \cup {t}
  /\ UNCHANGED <<linkVars, connLock, cancelVars, at, then, left, timer,
                 switchVars>>

(* Services are serialised by credential_operations.                       *)
CallService(t) ==
  /\ t \in Service /\ \A s \in Service : pc[s] = "idle"
  /\ EnsureConnected(t)
  /\ UNCHANGED <<linkVars, lockVars, cancelVars, at, then, again, timer,
                 switchVars>>

(* An operation ends by setting the idle timer (_reset_idle_timer), by     *)
(* hanging up (the services for temporary PINs) or, the keep-alive, as it  *)
(* is; a service hangs up.                                                 *)
WorkDone(t) ==
  /\ At(t, "work")
  /\ \/ /\ t \in Operation \ {KeepAlive}
        /\ timer' = ~persistent
        /\ Return(t) /\ UNCHANGED linkVars
     \/ t # KeepAlive /\ HangUp(t, "end") /\ UNCHANGED timer
     \/ t = KeepAlive /\ Return(t) /\ UNCHANGED <<linkVars, timer>>
  /\ UNCHANGED switchVars

(* The session for the event flag resets the timer before it listens.      *)
ResetIdleTimer(t) ==
  /\ At(t, "work") /\ t \in Operation \ {KeepAlive}
  /\ timer' = ~persistent
  /\ UNCHANGED <<linkVars, lockVars, switchVars, cancelVars, pc, at, then, left,
                 again>>

WorkFails(t) ==
  /\ At(t, "work") /\ OnlyGoto(t, "failed")
  /\ UNCHANGED <<timer, switchVars>>

(* async_lock and async_unlock connect anew and send once more.            *)
SendAgain(t) ==
  /\ At(t, "work") /\ t \in Operation \ {KeepAlive} /\ t \notin again
  /\ connected' = FALSE /\ again' = again \cup {t}
  /\ Goto(t, IF stopping THEN "failed" ELSE "connect")
  /\ left' = [left EXCEPT ![t] = Attempts - 1]
  /\ UNCHANGED <<open, client, lockVars, cancelVars, at, then, timer,
                 switchVars>>

(* Services for several credentials connect before each, and go on when    *)
(* one has failed.                                                         *)
NextCredential(t) ==
  /\ t \in Several \ cancelled /\ pc[t] \in {"work", "failed"}
  /\ connLock' = Free(connLock, t) /\ EnsureConnected(t)
  /\ UNCHANGED <<linkVars, opLock, cancelVars, at, then, again, timer, switchVars>>

(* The exception leaves the task; some operations hang up, services do.    *)
Fail(t) ==
  /\ pc[t] = "failed"
  /\ \/ t \notin Service /\ Return(t) /\ UNCHANGED linkVars
     \/ t # KeepAlive /\ HangUp(t, "end")
  /\ UNCHANGED <<timer, switchVars>>

(* CancelledError; no handler on the way stops it.                         *)
Unwind(t) ==
  /\ t \in cancelled /\ Goto(t, "failed")
  /\ cancelled' = cancelled \ {t}
  /\ UNCHANGED <<linkVars, lockVars, awaited, at, then, left, again, timer,
                 switchVars>>

-----------------------------------------------------------------------------
(* Tasks that only hang up.                                                *)

(* Activation and the connection check take _op_lock, stop the idle timer  *)
(* (a change of the route does not) and hang up; then they use the lock    *)
(* for themselves.                                                         *)
Suspend(t) ==
  /\ At(t, "op lock") /\ t \in Suspender /\ opLock = None
  /\ timer' \in {timer, FALSE}
  /\ IF client = None
     THEN /\ opLock' = t /\ connected' = FALSE /\ Goto(t, "suspended")
          /\ UNCHANGED <<open, client, at, then>>
     ELSE /\ opLock' = t /\ Goto(t, "stop notify")
          /\ at' = [at EXCEPT ![t] = client]
          /\ then' = [then EXCEPT ![t] = "suspended"]
          /\ UNCHANGED linkVars
  /\ UNCHANGED <<connLock, switchVars, cancelVars, left, again>>

Resume(t) ==
  /\ At(t, "suspended") /\ Return(t)
  /\ UNCHANGED <<linkVars, timer, switchVars>>

(* _idle_disconnect; the model has one of them at a time.                  *)
TimerFires ==
  /\ timer /\ timer' = FALSE /\ pc[IdleTimer] = "idle"
  /\ IF connected /\ ~persistent THEN HangUp(IdleTimer, "end")
     ELSE UNCHANGED <<linkVars, lockVars, cancelVars, pc, at, then, left, again>>
  /\ UNCHANGED switchVars

Running(t) == t \in Task /\ pc[t] # "idle"

(* async_set_persistent_connection.                                        *)
SetPersistent(on) ==
  /\ ~stopping /\ toggles' = IF on = persistent THEN toggles ELSE toggles + 1
  /\ toggles' <= MaxToggles
  /\ persistent' = on
  /\ IF on THEN timer' = FALSE /\ UNCHANGED cancelled
     ELSE /\ timer' = (timer \/ connected)
          /\ cancelled' = cancelled \cup {t \in {KeepAlive} : persistent /\ Running(t)}
  /\ UNCHANGED <<linkVars, lockVars, stopping, awaited, pc, at, then, left, again>>

(* Mutant: async_shutdown cancels the holder of the lock only.             *)
UnloadHolder ==
  LET holder == {t \in Task : Connecting(t) /\ connLock = t} IN
  /\ pc[Unload] = "idle" /\ Goto(Unload, "gather")
  /\ stopping' = TRUE /\ persistent' = FALSE /\ timer' = FALSE
  /\ cancelled' = cancelled \cup holder /\ awaited' = holder
  /\ UNCHANGED <<linkVars, lockVars, toggles, at, then, left, again>>

(* async_unload_entry, which in the same stretch enters async_shutdown.    *)
(* One of the operations may be the poll after an advertisement.           *)
StartUnload ==
  LET connecting == {t \in Task : Connecting(t)} IN
  /\ pc[Unload] = "idle" /\ Goto(Unload, "gather")
  /\ stopping' = TRUE /\ persistent' = FALSE /\ timer' = FALSE
  /\ \E poll \in (Operation \ {KeepAlive}) \cup {None} :
       cancelled' = cancelled \cup connecting
                      \cup {t \in {poll} : Running(t)}
                      \cup {t \in {KeepAlive} : persistent /\ Running(t)}
  /\ awaited' = connecting
  /\ UNCHANGED <<linkVars, lockVars, toggles, at, then, left, again>>

Gathered ==
  /\ pc[Unload] = "gather" /\ awaited = {}
  /\ HangUp(Unload, "end")
  /\ UNCHANGED <<timer, switchVars>>

(* Mutant: _on_disconnect does not clear is_connected.                     *)
LinkDropsUnseen(c) ==
  /\ c \in open /\ open' = open \ {c}
  /\ UNCHANGED <<client, connected, lockVars, timer, switchVars, cancelVars, pc,
                 at, then, left, again>>

(* The lock or the radio ends a connection (_on_disconnect).               *)
LinkDrops(c) ==
  /\ c \in open /\ open' = open \ {c}
  /\ connected' = FALSE
  /\ UNCHANGED <<client, lockVars, timer, switchVars, cancelVars, pc, at, then,
                 left, again>>

-----------------------------------------------------------------------------

(* What a task does by itself, all locks it waits for left aside.          *)
Step(t) ==
  \/ StopNotified(t) \/ Disconnected(t)
  \/ Established(t) \/ Notified(t) \/ Greeted(t) \/ Unbound(t)
  \/ AttemptFails(t) \/ Retry(t) \/ Paired(t) \/ PairRaises(t)
  \/ WorkDone(t) \/ WorkFails(t) \/ SendAgain(t) \/ Fail(t) \/ Unwind(t)
  \/ Resume(t)

Next ==
  \/ \E t \in Task :
       \/ Call(t) \/ TakeOpLock(t) \/ OneShot(t) \/ CallService(t)
       \/ Connect(t) \/ Suspend(t)
       \/ ResetIdleTimer(t) \/ NextCredential(t) \/ Step(t)
  \/ TimerFires \/ \E on \in BOOLEAN : SetPersistent(on)
  \/ StartUnload \/ Gathered
  \/ \E c \in Client : LinkDrops(c)

Spec == Init /\ [][Next]_vars

(* Every await ends; a lock that is free again and again is given to each  *)
(* waiter (asyncio locks are fair); the lock hangs up by itself ("this     *)
(* lock hangs up on its own after ~60s", coordinator.py); the timer fires; *)
(* the keep-alive loop looks every few seconds.  No task need ever be      *)
(* called, nor the entry be unloaded.                                      *)
Fairness ==
  /\ \A t \in Task \ {IdleTimer, Unload} : WF_vars(Step(t))
  /\ WF_vars(TimerFires \/ Step(IdleTimer)) /\ WF_vars(Gathered \/ Step(Unload))
  /\ \A t \in Operation \cup Service : SF_vars(Connect(t))
  /\ \A t \in Operation : SF_vars(TakeOpLock(t))
  /\ \A t \in Suspender : SF_vars(Suspend(t))
  /\ WF_vars(\E c \in Client : LinkDrops(c))
  /\ SF_vars(KeepAlive # None /\ Call(KeepAlive))

FairSpec == Spec /\ Fairness

(* From some time on attempts succeed: the lock is in reach and bound, and *)
(* the link stays up while they shake hands, which no service interrupts.  *)
InReach ==
  LET Misses(t) == AttemptFails(t) \/ Unbound(t) \/ PairRaises(t)
      Loses(t)  == pc[t] \in {"notify", "hello", "pair"}
                   /\ \E c \in Client : LinkDrops(c)
  IN <>[][\A t \in Task : ~Misses(t) /\ ~Loses(t) /\ ~CallService(t)]_vars

-----------------------------------------------------------------------------

(* Once async_shutdown has gathered the connecting tasks, no link of this  *)
(* session is opened any more, whatever waits for a lock or is called      *)
(* later: "Finish outstanding connects before a replacement session        *)
(* starts" (ble_session.py).                                               *)
ShutDown == stopping /\ pc[Unload] # "gather"
NothingAfterShutdown == [][ShutDown => open' \subseteq open]_vars

(* is_connected without any link behind it would keep every task from      *)
(* connecting, and no drop would ever clear it.  When nobody is about to   *)
(* connect or hang up, it does not occur unless the idle timer will end it *)
(* or, after a keep-alive cancelled in its handshake, the connection is    *)
(* persistent.                                                             *)
Quiet == /\ \A t \in Task : ~Connecting(t) /\ ~HangingUp(t) /\ pc[t] # "failed"
         /\ cancelled = {} /\ pc[Unload] # "gather"
ConnectedIsBacked == Quiet /\ connected => open # {} \/ timer \/ persistent

(* No service waits for ever, whatever others hold, fail or are cancelled: *)
(* it holds credential_operations, and with it the services of all locks.  *)
ServicesEnd == \A t \in Service : pc[t] # "idle" ~> pc[t] = "idle"

(* A persistent connection comes back after every loss and every failed    *)
(* service, while the lock is in reach ("reconnect the instant it drops",  *)
(* coordinator.py).                                                        *)
PersistentReturns ==
  InReach => persistent ~> (connected /\ open # {} /\ connLock = None) \/ ~persistent

=============================================================================
