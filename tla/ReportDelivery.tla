--------------------------- MODULE ReportDelivery ---------------------------
(***************************************************************************)
(* Replies and unlock records on the Bluetooth session of one lock         *)
(* (ble_session.py, event_collect.py, the listener of coordinator.py).     *)
(* Notifications of the lock gather in one buffer, from which everybody    *)
(* takes whatever there is: an operation of the coordinator, which holds   *)
(* _op_lock, a credential service, which does not, the handshake of        *)
(* whoever connects, and the listener that looks when nothing else seems   *)
(* to go on.  The lock repeats a record until it is acknowledged, so that  *)
(* a record which is acknowledged and then not passed on is gone.          *)
(*                                                                         *)
(* Frames are whole and decoded with the keys of their link; time is       *)
(* abstract: whoever waits may be answered or time out at any moment.      *)
(***************************************************************************)
EXTENDS Naturals, Sequences, FiniteSets

CONSTANTS MaxRecord,    \* unlocks, numbered as the lock records them
          OpKind,       \* what an operation may begin with
          ServiceKind   \* what a credential service may send

ASSUME RecordAssumption == MaxRecord \in Nat
ASSUME KindAssumption == /\ OpKind \subseteq {"dp", "query", "drain"}
                         /\ ServiceKind \subseteq {"dp", "long"}

VARIABLES up,       \* is_connected, which means notifications arrive
          buf,      \* _notif_buf
          queue,    \* _lock: who holds it, then who waits, first come first
          task,     \* the tasks of the event loop
          due,      \* what the lock has been asked and not answered
          made,     \* records the lock has made
          acked,    \* records it has had acknowledged: it sends the next one
          handled,  \* records passed to the coordinator
          lost,     \* records acknowledged, and dropped by design or failure
          deaf      \* ghost: a failure has left the link without a listener

vars == <<up, buf, queue, task, due, made, acked, handled, lost, deaf>>

Client == {"op", "service"}
Task == Client \union {"listener"}

Reply == ({"reply"} \X Client) \union {<<"hello", "lock">>, <<"pair", "lock">>}
Frame == ({"record"} \X (1..MaxRecord)) \union Reply

\* The records among frames, and what _handle_time_requests has to answer.
Records(frames) == {f[2] : f \in {g \in frames : g[1] = "record"}}
Recorded(frames) == {f \in frames : f[1] = "record"}
Asks(frames) == {f \in frames : f[1] \in {"record", "reply"}}

Handshake == {"hello", "keys", "pair", "paired"}
At == {"off", "idle", "send", "await", "answer", "read", "ack"}
        \union Handshake
Kind == {"none", "dp", "query", "collect", "drain", "long"}

\* frames: read and not passed on yet; kept: those of an earlier part of the
\* call; todo: frames that are still to be answered.
Tasks == [at : At, kind : Kind, frames : SUBSET Frame, kept : SUBSET Frame,
          todo : SUBSET Frame]

Resting(at) == [at |-> at, kind |-> "none", frames |-> {}, kept |-> {}, todo |-> {}]

Init == /\ up = FALSE /\ buf = {} /\ queue = <<>> /\ due = {}
        /\ task = [t \in Task |-> Resting(IF t = "listener" THEN "off" ELSE "idle")]
        /\ made = 0 /\ acked = 0 /\ handled = {} /\ lost = {} /\ deaf = FALSE

Is(t, at) == task[t].at = at
Holds(t) == queue # <<>> /\ Head(queue) = t
Released == Tail(queue)
Hands(t) == Records(task[t].frames \union task[t].kept)
Unheard == up /\ Is("listener", "off")

-----------------------------------------------------------------------------
(* The lock.                                                               *)

Unlock == /\ made < MaxRecord /\ made' = made + 1
          /\ UNCHANGED <<up, buf, queue, task, due, acked, handled, lost>>

\* The lock sends its oldest record again and again until it is acknowledged,
\* and holds back the next one (_handle_time_requests).  Six seconds lie between
\* two copies, so that whoever has taken one has answered it before the next.
LockSends ==
  LET record == <<"record", acked + 1>> IN
    /\ up /\ acked < made /\ record \notin buf /\ \A t \in Task : record \notin task[t].todo
    /\ buf' = buf \union {record}
    /\ UNCHANGED <<up, queue, task, due, made, acked, handled, lost>>

\* It answers a request some time, also when nobody waits any more.
LockAnswers(f) == /\ up /\ f \in due
                  /\ buf' = buf \union {f} /\ due' = due \ {f}
                  /\ UNCHANGED <<up, queue, task, made, acked, handled, lost>>

\* The link ends by itself, or by the idle timer.  The buffer stays.
LinkDrops == /\ up /\ up' = FALSE /\ due' = {}
             /\ UNCHANGED <<buf, queue, task, made, acked, handled, lost>>

-----------------------------------------------------------------------------
(* What the tasks have in common.                                          *)

\* _dispatch_dp_reports
Dispatch(frames) == handled' = handled \union Records(frames)

\* t goes on at another await, with its place in the queue for _lock.
Goes(t, at) == task' = [task EXCEPT ![t].at = at]

\* The part of a call that comes next, with its first await.
Part(t, kind) ==
  [Resting(IF kind \in {"drain", "collect"} THEN "read" ELSE "send") EXCEPT !.kind = kind]

Begins(t, kind, rest) == /\ task' = [task EXCEPT ![t] = Part(t, kind)]
                         /\ queue' = Append(rest, t)

\* Mutant: the listener is not started.
ListeningLeft(tasks) == tasks

\* The listener is started unless it runs (_start_listener).
Listening(tasks) == IF tasks["listener"].at = "off"
                    THEN [tasks EXCEPT !["listener"] = Resting("idle")] ELSE tasks

\* Mutant: the end of an operation starts no listener.
EndsAlone(t, rest) ==
  /\ queue' = rest /\ task' = [task EXCEPT ![t] = Resting("idle")]
  /\ IF t = "op" THEN UNCHANGED <<up, due>> ELSE up' = FALSE /\ due' = {}

\* An operation ends, and with it the wait for the idle timer begins; a
\* service hangs up (the finally of its handler).
Ends(t, rest) ==
  LET done == [task EXCEPT ![t] = Resting("idle")] IN
    /\ queue' = rest
    /\ IF t = "op" THEN task' = Listening(done) /\ UNCHANGED <<up, due>>
                   ELSE task' = done /\ up' = FALSE /\ due' = {}

\* What comes after a part: a datapoint that an operation sets and an event
\* session go on with the status, the status with _fetch_status's own
\* collection, a service perhaps with its next request.
Continues(t, rest) ==
  CASE t = "op" /\ task[t].kind \in {"dp", "drain"} ->
         Begins(t, "query", rest) /\ UNCHANGED <<up, due>>
    [] task[t].kind = "query" -> Begins(t, "collect", rest) /\ UNCHANGED <<up, due>>
    [] OTHER -> \/ Ends(t, rest)
                \/ \E k \in ServiceKind : /\ t = "service" /\ Begins(t, k, rest)
                                          /\ UNCHANGED <<up, due>>

\* A write raises, whether the link has gone or is_connected still says that it
\* is there.  What the task had in hand is not passed on, though the lock may
\* have had its acknowledgement.  _fetch_status catches this: it goes on to its
\* collection, and after that to the end of the operation.  A service hangs up
\* (the next deletion of a clearance, tried all the same, is a call of its own
\* here).  Every other operation and the listener just end: no idle timer, no
\* listener.
Fails(t) ==
  LET rest == IF Holds(t) THEN Released ELSE queue IN
    /\ lost' = lost \union {n \in Hands(t) : n <= acked'}
    /\ CASE t = "op" /\ task[t].kind = "query" /\ task[t].at \notin Handshake ->
              Begins(t, "collect", rest) /\ UNCHANGED <<up, due>>
         [] t = "service" \/ task[t].kind = "collect" -> Ends(t, rest)
         [] OTHER ->
              /\ queue' = rest /\ UNCHANGED <<up, due>>
              /\ task' = [task EXCEPT ![t] = Resting(IF t = "listener" THEN "off" ELSE "idle")]
    /\ UNCHANGED <<buf, made, handled>>

\* Mutant: whatever is answered counts as the next acknowledgement.
AnswerCounts(t) ==
  /\ task[t].todo # {} /\ up
  /\ \E f \in task[t].todo : task' = [task EXCEPT ![t].todo = @ \ {f}]
  /\ acked' = acked + 1
  /\ UNCHANGED <<up, buf, queue, due, made, handled, lost>>

\* _handle_time_requests, one frame: the lock takes an acknowledgement of the
\* record it is at.
Answer(t) ==
  /\ task[t].todo # {} /\ up
  /\ \E f \in task[t].todo :
       /\ task' = [task EXCEPT ![t].todo = @ \ {f}]
       /\ acked' = IF f = <<"record", acked + 1>> THEN acked + 1 ELSE acked
  /\ UNCHANGED <<up, buf, queue, due, made, handled, lost>>

\* The write of an answer raises, which the lock may have had all the same.
AnswerFails(t) ==
  /\ task[t].todo # {}
  /\ acked' \in {acked} \union {n \in Records(task[t].todo) : up /\ n = acked + 1}
  /\ Fails(t)

\* t takes all there is in the buffer.  Of the answers only its own and that to
\* PAIR mean something to it.
Takes(t, at) ==
  /\ task' = [task EXCEPT
       ![t].at = at, ![t].todo = Asks(buf),
       ![t].frames = @ \union {f \in buf :
          \/ f[1] = "record"
          \/ f[1] = "pair" /\ at = "paired"
          \/ f = <<"reply", t>> /\ task[t].kind \in {"dp", "long"} /\ at # "paired"}]
  /\ buf' = {}

-----------------------------------------------------------------------------
(* Connecting (_async_ensure_connected, _async_connect_inner).             *)

\* The link is there: the call begins.  An event session pushes the idle timer
\* out first, which also starts the listener.
Ready(t, kind) ==
  LET begun == [task EXCEPT ![t] = Part(t, kind)] IN
    /\ queue' = Append(queue, t)
    /\ task' = IF kind = "drain" THEN Listening(begun) ELSE begun

\* A call finds the link there (is_connected is all that is asked, and it is set
\* during the handshake of another task, too) or, under _connect_lock, makes it:
\* start_notify and the request for the device information.
Start(t, kind) ==
  /\ Is(t, "idle") /\ kind \in (IF t = "op" THEN OpKind ELSE ServiceKind)
  /\ IF up THEN Ready(t, kind) /\ UNCHANGED <<up, buf, due>>
     ELSE /\ \A u \in Client : task[u].at \notin Handshake
          /\ task' = [task EXCEPT ![t] = [Resting("hello") EXCEPT !.kind = kind]]
          /\ up' = TRUE /\ buf' = {} /\ due' = {<<"hello", "lock">>}
          /\ UNCHANGED queue
  /\ UNCHANGED <<made, acked, handled, lost>>

\* The first frames: their records are passed on, and answered when the device
\* information is among them.
Greeted(t) ==
  /\ Is(t, "hello") /\ <<"hello", "lock">> \in buf /\ buf' = {} /\ Dispatch(buf)
  /\ task' = [task EXCEPT ![t].at = "keys", ![t].todo = Asks(buf)]
  /\ UNCHANGED <<up, queue, due, made, acked, lost>>

\* Else the attempt has failed, and with the last attempt the call.
Unreached(t) ==
  /\ Is(t, "hello") /\ <<"hello", "lock">> \notin buf /\ buf' = {} /\ Dispatch(buf)
  /\ up' = FALSE /\ due' = {}
  /\ task' = [task EXCEPT ![t] = Resting("idle")]
  /\ UNCHANGED <<queue, made, acked, lost>>

\* PAIR is sent once the first frames are answered.
Pairs(t) == /\ Is(t, "keys") /\ task[t].todo = {} /\ up
            /\ Goes(t, "pair") /\ buf' = {}
            /\ due' = due \union {<<"pair", "lock">>}
            /\ UNCHANGED <<up, queue, made, acked, handled, lost>>

PairFails(t) == Is(t, "keys") /\ task[t].todo = {} /\ acked' = acked /\ Fails(t)

PairRead(t) == /\ Is(t, "pair") /\ buf # {} /\ Takes(t, "paired")
               /\ UNCHANGED <<up, queue, due, made, acked, handled, lost>>

Paired(t) ==
  /\ Is(t, "paired") /\ task[t].todo = {} /\ Dispatch(task[t].frames)
  /\ IF <<"pair", "lock">> \in task[t].frames THEN Ready(t, task[t].kind)
     ELSE task' = [task EXCEPT ![t].at = "pair", ![t].frames = {}] /\ UNCHANGED queue
  /\ UNCHANGED <<up, buf, due, made, acked, lost>>

\* "No explicit PAIR OK seen (may still be usable)"
Unpaired(t) == /\ Is(t, "pair") /\ Ready(t, task[t].kind)
               /\ UNCHANGED <<up, buf, due, made, acked, handled, lost>>

-----------------------------------------------------------------------------
(* Request and reply.                                                      *)

\* _send_recv clears the buffer and sends.
Send(t) ==
  /\ Is(t, "send") /\ Holds(t) /\ up
  /\ Goes(t, "await") /\ buf' = {}
  /\ due' = due \union {<<"reply", t>>}
  /\ UNCHANGED <<up, queue, made, acked, handled, lost>>

SendFails(t) == Is(t, "send") /\ Holds(t) /\ acked' = acked /\ Fails(t)

\* It takes the first frames that come, whatever they are, or gives up.
Receive(t) == /\ Is(t, "await") /\ Holds(t) /\ Takes(t, "answer") /\ queue' = Released
              /\ UNCHANGED <<up, due, made, acked, handled, lost>>

\* async_send_dp passes the first frames on at once and is done when its reply
\* is among them; async_query_status and async_send_dp_raw_long keep them.
Received(t) ==
  /\ Is(t, "answer") /\ task[t].kind \in {"dp", "query", "long"} /\ task[t].todo = {}
  /\ IF task[t].kind = "dp"
     THEN /\ Dispatch(task[t].frames)
          /\ IF <<"reply", t>> \in task[t].frames THEN Continues(t, queue)
             ELSE /\ task' = [task EXCEPT ![t].at = "read", ![t].frames = {}]
                  /\ queue' = Append(queue, t) /\ UNCHANGED <<up, due>>
     ELSE /\ task' = [task EXCEPT ![t].at = "read", ![t].kept = Recorded(task[t].frames),
                                  ![t].frames = {}]
          /\ queue' = Append(queue, t) /\ UNCHANGED <<up, due, handled>>
  /\ UNCHANGED <<buf, made, acked, lost>>

\* _collect: take, answer, look again.
Read(t) == /\ Is(t, "read") /\ Holds(t) /\ buf # {} /\ Takes(t, "ack")
           /\ UNCHANGED <<up, queue, due, made, acked, handled, lost>>

ReadOn(t) == /\ Is(t, "ack") /\ task[t].todo = {} /\ Goes(t, "read")
             /\ UNCHANGED <<up, buf, queue, due, made, acked, handled, lost>>

\* Mutant: the first frames of a status query are not passed on.
CollectedOnly(t) ==
  /\ Is(t, "read") /\ Holds(t) /\ task[t].kind \in {"dp", "query", "collect"}
  /\ Dispatch(task[t].frames)
  /\ Continues(t, Released)
  /\ UNCHANGED <<buf, made, acked, lost>>

\* The time of _collect is over: a one-off collection passes its frames on.
Collected(t) ==
  /\ Is(t, "read") /\ Holds(t) /\ task[t].kind \in {"dp", "query", "collect"}
  /\ Dispatch(task[t].frames \union task[t].kept)
  /\ Continues(t, Released)
  /\ UNCHANGED <<buf, made, acked, lost>>

\* async_drain_event_pushes: until a record is caught, the window is over or the
\* link has gone.
Drained(t) ==
  /\ Is(t, "read") /\ Holds(t) /\ task[t].kind = "drain"
  /\ Dispatch(task[t].frames)
  /\ \/ Continues(t, Released)
     \/ Records(task[t].frames) = {} /\ up /\ Begins(t, "drain", Released) /\ UNCHANGED <<up, due>>
     \/ /\ Records(task[t].frames) = {} /\ ~up /\ queue' = Released
        /\ task' = [task EXCEPT ![t] = Resting("idle")] /\ UNCHANGED <<up, due>>
  /\ UNCHANGED <<buf, made, acked, lost>>

\* async_send_dp_raw_long collects until its reply or its time is over, and
\* passes on the first frames only: the others become its results.
Awaited(t) ==
  /\ Is(t, "read") /\ Holds(t) /\ task[t].kind = "long"
  /\ \/ /\ <<"reply", t>> \notin task[t].frames
        /\ queue' = Append(Released, t) /\ queue' # queue
        /\ UNCHANGED <<up, due, task, handled, lost>>
     \/ /\ Dispatch(task[t].kept) /\ Continues(t, Released)
        /\ lost' = lost \union {n \in Records(task[t].frames) : n <= acked}
  /\ UNCHANGED <<buf, made, acked>>

-----------------------------------------------------------------------------
(* The listener (_notification_listener).                                  *)

\* Mutant: the listener takes what an operation waits for.
ListensAlways ==
  /\ Is("listener", "idle") /\ up /\ buf # {}
  /\ IF queue = <<>> THEN Takes("listener", "answer") /\ UNCHANGED queue
     ELSE Goes("listener", "read") /\ queue' = Append(queue, "listener") /\ UNCHANGED buf
  /\ UNCHANGED <<up, due, made, acked, handled, lost>>

\* Every 2 s it looks whether there is something and no operation under way.  It
\* takes it at once, unless it has to wait for the lock.
Listens ==
  /\ Is("listener", "idle") /\ up /\ Is("op", "idle") /\ buf # {}
  /\ IF queue = <<>> THEN Takes("listener", "answer") /\ UNCHANGED queue
     ELSE Goes("listener", "read") /\ queue' = Append(queue, "listener") /\ UNCHANGED buf
  /\ UNCHANGED <<up, due, made, acked, handled, lost>>

ListenerTakes == /\ Is("listener", "read") /\ Holds("listener")
                 /\ Takes("listener", "answer") /\ queue' = Released
                 /\ UNCHANGED <<up, due, made, acked, handled, lost>>

ListenerPasses == /\ Is("listener", "answer") /\ task["listener"].todo = {}
                  /\ Dispatch(task["listener"].frames)
                  /\ task' = [task EXCEPT !["listener"] = Resting("idle")]
                  /\ UNCHANGED <<up, buf, queue, due, made, acked, lost>>

ListenerStops == /\ Is("listener", "idle") /\ ~up
                 /\ task' = [task EXCEPT !["listener"] = Resting("off")]
                 /\ UNCHANGED <<up, buf, queue, due, made, acked, handled, lost>>

-----------------------------------------------------------------------------

Handshakes(t) == \/ Greeted(t) \/ Unreached(t) \/ Pairs(t)
                 \/ PairRead(t) \/ Paired(t) \/ Unpaired(t)
Requests(t) == \/ Send(t) \/ Receive(t) \/ Received(t)
               \/ Read(t) \/ ReadOn(t) \/ Collected(t) \/ Drained(t) \/ Awaited(t)
Calls(t) == (\E k \in Kind : Start(t, k)) \/ Handshakes(t) \/ Requests(t)
Listener == Listens \/ ListenerTakes \/ ListenerPasses \/ ListenerStops
Lock == Unlock \/ LockSends \/ LinkDrops \/ \E f \in due : LockAnswers(f)

Works == \/ Lock \/ Listener
         \/ \E t \in Client : Calls(t)
         \/ \E t \in Task : Answer(t)
Failure == \/ \E t \in Client : PairFails(t) \/ SendFails(t)
           \/ \E t \in Task : AnswerFails(t)

\* A failure leaves the link unheard until a listener is started or it goes.
Deafens(unheard) == deaf' = (Unheard' /\ (deaf \/ unheard))

Next == \/ Works /\ Deafens(FALSE)
        \/ Failure /\ Deafens(TRUE)

Spec == Init /\ [][Next]_vars

-----------------------------------------------------------------------------
(* Properties.                                                             *)

Types ==
  /\ up \in BOOLEAN /\ buf \subseteq Frame /\ due \subseteq Reply
  /\ queue \in Seq(Task) /\ task \in [Task -> Tasks]
  /\ made \in 0..MaxRecord /\ acked \in 0..made
  /\ handled \subseteq 1..MaxRecord /\ lost \subseteq 1..MaxRecord
TypeOK == Types /\ deaf \in BOOLEAN

\* A record that has been acknowledged, so that the lock forgets it, reaches
\* the coordinator: it has been passed on, or is in the hands of a task that
\* will do so, unless a write of that task failed or the task was an
\* enrolment, a listing or the like, which reads without passing on
\* (ble_session.py:856).
AcknowledgedIsKept ==
  \A n \in 1..acked : n \in handled \union lost \union UNION {Hands(t) : t \in Task}

\* "Only drain if no operation is in progress (don't steal their data)"
\* (coordinator.py:585), as far as it goes: what the lock answers to an
\* operation under way leaves the buffer into the hands of that operation,
\* unless a credential service is on its way, too.
RepliesStay ==
  [][LET reply == <<"reply", "op">> IN
     /\ reply \in buf \ buf' /\ task["op"].kind \in {"dp", "query"}
     /\ task["op"].at \in {"await", "answer", "read", "ack"}
     => \/ reply \in task'["op"].todo
        \/ \E now \in {task, task'} : now["service"].at # "idle"]_vars

\* A link that no call is using has a listener, whoever made the link and in
\* whatever order calls, drops and reconnects came (_reset_idle_timer,
\* _start_listener), unless a write has failed on it: until an operation is
\* completed or the link ends, nobody listens then (coordinator.py:600, 881).
SomeoneListens ==
  up /\ (\A t \in Client : Is(t, "idle")) => ~Is("listener", "off") \/ deaf

-----------------------------------------------------------------------------
(* Liveness.  The listener's timer fires and its writes end, and a lock    *)
(* that is connected and not answered sends its record again.              *)
FairSpec == /\ Spec /\ WF_vars(LockSends /\ Deafens(FALSE)) /\ WF_vars(Listener /\ Deafens(FALSE))
            /\ WF_vars(Answer("listener") /\ Deafens(FALSE))

\* From some time on the link stays, no operation or service runs, and no
\* failure has silenced the listener.
Quiet == <>[](up /\ ~deaf /\ \A t \in Client : Is(t, "idle"))

\* What the lock has recorded by then gets to the coordinator all the same,
\* through the listener ("This catches unsolicited DP pushes", coordinator.py:576).
RecordsArrive == Quiet => \A n \in 1..MaxRecord : made >= n ~> n \in handled \union lost

=============================================================================
