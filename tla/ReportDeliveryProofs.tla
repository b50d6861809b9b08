------------------------ MODULE ReportDeliveryProofs ------------------------
(***************************************************************************)
(* Theorems about ReportDelivery: types, that no acknowledged record slips *)
(* through the hands of the tasks, that an unused link has a listener, and *)
(* that the listener leaves an operation its replies.                      *)
(***************************************************************************)
EXTENDS ReportDelivery, TLAPS

-----------------------------------------------------------------------------
(* Records among frames.                                                   *)

LEMMA RecordsIn ==
  ASSUME NEW S \in SUBSET Frame
  PROVE  /\ Records(S) \subseteq 1..MaxRecord
         /\ \A n : n \in Records(S) <=> <<"record", n>> \in S
<1>1. ASSUME NEW f \in S, f[1] = "record"
      PROVE  f[2] \in 1..MaxRecord /\ f = <<"record", f[2]>>
  BY <1>1 DEF Frame, Reply, Client
<1>2. ASSUME NEW n, n \in Records(S) PROVE n \in 1..MaxRecord /\ <<"record", n>> \in S
  <2>1. PICK f \in {g \in S : g[1] = "record"} : n = f[2]
    BY <1>2 DEF Records
  <2> QED BY <2>1, <1>1
<1>3. ASSUME NEW n, <<"record", n>> \in S PROVE n \in Records(S)
  BY <1>3 DEF Records
<1> QED BY <1>2, <1>3

LEMMA NoRecords == Records({}) = {}
BY DEF Records

LEMMA RecordsOf ==
  ASSUME NEW S \in SUBSET Frame, NEW U \in SUBSET Frame
  PROVE  /\ Records({}) = {}
         /\ Records(S \union U) = Records(S) \union Records(U)
         /\ Asks(S) \in SUBSET Frame /\ Records(Asks(S)) = Records(S)
         /\ Recorded(S) \in SUBSET Frame /\ Records(Recorded(S)) = Records(S)
         /\ (U \subseteq S => Records(U) \subseteq Records(S))
<1>1. Records({}) = {}
  BY DEF Records
<1>2. Asks(S) \in SUBSET Frame /\ Recorded(S) \in SUBSET Frame /\ S \union U \in SUBSET Frame
  BY DEF Asks, Recorded
<1>3. Records(S \union U) = Records(S) \union Records(U)
  BY <1>2, RecordsIn
<1>4. \A n : <<"record", n>> \in Asks(S) <=> <<"record", n>> \in S
  BY DEF Asks
<1>5. \A n : <<"record", n>> \in Recorded(S) <=> <<"record", n>> \in S
  BY DEF Recorded
<1>6. Records(Asks(S)) = Records(S)
  BY <1>2, <1>4, RecordsIn
<1>7. Records(Recorded(S)) = Records(S)
  BY <1>2, <1>5, RecordsIn
<1>8. U \subseteq S => Records(U) \subseteq Records(S)
  BY RecordsIn
<1> QED BY <1>1, <1>2, <1>3, <1>6, <1>7, <1>8

-----------------------------------------------------------------------------
(* What is known of a task at each await: nothing is in hand before         *)
(* anything has been read, and what is to be answered is in hand, or has    *)
(* been passed on already.                                                  *)

TaskSound(r, h, m) ==
  /\ r \in Tasks
  /\ r.at \notin {"read", "ack"} => r.kept = {}
  /\ r.at \in {"off", "idle", "send", "await", "hello", "keys", "pair"} => r.frames = {}
  /\ r.kind \in {"none", "drain", "collect"} => r.kept = {}
  /\ Records(r.todo) \subseteq 1..m
  /\ Records(r.todo) \subseteq h \union Records(r.frames \union r.kept)

Inv == /\ Types /\ AcknowledgedIsKept
       /\ Records(buf) \subseteq 1..made
       /\ \A t \in Task : TaskSound(task[t], handled, made)
       /\ task["listener"].kind = "none"

LEMMA RestingSound ==
  ASSUME NEW at \in At, NEW h, NEW m
  PROVE  TaskSound(Resting(at), h, m)
BY RecordsOf DEF Resting, TaskSound, Tasks, Kind

LEMMA PartSound ==
  ASSUME NEW t, NEW kind \in Kind, NEW h, NEW m
  PROVE  TaskSound(Part(t, kind), h, m)
BY RecordsOf DEF Part, Resting, TaskSound, Tasks, Kind, At

\* A task is sound for all that is passed on and recorded later.
LEMMA SoundLater ==
  ASSUME NEW r, NEW h, NEW m \in Nat, NEW h2, NEW m2 \in Nat,
         TaskSound(r, h, m), h \subseteq h2, m <= m2
  PROVE  TaskSound(r, h2, m2)
<1>1. 1..m \subseteq 1..m2
  OBVIOUS
<1> QED BY <1>1 DEF TaskSound

\* What an action does to the tasks: one goes on, and perhaps the listener is
\* started, which has nothing in hand before.
Moves(t, r) == \/ task' = [task EXCEPT ![t] = r]
               \/ task' = Listening([task EXCEPT ![t] = r])

LEMMA MovesTasks ==
  ASSUME Inv, NEW t \in Task, NEW r \in Tasks, Moves(t, r)
  PROVE  /\ task' \in [Task -> Tasks]
         /\ \A u \in Task : \/ task'[u] = IF u = t THEN r ELSE task[u]
                            \/ /\ u = "listener" /\ task'[u] = Resting("idle")
                               /\ u = t => r.at = "off"
                               /\ u # t => task[u].at = "off"
<1> DEFINE next == [task EXCEPT ![t] = r]
<1>1. next \in [Task -> Tasks] /\ \A u \in Task : next[u] = IF u = t THEN r ELSE task[u]
  BY DEF Inv, Types
<1>2. Resting("idle") \in Tasks
  BY DEF Resting, Tasks, At, Kind
<1>3. "listener" \in Task
  BY DEF Task
<1>4. CASE task' = next
  BY <1>1, <1>4
<1>5. CASE task' = Listening(next)
  <2> HIDE DEF next
  <2>1. CASE next["listener"].at = "off"
    <3>1. task' = [next EXCEPT !["listener"] = Resting("idle")]
      BY <1>5, <2>1 DEF Listening
    <3>2. task' \in [Task -> Tasks]
          /\ \A u \in Task : task'[u] = IF u = "listener" THEN Resting("idle") ELSE next[u]
      BY <3>1, <1>1, <1>2, <1>3
    <3> QED BY <3>2, <2>1, <1>1, <1>3
  <2>2. CASE next["listener"].at # "off"
    BY <1>5, <2>2, <1>1 DEF Listening
  <2> QED BY <2>1, <2>2
<1> QED BY <1>4, <1>5 DEF Moves

\* An acknowledgement that may have come to the lock: of what t has to answer.
Acks(t) == acked' \in {acked} \union {n \in Records(task[t].todo) : n = acked + 1}

LEMMA AcksBound ==
  ASSUME Inv, NEW t \in Task, Acks(t)
  PROVE  /\ acked' \in 0..made
         /\ \A n \in 1..acked' : n \in 1..acked \/ n \in handled \union Hands(t)
<1>1. acked \in 0..made /\ made \in 0..MaxRecord
  BY DEF Inv, Types
<1>2. Records(task[t].todo) \subseteq 1..made
      /\ Records(task[t].todo) \subseteq handled \union Hands(t)
  BY DEF Inv, TaskSound, Hands
<1> QED BY <1>1, <1>2, RecordAssumption DEF Acks

\* The step lemma: t goes on with r, and what it had in hand of acknowledged
\* records it has passed on, given up as lost, or still has.
LEMMA StepKeeps ==
  ASSUME Inv, NEW t \in Task, NEW r, Moves(t, r), TaskSound(r, handled', made'),
         handled \subseteq handled', lost \subseteq lost', Acks(t),
         made' = made,
         \A n \in Hands(t) : n <= acked'
            => n \in handled' \union lost' \union Records(r.frames \union r.kept)
  PROVE  /\ task' \in [Task -> Tasks] /\ AcknowledgedIsKept'
         /\ \A u \in Task : TaskSound(task'[u], handled', made')
<1>1. r \in Tasks
  BY DEF TaskSound
<1>2. task' \in [Task -> Tasks]
  BY <1>1, MovesTasks
<1>3. ASSUME NEW u \in Task PROVE TaskSound(task'[u], handled', made')
  <2>0. made \in Nat
    BY RecordAssumption DEF Inv, Types
  <2>1. TaskSound(task[u], handled', made')
    BY <2>0, SoundLater DEF Inv
  <2>2. TaskSound(Resting("idle"), handled', made')
    BY RestingSound DEF At
  <2> QED BY <2>1, <2>2, <1>1, MovesTasks
<1>4. ASSUME NEW u \in Task, NEW n \in Hands(u), n <= acked'
      PROVE  n \in handled' \union lost' \union UNION {Hands(v)' : v \in Task}
  <2>1. CASE task'[u] = IF u = t THEN r ELSE task[u]
    <3>1. CASE u = t
      <4>1. Hands(u)' = Records(r.frames \union r.kept)
        BY <2>1, <3>1 DEF Hands
      <4> QED BY <4>1, <3>1, <1>4
    <3>2. CASE u # t
      BY <2>1, <3>2, <1>4 DEF Hands
    <3> QED BY <3>1, <3>2
  <2>2. CASE /\ u = "listener" /\ task'[u] = Resting("idle")
             /\ u = t => r.at = "off"
             /\ u # t => task[u].at = "off"
    <3>1. CASE u = t
      <4>1. r.frames = {} /\ r.kept = {}
        BY <2>2, <3>1 DEF TaskSound
      <4>2. Records(r.frames \union r.kept) = {}
        BY <4>1, RecordsOf
      <4> QED BY <4>2, <3>1, <1>4
    <3>2. CASE u # t
      <4>1. task[u].frames = {} /\ task[u].kept = {}
        BY <2>2, <3>2 DEF Inv, TaskSound
      <4>2. task[u].frames \union task[u].kept = {}
        BY <4>1
      <4>3. Hands(u) = {}
        BY <4>2, NoRecords DEF Hands
      <4> QED BY <4>3
    <3> QED BY <3>1, <3>2
  <2> QED BY <2>1, <2>2, <1>1, MovesTasks
<1>5. AcknowledgedIsKept'
  <2>1. ASSUME NEW n \in 1..acked'
        PROVE  n \in handled' \union lost' \union UNION {Hands(v)' : v \in Task}
    <3>1. n <= acked' /\ (n \in 1..acked \/ n \in handled \union Hands(t))
      BY <2>1, AcksBound
    <3>2. CASE n \in handled \union lost
      BY <3>2
    <3>3. CASE \E u \in Task : n \in Hands(u)
      BY <3>3, <3>1, <1>4
    <3> QED BY <3>1, <3>2, <3>3 DEF Inv, AcknowledgedIsKept
  <2> QED BY <2>1 DEF AcknowledgedIsKept
<1> QED BY <1>2, <1>3, <1>5

-----------------------------------------------------------------------------
(* The actions.  Those that say nothing of the tasks come first.           *)

Quietly == /\ task' = task /\ handled' = handled /\ lost' = lost
           /\ acked' = acked /\ made' = made

LEMMA InitSound == Init => Inv
<1> SUFFICES ASSUME Init PROVE Inv
  OBVIOUS
<1>1. \A t \in Task : task[t] \in {Resting("off"), Resting("idle")}
  BY DEF Init
<1>2. Resting("off") \in Tasks /\ Resting("idle") \in Tasks
  BY DEF Resting, Tasks, At, Kind
<1>3. Types
  <2>1. task \in [Task -> Tasks]
    BY <1>2 DEF Init
  <2>2. queue \in Seq(Task)
    BY DEF Init
  <2>3. made \in 0..MaxRecord /\ acked \in 0..made
    BY RecordAssumption DEF Init
  <2> QED BY <2>1, <2>2, <2>3 DEF Init, Types
<1>4. \A t \in Task : TaskSound(task[t], handled, made)
  BY <1>1, RestingSound DEF At
<1>5. AcknowledgedIsKept
  BY DEF Init, AcknowledgedIsKept
<1>6. Records(buf) \subseteq 1..made
  <2>1. buf = {}
    BY DEF Init
  <2> QED BY <2>1, NoRecords
<1>7. task["listener"].kind = "none"
  BY <1>1 DEF Resting, Task
<1> QED BY <1>3, <1>4, <1>5, <1>6, <1>7 DEF Inv

LEMMA UnlockSound == Inv /\ Unlock => Inv'
<1> SUFFICES ASSUME Inv, Unlock PROVE Inv'
  OBVIOUS
<1>1. made \in 0..MaxRecord /\ made' = made + 1 /\ made' \in 0..MaxRecord /\ made \in Nat /\ made' \in Nat
  BY RecordAssumption DEF Inv, Types, Unlock
<1>2. Types'
  BY <1>1 DEF Inv, Types, Unlock
<1>3. ASSUME NEW t \in Task PROVE TaskSound(task[t], handled, made')
  BY <1>1, SoundLater DEF Inv
<1>4. AcknowledgedIsKept'
  BY DEF Inv, AcknowledgedIsKept, Unlock, Hands
<1>5. Records(buf) \subseteq 1..made'
  BY <1>1 DEF Inv
<1> QED BY <1>2, <1>3, <1>4, <1>5 DEF Inv, Unlock

\* Frames may come to the buffer when their records have been made.
LEMMA LockSound ==
  ASSUME Inv, Quietly, queue' = queue, up' \in BOOLEAN, due' \in SUBSET Reply,
         buf' \in SUBSET Frame, Records(buf') \subseteq 1..made
  PROVE  Inv'
<1>1. Types'
  BY DEF Inv, Types, Quietly
<1>2. AcknowledgedIsKept'
  BY DEF Inv, AcknowledgedIsKept, Quietly, Hands
<1> QED BY <1>1, <1>2 DEF Inv, Quietly

LEMMA LockStepSound ==
  ASSUME Inv, LockSends \/ LinkDrops \/ (\E f \in due : LockAnswers(f))
  PROVE  Inv'
<1>0. buf \in SUBSET Frame /\ due \in SUBSET Reply /\ made \in 0..MaxRecord /\ acked \in 0..made
      /\ up \in BOOLEAN /\ Records(buf) \subseteq 1..made
  BY DEF Inv, Types
<1>1. CASE LockSends
  <2>1. acked + 1 \in 1..made /\ acked + 1 \in 1..MaxRecord
    BY <1>0, <1>1, RecordAssumption DEF LockSends
  <2>2. buf' \in SUBSET Frame /\ buf' = buf \union {<<"record", acked + 1>>}
    BY <1>0, <1>1, <2>1 DEF LockSends, Frame
  <2>3. \A n : n \in Records(buf') => n \in Records(buf) \/ n = acked + 1
    BY <1>0, <2>2, RecordsIn
  <2>4. Records(buf') \subseteq 1..made
    BY <1>0, <2>1, <2>3
  <2> QED BY <1>0, <1>1, <2>2, <2>4, LockSound DEF LockSends, Quietly
<1>2. CASE LinkDrops
  BY <1>0, <1>2, LockSound DEF LinkDrops, Quietly
<1>3. ASSUME NEW f \in due, LockAnswers(f) PROVE Inv'
  <2>0. f \in Frame /\ f[1] # "record"
    BY <1>0 DEF Frame, Reply
  <2>1. buf' \in SUBSET Frame /\ due' \in SUBSET Reply
    BY <1>0, <1>3, <2>0 DEF LockAnswers
  <2>2. \A n : <<"record", n>> \in buf' => <<"record", n>> \in buf
    BY <1>3, <2>0 DEF LockAnswers
  <2>3. Records(buf') \subseteq 1..made
    BY <1>0, <2>1, <2>2, RecordsIn
  <2> QED BY <1>0, <1>3, <2>1, <2>3, LockSound DEF LockAnswers, Quietly
<1> QED BY <1>1, <1>2, <1>3

-----------------------------------------------------------------------------
(* Steps of a task.  The queue and the link have no part in the invariant  *)
(* but their types.                                                        *)

LEMMA ClientIsTask == \A t \in Client : t \in Task /\ t # "listener"
BY DEF Client, Task

LEMMA AckStepSound ==
  ASSUME Inv, NEW t \in Task, NEW r, Moves(t, r), TaskSound(r, handled', made),
         t \in Client \/ r.kind = "none",
         handled \subseteq handled', lost \subseteq lost', Acks(t), made' = made,
         \A n \in Hands(t) : n <= acked'
            => n \in handled' \union lost' \union Records(r.frames \union r.kept),
         handled' \in SUBSET (1..MaxRecord), lost' \in SUBSET (1..MaxRecord),
         queue' \in Seq(Task), up' \in BOOLEAN, due' \in SUBSET Reply,
         buf' \in {buf, {}}
  PROVE  Inv'
<1>1. task' \in [Task -> Tasks] /\ AcknowledgedIsKept'
      /\ \A u \in Task : TaskSound(task'[u], handled', made')
  BY StepKeeps
<1>2. Types'
  BY <1>1, AcksBound DEF Inv, Types
<1>3. Records(buf') \subseteq 1..made'
  BY NoRecords DEF Inv
<1>4. task'["listener"].kind = "none"
  <2>1. r \in Tasks /\ "listener" \in Task
    BY DEF TaskSound, Task
  <2>2. task["listener"].kind = "none"
    BY DEF Inv
  <2>3. Resting("idle").kind = "none"
    BY DEF Resting
  <2> QED BY <2>1, <2>2, <2>3, MovesTasks, ClientIsTask
<1> QED BY <1>1, <1>2, <1>3, <1>4 DEF Inv

LEMMA TaskStepSound ==
  ASSUME Inv, NEW t \in Task, NEW r, Moves(t, r), TaskSound(r, handled', made),
         t \in Client \/ r.kind = "none",
         handled \subseteq handled', lost \subseteq lost', acked' = acked, made' = made,
         \A n \in Hands(t) : n <= acked
            => n \in handled' \union lost' \union Records(r.frames \union r.kept),
         handled' \in SUBSET (1..MaxRecord), lost' \in SUBSET (1..MaxRecord),
         queue' \in Seq(Task), up' \in BOOLEAN, due' \in SUBSET Reply,
         buf' \in {buf, {}}
  PROVE  Inv'
BY AckStepSound DEF Acks

\* The queue stays one of tasks.
LEMMA QueueTypes ==
  ASSUME Inv, NEW t \in Task
  PROVE  /\ queue \in Seq(Task) /\ Append(queue, t) \in Seq(Task)
         /\ queue # <<>> => Released \in Seq(Task) /\ Append(Released, t) \in Seq(Task)
BY DEF Inv, Types, Released

\* The listener is the only task that is no call.
LEMMA ListenerKind == Inv => \A t \in Task : t \in Client \/ task[t].kind = "none"
BY DEF Inv, Task

\* What Inv says of one task and of the sets.
LEMMA OfTask ==
  ASSUME Inv, NEW t \in Task
  PROVE  /\ TaskSound(task[t], handled, made) /\ task[t] \in Tasks
         /\ task[t].frames \in SUBSET Frame /\ task[t].kept \in SUBSET Frame
         /\ task[t].todo \in SUBSET Frame /\ task[t].kind \in Kind /\ task[t].at \in At
         /\ Hands(t) = Records(task[t].frames) \union Records(task[t].kept)
         /\ Hands(t) \subseteq 1..MaxRecord
         /\ buf \in SUBSET Frame /\ due \in SUBSET Reply /\ up \in BOOLEAN
         /\ made \in 0..MaxRecord /\ acked \in 0..made /\ made \in Nat
         /\ handled \in SUBSET (1..MaxRecord) /\ lost \in SUBSET (1..MaxRecord)
         /\ Records(buf) \subseteq 1..made /\ Records(buf) \subseteq 1..MaxRecord
<1>1. TaskSound(task[t], handled, made) /\ task[t] \in Tasks
  BY DEF Inv, TaskSound
<1>2. /\ task[t].frames \in SUBSET Frame /\ task[t].kept \in SUBSET Frame
      /\ task[t].todo \in SUBSET Frame /\ task[t].kind \in Kind /\ task[t].at \in At
  BY <1>1 DEF Tasks
<1>3. Hands(t) = Records(task[t].frames) \union Records(task[t].kept)
  BY <1>2, RecordsOf DEF Hands
<1>4. Hands(t) \subseteq 1..MaxRecord
  BY <1>2, <1>3, RecordsIn
<1>5. /\ buf \in SUBSET Frame /\ due \in SUBSET Reply /\ up \in BOOLEAN
      /\ made \in 0..MaxRecord /\ acked \in 0..made
      /\ handled \in SUBSET (1..MaxRecord) /\ lost \in SUBSET (1..MaxRecord)
  BY DEF Inv, Types
<1>6. made \in Nat
  BY <1>5, RecordAssumption
<1>7. Records(buf) \subseteq 1..made
  BY DEF Inv
<1>8. Records(buf) \subseteq 1..MaxRecord
  BY <1>5, RecordsIn
<1> QED BY <1>1, <1>2, <1>3, <1>4, <1>5, <1>6, <1>7, <1>8

\* Once everything in hand is passed on, or lost, a call may go on in any way.
LEMMA ContinuesSound ==
  ASSUME Inv, NEW t \in Client, NEW rest \in Seq(Task), Append(rest, t) \in Seq(Task),
         Continues(t, rest),
         handled \subseteq handled', lost \subseteq lost', acked' = acked, made' = made,
         buf' = buf,
         \A n \in Hands(t) : n <= acked => n \in handled' \union lost',
         handled' \in SUBSET (1..MaxRecord), lost' \in SUBSET (1..MaxRecord)
  PROVE  Inv'
<1>1. t \in Task /\ up \in BOOLEAN /\ due \in SUBSET Reply
  BY ClientIsTask, OfTask
<1>2. \/ Ends(t, rest)
      \/ \E k \in Kind : Begins(t, k, rest) /\ UNCHANGED <<up, due>>
  BY KindAssumption DEF Continues, Kind
<1>3. CASE Ends(t, rest)
  <2>1. Moves(t, Resting("idle")) /\ queue' \in Seq(Task)
    BY <1>3 DEF Ends, Moves
  <2>2. up' \in BOOLEAN /\ due' \in SUBSET Reply
    BY <1>1, <1>3 DEF Ends
  <2>3. TaskSound(Resting("idle"), handled', made)
    BY RestingSound DEF At
  <2> QED BY <1>1, <2>1, <2>2, <2>3, TaskStepSound
<1>4. ASSUME NEW k \in Kind, Begins(t, k, rest), UNCHANGED <<up, due>> PROVE Inv'
  <2>1. Moves(t, Part(t, k)) /\ queue' \in Seq(Task)
    BY <1>4 DEF Begins, Moves
  <2>2. TaskSound(Part(t, k), handled', made)
    BY PartSound
  <2>3. up' \in BOOLEAN /\ due' \in SUBSET Reply
    BY <1>1, <1>4
  <2> QED BY <1>1, <2>1, <2>2, <2>3, TaskStepSound
<1> QED BY <1>2, <1>3, <1>4

\* So may a call that has nothing in hand when its link is ready.
LEMMA ReadySound ==
  ASSUME Inv, NEW t \in Client, NEW kind \in Kind, Ready(t, kind),
         handled \subseteq handled', lost' = lost, acked' = acked, made' = made,
         buf' = buf, up' = up, due' = due, handled' \in SUBSET (1..MaxRecord),
         \A n \in Hands(t) : n <= acked => n \in handled'
  PROVE  Inv'
<1>1. t \in Task /\ up \in BOOLEAN /\ due \in SUBSET Reply /\ lost \in SUBSET (1..MaxRecord)
  BY ClientIsTask, OfTask
<1>2. Moves(t, Part(t, kind))
  BY DEF Ready, Moves
<1>3. queue' \in Seq(Task)
  BY <1>1, QueueTypes DEF Ready
<1>4. TaskSound(Part(t, kind), handled', made)
  BY PartSound
<1> QED BY <1>1, <1>2, <1>3, <1>4, TaskStepSound

\* A failure counts what was in hand as lost.
LEMMA FailsSound == ASSUME Inv, NEW t \in Task, Acks(t), Fails(t) PROVE Inv'
<1> DEFINE rest == IF Holds(t) THEN Released ELSE queue
<1>1. rest \in Seq(Task) /\ Append(rest, t) \in Seq(Task)
  BY QueueTypes DEF Holds
<1>2. /\ up \in BOOLEAN /\ due \in SUBSET Reply
      /\ handled \in SUBSET (1..MaxRecord) /\ lost' \in SUBSET (1..MaxRecord)
  BY OfTask DEF Fails
<1>3. /\ lost \subseteq lost' /\ \A n \in Hands(t) : n <= acked' => n \in lost'
      /\ UNCHANGED <<buf, made, handled>>
  BY DEF Fails
<1>4. PICK r \in {Resting("idle"), Resting("off"), Part(t, "collect")} :
        /\ Moves(t, r) /\ queue' \in {rest, Append(rest, t)} /\ (t \in Client \/ r.kind = "none")
        /\ (UNCHANGED <<up, due>> \/ (up' = FALSE /\ due' = {}))
  <2>1. CASE t = "op" /\ task[t].kind = "query" /\ task[t].at \notin Handshake
    BY <2>1 DEF Fails, Begins, Moves, Client
  <2>2. CASE ~(t = "op" /\ task[t].kind = "query" /\ task[t].at \notin Handshake)
    <3>1. Resting("idle").kind = "none" /\ Resting("off").kind = "none"
      BY DEF Resting
    <3>2. CASE t = "service" \/ task[t].kind = "collect"
      BY <2>2, <3>1, <3>2 DEF Fails, Ends, Moves
    <3>3. CASE ~(t = "service" \/ task[t].kind = "collect")
      BY <2>2, <3>1, <3>3 DEF Fails, Moves
    <3> QED BY <3>2, <3>3
  <2> QED BY <2>1, <2>2
<1>5. TaskSound(r, handled', made)
  BY <1>4, RestingSound, PartSound DEF At, Kind
<1>6. queue' \in Seq(Task) /\ up' \in BOOLEAN /\ due' \in SUBSET Reply
  BY <1>1, <1>2, <1>4
<1>7. \A n \in Hands(t) : n <= acked'
         => n \in handled' \union lost' \union Records(r.frames \union r.kept)
  BY <1>3
<1> HIDE DEF rest
<1> QED BY <1>2, <1>3, <1>4, <1>5, <1>6, <1>7, AckStepSound

\* The steps that only move a task on to another await.
LEMMA GoesSound ==
  ASSUME Inv, NEW t \in Task, NEW at \in At, Goes(t, at),
         at = "read" \/ (task[t].frames = {} /\ task[t].kept = {}),
         UNCHANGED <<up, made, acked, handled, lost>>,
         buf' \in {buf, {}}, queue' \in Seq(Task), due' \in SUBSET Reply
  PROVE  Inv'
<1> DEFINE r == [task[t] EXCEPT !.at = at]
<1>1. task' = [task EXCEPT ![t] = r]
  BY DEF Goes, Inv, Types
<1>2. r \in Tasks /\ r.at = at /\ r.kind = task[t].kind /\ r.frames = task[t].frames
      /\ r.kept = task[t].kept /\ r.todo = task[t].todo
  BY OfTask DEF Tasks
<1> HIDE DEF r
<1>3. TaskSound(r, handled', made)
  BY <1>2, OfTask DEF TaskSound
<1>4. \A n \in Hands(t) : n \in Records(r.frames \union r.kept)
  BY <1>2 DEF Hands
<1>5. /\ handled' \in SUBSET (1..MaxRecord) /\ lost' \in SUBSET (1..MaxRecord)
      /\ up' \in BOOLEAN
  BY OfTask
<1>6. t \in Client \/ r.kind = "none"
  BY <1>2, ListenerKind
<1> QED BY <1>1, <1>3, <1>4, <1>5, <1>6, TaskStepSound DEF Moves

\* Who takes the buffer has its records in hand.
LEMMA TakesSound ==
  ASSUME Inv, NEW t \in Task, NEW at \in {"paired", "answer", "ack"}, Takes(t, at),
         at = "ack" \/ task[t].kept = {},
         UNCHANGED <<up, due, made, acked, handled, lost>>, queue' \in Seq(Task)
  PROVE  Inv'
<1> DEFINE F == {f \in buf :
                   \/ f[1] = "record"
                   \/ f[1] = "pair" /\ at = "paired"
                   \/ f = <<"reply", t>> /\ task[t].kind \in {"dp", "long"} /\ at # "paired"}
           r == [task[t] EXCEPT !.at = at, !.todo = Asks(buf), !.frames = @ \union F]
<1>1. task' = [task EXCEPT ![t] = r]
  BY DEF Takes, Inv, Types
<1>2. buf \in SUBSET Frame /\ F \in SUBSET Frame /\ Asks(buf) \in SUBSET Frame
      /\ Records(Asks(buf)) = Records(buf)
  BY OfTask, RecordsOf
<1>3. \A n : <<"record", n>> \in F <=> <<"record", n>> \in buf
  OBVIOUS
<1>4. Records(F) = Records(buf)
  BY <1>2, <1>3, RecordsIn
<1> HIDE DEF F
<1>5. r \in Tasks /\ r.at = at /\ r.kind = task[t].kind
      /\ r.frames = task[t].frames \union F
      /\ r.kept = task[t].kept /\ r.todo = Asks(buf)
  <2>1. task[t] \in Tasks /\ task[t].frames \union F \in SUBSET Frame /\ at \in At
    BY <1>2, OfTask DEF At, Handshake
  <2> QED BY <1>2, <2>1 DEF Tasks
<1> HIDE DEF r
<1>6. Records(r.frames \union r.kept) = Hands(t) \union Records(buf)
  <2>1. r.frames \in SUBSET Frame /\ r.kept \in SUBSET Frame
    BY <1>5 DEF Tasks
  <2>2. Records(r.frames \union r.kept) = Records(r.frames) \union Records(r.kept)
    BY <2>1, RecordsOf
  <2>3. Records(r.frames) = Records(task[t].frames) \union Records(F)
    <3>1. task[t].frames \in SUBSET Frame
      BY OfTask
    <3>2. Records(task[t].frames \union F) = Records(task[t].frames) \union Records(F)
      BY <1>2, <3>1, RecordsOf
    <3> QED BY <1>5, <3>2
  <2> QED BY <2>2, <2>3, <1>4, <1>5, OfTask
<1>7. TaskSound(r, handled', made)
  <2>1. Records(r.todo) \subseteq 1..made
        /\ Records(r.todo) \subseteq handled' \union Records(r.frames \union r.kept)
    BY <1>2, <1>5, <1>6, OfTask
  <2>2. TaskSound(task[t], handled, made)
    BY OfTask
  <2> QED BY <1>5, <2>1, <2>2 DEF TaskSound
<1>8. /\ handled' \in SUBSET (1..MaxRecord) /\ lost' \in SUBSET (1..MaxRecord)
      /\ up' \in BOOLEAN /\ due' \in SUBSET Reply
  BY OfTask
<1>9. buf' = {}
  BY DEF Takes
<1>10. t \in Client \/ r.kind = "none"
  BY <1>5, ListenerKind
<1> QED BY <1>1, <1>6, <1>7, <1>8, <1>9, <1>10, TaskStepSound DEF Moves

\* What is passed on are records.
LEMMA DispatchTypes ==
  ASSUME Inv, NEW S \in SUBSET Frame, Dispatch(S)
  PROVE  /\ handled \subseteq handled' /\ handled' \in SUBSET (1..MaxRecord)
         /\ Records(S) \subseteq handled'
BY RecordsIn DEF Dispatch, Inv, Types

\* An acknowledged record is one that is in hand or has been passed on.
LEMMA AnswerSound == ASSUME Inv, NEW t \in Task, Answer(t) PROVE Inv'
<1>1. PICK f \in task[t].todo :
        /\ task' = [task EXCEPT ![t].todo = @ \ {f}]
        /\ acked' = IF f = <<"record", acked + 1>> THEN acked + 1 ELSE acked
  BY DEF Answer
<1>2. UNCHANGED <<up, buf, queue, due, made, handled, lost>>
  BY DEF Answer
<1> DEFINE r == [task[t] EXCEPT !.todo = @ \ {f}]
<1>3. task' = [task EXCEPT ![t] = r]
  BY <1>1 DEF Inv, Types
<1>4. r \in Tasks /\ r.at = task[t].at /\ r.kind = task[t].kind
      /\ r.frames = task[t].frames /\ r.kept = task[t].kept /\ r.todo = task[t].todo \ {f}
  BY OfTask DEF Tasks
<1> HIDE DEF r
<1>5. TaskSound(r, handled', made')
  <2>1. Records(r.todo) \subseteq Records(task[t].todo)
    BY <1>4, OfTask, RecordsOf
  <2> QED BY <1>2, <1>4, <2>1, OfTask DEF TaskSound
<1>6. task' \in [Task -> Tasks] /\ \A u \in Task : task'[u] = IF u = t THEN r ELSE task[u]
  BY <1>3, <1>4 DEF Inv, Types
<1>7. \A u \in Task : TaskSound(task'[u], handled', made')
  BY <1>2, <1>5, <1>6 DEF Inv
<1>8. \A u \in Task : Hands(u)' = Hands(u)
  BY <1>4, <1>6 DEF Hands
<1>9. acked' = acked \/ (acked' = acked + 1 /\ acked + 1 \in Records(task[t].todo))
  BY <1>1, OfTask, RecordsIn
<1>10. acked' \in 0..made
  <2>1. Records(task[t].todo) \subseteq 1..made
    BY OfTask DEF TaskSound
  <2> QED BY <1>9, <2>1, OfTask
<1>11. AcknowledgedIsKept'
  <2>1. ASSUME NEW n \in 1..acked'
        PROVE  n \in handled \union lost \union UNION {Hands(u) : u \in Task}
    <3>1. CASE n \in 1..acked
      BY <3>1 DEF Inv, AcknowledgedIsKept
    <3>2. CASE n \notin 1..acked
      <4>1. acked \in Nat
        BY OfTask
      <4>2. n = acked + 1 /\ n \in Records(task[t].todo)
        BY <1>9, <3>2, <4>1
      <4>3. n \in handled \union Records(task[t].frames \union task[t].kept)
        BY <4>2, OfTask DEF TaskSound
      <4> QED BY <4>3 DEF Hands
    <3> QED BY <3>1, <3>2
  <2> QED BY <1>2, <1>8, <2>1 DEF AcknowledgedIsKept
<1>12. Types'
  BY <1>2, <1>6, <1>10 DEF Inv, Types
<1>13. task'["listener"].kind = "none"
  BY <1>4, <1>6 DEF Inv, Task
<1> QED BY <1>2, <1>7, <1>11, <1>12, <1>13 DEF Inv

-----------------------------------------------------------------------------
(* The handshake.                                                          *)

\* A task has nothing in hand while it waits to begin, or for an answer.
LEMMA HandsEmpty ==
  ASSUME Inv, NEW t \in Task,
         task[t].at \in {"off", "idle", "send", "await", "hello", "keys", "pair"}
  PROVE  task[t].frames = {} /\ task[t].kept = {} /\ Hands(t) = {}
<1>1. task[t].frames = {} /\ task[t].kept = {}
  BY OfTask DEF TaskSound
<1> QED BY <1>1, OfTask, NoRecords

LEMMA StartSound ==
  ASSUME Inv, NEW t \in Client, NEW kind \in Kind, Start(t, kind) PROVE Inv'
<1>1. t \in Task /\ task[t].frames = {} /\ task[t].kept = {} /\ Hands(t) = {}
  BY ClientIsTask, HandsEmpty DEF Start, Is
<1>2. UNCHANGED <<made, acked, handled, lost>> /\ handled' \in SUBSET (1..MaxRecord)
      /\ lost' \in SUBSET (1..MaxRecord)
  BY <1>1, OfTask DEF Start
<1>3. CASE up
  BY <1>1, <1>2, <1>3, ReadySound DEF Start
<1>4. CASE ~up
  <2> DEFINE r == [Resting("hello") EXCEPT !.kind = kind]
  <2>1. Moves(t, r) /\ queue' \in Seq(Task) /\ up' \in BOOLEAN /\ buf' = {}
        /\ due' \in SUBSET Reply
    BY <1>1, <1>4, QueueTypes DEF Start, Moves, Reply
  <2>2. r = [at |-> "hello", kind |-> kind, frames |-> {}, kept |-> {}, todo |-> {}]
    BY DEF Resting
  <2> HIDE DEF r
  <2>3. TaskSound(r, handled', made)
    BY <2>2, NoRecords DEF TaskSound, Tasks, At, Handshake
  <2> QED BY <1>1, <1>2, <2>1, <2>3, TaskStepSound
<1> QED BY <1>3, <1>4

LEMMA GreetedSound == ASSUME Inv, NEW t \in Client, Greeted(t) PROVE Inv'
<1>1. t \in Task /\ task[t].frames = {} /\ task[t].kept = {} /\ Hands(t) = {}
  BY ClientIsTask, HandsEmpty DEF Greeted, Is
<1> DEFINE r == [task[t] EXCEPT !.at = "keys", !.todo = Asks(buf)]
<1>2. task' = [task EXCEPT ![t] = r]
  BY <1>1 DEF Greeted, Inv, Types
<1>3. buf \in SUBSET Frame /\ Asks(buf) \in SUBSET Frame /\ Records(Asks(buf)) = Records(buf)
  BY <1>1, OfTask, RecordsOf
<1>4. r \in Tasks /\ r.at = "keys" /\ r.frames = {} /\ r.kept = {} /\ r.todo = Asks(buf)
  <2>1. task[t] \in Tasks /\ "keys" \in At
    BY <1>1, OfTask DEF At, Handshake
  <2> QED BY <1>1, <1>3, <2>1 DEF Tasks
<1> HIDE DEF r
<1>5. handled \subseteq handled' /\ handled' \in SUBSET (1..MaxRecord)
      /\ Records(buf) \subseteq handled'
  BY <1>3, DispatchTypes DEF Greeted
<1>6. TaskSound(r, handled', made)
  <2>1. Records(r.todo) \subseteq 1..made
    BY <1>1, <1>3, <1>4, OfTask
  <2> QED BY <1>3, <1>4, <1>5, <2>1 DEF TaskSound
<1>7. UNCHANGED <<up, queue, due, made, acked, lost>> /\ buf' = {}
  BY DEF Greeted
<1>8. lost' \in SUBSET (1..MaxRecord) /\ up' \in BOOLEAN /\ due' \in SUBSET Reply
      /\ queue' \in Seq(Task)
  BY <1>1, <1>7, OfTask, QueueTypes
<1> QED BY <1>1, <1>2, <1>5, <1>6, <1>7, <1>8, TaskStepSound DEF Moves

LEMMA UnreachedSound == ASSUME Inv, NEW t \in Client, Unreached(t) PROVE Inv'
<1>1. t \in Task /\ Hands(t) = {} /\ buf \in SUBSET Frame
  BY ClientIsTask, HandsEmpty, OfTask DEF Unreached, Is
<1>2. Moves(t, Resting("idle"))
  BY DEF Unreached, Moves
<1>3. TaskSound(Resting("idle"), handled', made)
  BY RestingSound DEF At
<1>4. handled \subseteq handled' /\ handled' \in SUBSET (1..MaxRecord)
  BY <1>1, DispatchTypes DEF Unreached
<1>5. UNCHANGED <<queue, made, acked, lost>> /\ buf' = {} /\ up' \in BOOLEAN
      /\ due' \in SUBSET Reply
  BY DEF Unreached
<1>6. lost' \in SUBSET (1..MaxRecord) /\ queue' \in Seq(Task)
  BY <1>1, <1>5, OfTask, QueueTypes
<1> QED BY <1>1, <1>2, <1>3, <1>4, <1>5, <1>6, TaskStepSound

LEMMA PairedSound == ASSUME Inv, NEW t \in Client, Paired(t) PROVE Inv'
<1>1. t \in Task
  BY ClientIsTask
<1>2. task[t].kept = {} /\ task[t].frames \in SUBSET Frame /\ task[t].todo = {}
      /\ task[t].kind \in Kind
  BY <1>1, OfTask DEF Paired, Is, TaskSound
<1>3. Hands(t) = Records(task[t].frames)
  BY <1>1, <1>2, OfTask, NoRecords
<1>4. handled \subseteq handled' /\ handled' \in SUBSET (1..MaxRecord)
      /\ Records(task[t].frames) \subseteq handled'
  BY <1>2, DispatchTypes DEF Paired
<1>5. UNCHANGED <<up, buf, due, made, acked, lost>>
  BY DEF Paired
<1>6. CASE <<"pair", "lock">> \in task[t].frames
  BY <1>2, <1>3, <1>4, <1>5, <1>6, ReadySound DEF Paired
<1>7. CASE <<"pair", "lock">> \notin task[t].frames
  <2> DEFINE r == [task[t] EXCEPT !.at = "pair", !.frames = {}]
  <2>1. task' = [task EXCEPT ![t] = r] /\ queue' = queue
    BY <1>1, <1>7 DEF Paired, Inv, Types
  <2>2. r \in Tasks /\ r.at = "pair" /\ r.frames = {} /\ r.kept = {} /\ r.todo = {}
    <3>1. task[t] \in Tasks /\ "pair" \in At
      BY <1>1, OfTask DEF At, Handshake
    <3> QED BY <1>2, <3>1 DEF Tasks
  <2> HIDE DEF r
  <2>3. TaskSound(r, handled', made)
    BY <2>2, NoRecords DEF TaskSound
  <2>4. lost' \in SUBSET (1..MaxRecord) /\ up' \in BOOLEAN /\ due' \in SUBSET Reply
        /\ queue' \in Seq(Task)
    BY <1>1, <1>5, <2>1, OfTask, QueueTypes
  <2> QED BY <1>1, <1>3, <1>4, <1>5, <2>1, <2>3, <2>4, TaskStepSound DEF Moves
<1> QED BY <1>6, <1>7

LEMMA HandshakeSound == ASSUME Inv, NEW t \in Client, Handshakes(t) PROVE Inv'
<1>1. t \in Task
  BY ClientIsTask
<1>2. CASE Pairs(t)
  <2>1. Goes(t, "pair") /\ task[t].frames = {} /\ task[t].kept = {} /\ "pair" \in At
    BY <1>1, <1>2, HandsEmpty DEF Pairs, Is, At, Handshake
  <2>2. due' \in SUBSET Reply /\ queue' \in Seq(Task) /\ buf' = {}
        /\ UNCHANGED <<up, made, acked, handled, lost>>
    BY <1>1, <1>2, OfTask, QueueTypes DEF Pairs, Reply
  <2> QED BY <1>1, <2>1, <2>2, GoesSound
<1>3. CASE PairRead(t)
  <2>1. Takes(t, "paired") /\ task[t].kept = {}
        /\ UNCHANGED <<up, due, made, acked, handled, lost>> /\ queue' \in Seq(Task)
    BY <1>1, <1>3, HandsEmpty, QueueTypes DEF PairRead, Is
  <2> QED BY <1>1, <2>1, TakesSound
<1>4. CASE Unpaired(t)
  <2>1. Ready(t, task[t].kind) /\ task[t].kind \in Kind /\ Hands(t) = {}
        /\ UNCHANGED <<up, buf, due, made, acked, handled, lost>>
        /\ handled' \in SUBSET (1..MaxRecord)
    BY <1>1, <1>4, HandsEmpty, OfTask DEF Unpaired, Is
  <2> QED BY <2>1, ReadySound
<1> QED BY <1>2, <1>3, <1>4, GreetedSound, UnreachedSound, PairedSound DEF Handshakes

-----------------------------------------------------------------------------
(* Requests.                                                               *)

LEMMA ReceivedSound == ASSUME Inv, NEW t \in Client, Received(t) PROVE Inv'
<1>1. t \in Task /\ Append(queue, t) \in Seq(Task) /\ queue \in Seq(Task)
  BY ClientIsTask, QueueTypes
<1>2. task[t].kept = {} /\ task[t].frames \in SUBSET Frame /\ task[t].todo = {}
      /\ task[t].kind \in {"dp", "query", "long"}
  BY <1>1, OfTask DEF Received, Is, TaskSound
<1>3. Hands(t) = Records(task[t].frames)
  BY <1>1, <1>2, OfTask, NoRecords
<1>4. UNCHANGED <<buf, made, acked, lost>> /\ lost' \in SUBSET (1..MaxRecord)
  BY <1>1, OfTask DEF Received
<1>5. task[t] \in Tasks /\ "read" \in At /\ due \in SUBSET Reply /\ up \in BOOLEAN
      /\ handled \in SUBSET (1..MaxRecord)
  BY <1>1, OfTask DEF At
<1>6. CASE task[t].kind = "dp"
  <2>1. Dispatch(task[t].frames)
    BY <1>6 DEF Received
  <2>2. handled \subseteq handled' /\ handled' \in SUBSET (1..MaxRecord)
        /\ Records(task[t].frames) \subseteq handled'
    BY <1>2, <2>1, DispatchTypes
  <2>3. CASE <<"reply", t>> \in task[t].frames
    <3>1. Continues(t, queue)
      BY <1>6, <2>3 DEF Received
    <3> QED BY <1>1, <1>3, <1>4, <2>2, <3>1, ContinuesSound
  <2>4. CASE <<"reply", t>> \notin task[t].frames
    <3> DEFINE r == [task[t] EXCEPT !.at = "read", !.frames = {}]
    <3>1. task' = [task EXCEPT ![t] = r] /\ queue' = Append(queue, t) /\ UNCHANGED <<up, due>>
      BY <1>1, <1>6, <2>4 DEF Received, Inv, Types
    <3>2. r \in Tasks /\ r.at = "read" /\ r.frames = {} /\ r.kept = {} /\ r.todo = {}
      BY <1>2, <1>5 DEF Tasks
    <3> HIDE DEF r
    <3>3. TaskSound(r, handled', made)
      BY <3>2, NoRecords DEF TaskSound
    <3> QED BY <1>1, <1>3, <1>4, <1>5, <2>2, <3>1, <3>3, TaskStepSound DEF Moves
  <2> QED BY <2>3, <2>4
<1>7. CASE task[t].kind # "dp"
  <2> DEFINE r == [task[t] EXCEPT !.at = "read", !.kept = Recorded(task[t].frames),
                                  !.frames = {}]
  <2>1. task' = [task EXCEPT ![t] = r] /\ queue' = Append(queue, t)
        /\ UNCHANGED <<up, due, handled>>
    BY <1>1, <1>7 DEF Received, Inv, Types
  <2>2. Recorded(task[t].frames) \in SUBSET Frame
        /\ Records(Recorded(task[t].frames)) = Records(task[t].frames)
    BY <1>2, RecordsOf
  <2>3. r \in Tasks /\ r.at = "read" /\ r.frames = {} /\ r.todo = {}
        /\ r.kept = Recorded(task[t].frames) /\ r.kind = task[t].kind
    BY <1>2, <1>5, <2>2 DEF Tasks
  <2> HIDE DEF r
  <2>4. TaskSound(r, handled', made)
    BY <1>2, <2>3, NoRecords DEF TaskSound
  <2>5. r.frames \union r.kept = Recorded(task[t].frames)
    BY <2>3
  <2>6. Hands(t) = Records(r.frames \union r.kept)
    BY <1>3, <2>2, <2>5
  <2> QED BY <1>1, <1>4, <1>5, <2>1, <2>4, <2>6, TaskStepSound DEF Moves
<1> QED BY <1>6, <1>7

LEMMA CollectedSound == ASSUME Inv, NEW t \in Client, Collected(t) PROVE Inv'
<1>1. t \in Task /\ Released \in Seq(Task) /\ Append(Released, t) \in Seq(Task)
  BY ClientIsTask, QueueTypes DEF Collected, Holds
<1>2. task[t].frames \union task[t].kept \in SUBSET Frame
  BY <1>1, OfTask
<1>3. handled \subseteq handled' /\ handled' \in SUBSET (1..MaxRecord)
      /\ Hands(t) \subseteq handled'
  BY <1>2, DispatchTypes DEF Collected, Hands
<1>4. UNCHANGED <<buf, made, acked, lost>> /\ lost' \in SUBSET (1..MaxRecord)
      /\ Continues(t, Released)
  BY <1>1, OfTask DEF Collected
<1> QED BY <1>1, <1>3, <1>4, ContinuesSound

LEMMA DrainedSound == ASSUME Inv, NEW t \in Client, Drained(t) PROVE Inv'
<1>1. t \in Task /\ Released \in Seq(Task) /\ Append(Released, t) \in Seq(Task)
      /\ up \in BOOLEAN /\ due \in SUBSET Reply
  BY ClientIsTask, QueueTypes, OfTask DEF Drained, Holds
<1>2. task[t].frames \in SUBSET Frame /\ task[t].kept = {}
  BY <1>1, OfTask DEF Drained, TaskSound
<1>3. Hands(t) = Records(task[t].frames)
  BY <1>1, <1>2, OfTask, NoRecords
<1>4. handled \subseteq handled' /\ handled' \in SUBSET (1..MaxRecord)
      /\ Hands(t) \subseteq handled'
  BY <1>2, <1>3, DispatchTypes DEF Drained
<1>5. UNCHANGED <<buf, made, acked, lost>> /\ lost' \in SUBSET (1..MaxRecord)
  BY <1>1, OfTask DEF Drained
<1>6. CASE Continues(t, Released)
  BY <1>1, <1>4, <1>5, <1>6, ContinuesSound
<1>7. ASSUME NEW r \in {Part(t, "drain"), Resting("idle")}, task' = [task EXCEPT ![t] = r],
             queue' \in {Released, Append(Released, t)}, UNCHANGED <<up, due>>
      PROVE  Inv'
  <2>1. TaskSound(r, handled', made)
    BY PartSound, RestingSound DEF At, Kind
  <2> QED BY <1>1, <1>4, <1>5, <1>7, <2>1, TaskStepSound DEF Moves
<1> QED BY <1>6, <1>7 DEF Drained, Begins

LEMMA AwaitedSound == ASSUME Inv, NEW t \in Client, Awaited(t) PROVE Inv'
<1>1. t \in Task /\ Released \in Seq(Task) /\ Append(Released, t) \in Seq(Task)
  BY ClientIsTask, QueueTypes DEF Awaited, Holds
<1>2. task[t].frames \in SUBSET Frame /\ task[t].kept \in SUBSET Frame
      /\ Hands(t) = Records(task[t].frames) \union Records(task[t].kept)
      /\ Hands(t) \subseteq 1..MaxRecord
      /\ handled \in SUBSET (1..MaxRecord) /\ lost \in SUBSET (1..MaxRecord)
      /\ due \in SUBSET Reply
  BY <1>1, OfTask
<1>3. UNCHANGED <<buf, made, acked>>
  BY DEF Awaited
<1>4. ASSUME task' = task, queue' = Append(Released, t), UNCHANGED <<up, due, handled, lost>>
      PROVE  Inv'
  <2>1. task[t].at = "read" /\ "read" \in At
    BY DEF Awaited, Is, At
  <2>2. Goes(t, "read")
    BY <1>1, <1>4, <2>1 DEF Goes, Inv, Types, Tasks
  <2> QED BY <1>1, <1>2, <1>3, <1>4, <2>1, <2>2, GoesSound
<1>5. ASSUME Dispatch(task[t].kept), Continues(t, Released),
             lost' = lost \union {n \in Records(task[t].frames) : n <= acked}
      PROVE  Inv'
  <2>1. handled \subseteq handled' /\ handled' \in SUBSET (1..MaxRecord)
        /\ Records(task[t].kept) \subseteq handled'
    BY <1>2, <1>5, DispatchTypes
  <2>2. lost' \in SUBSET (1..MaxRecord) /\ lost \subseteq lost'
        /\ \A n \in Hands(t) : n <= acked => n \in handled' \union lost'
    BY <1>2, <1>5, <2>1
  <2> QED BY <1>1, <1>3, <1>5, <2>1, <2>2, ContinuesSound
<1> QED BY <1>4, <1>5 DEF Awaited

LEMMA RequestSound == ASSUME Inv, NEW t \in Client, Requests(t) PROVE Inv'
<1>1. t \in Task
  BY ClientIsTask
<1>2. CASE Send(t)
  <2>1. Goes(t, "await") /\ task[t].frames = {} /\ task[t].kept = {} /\ "await" \in At
    BY <1>1, <1>2, HandsEmpty DEF Send, Is, At
  <2>2. due' \in SUBSET Reply /\ queue' \in Seq(Task) /\ buf' = {}
        /\ UNCHANGED <<up, made, acked, handled, lost>>
    BY <1>1, <1>2, OfTask, QueueTypes DEF Send, Reply
  <2> QED BY <1>1, <2>1, <2>2, GoesSound
<1>3. CASE Receive(t)
  <2>1. Takes(t, "answer") /\ task[t].kept = {} /\ queue' \in Seq(Task)
        /\ UNCHANGED <<up, due, made, acked, handled, lost>>
    BY <1>1, <1>3, HandsEmpty, QueueTypes DEF Receive, Is, Holds
  <2> QED BY <1>1, <2>1, TakesSound
<1>4. CASE Read(t)
  <2>1. Takes(t, "ack") /\ queue' \in Seq(Task)
        /\ UNCHANGED <<up, due, made, acked, handled, lost>>
    BY <1>1, <1>4, QueueTypes DEF Read
  <2> QED BY <1>1, <2>1, TakesSound
<1>5. CASE ReadOn(t)
  <2>1. Goes(t, "read") /\ "read" \in At /\ UNCHANGED <<up, buf, made, acked, handled, lost>>
        /\ queue' \in Seq(Task) /\ due' \in SUBSET Reply
    BY <1>1, <1>5, QueueTypes, OfTask DEF ReadOn, At
  <2> QED BY <1>1, <2>1, GoesSound
<1> QED BY <1>2, <1>3, <1>4, <1>5, ReceivedSound, CollectedSound, DrainedSound,
           AwaitedSound DEF Requests

-----------------------------------------------------------------------------
(* The listener.                                                           *)

LEMMA ListenerSound == ASSUME Inv, Listener PROVE Inv'
<1> DEFINE l == "listener"
<1>1. l \in Task
  BY DEF Task
<1>2. CASE Listens
  <2>1. task[l].frames = {} /\ task[l].kept = {} /\ queue \in Seq(Task)
        /\ Append(queue, l) \in Seq(Task) /\ due \in SUBSET Reply
    BY <1>1, <1>2, HandsEmpty, QueueTypes, OfTask DEF Listens, Is
  <2>2. UNCHANGED <<up, due, made, acked, handled, lost>>
    BY <1>2 DEF Listens
  <2>3. CASE queue = <<>>
    BY <1>1, <1>2, <2>1, <2>2, <2>3, TakesSound DEF Listens
  <2>4. CASE queue # <<>>
    <3>1. Goes(l, "read") /\ queue' = Append(queue, l) /\ buf' = buf /\ "read" \in At
      BY <1>2, <2>4 DEF Listens, At
    <3> QED BY <1>1, <2>1, <2>2, <3>1, GoesSound
  <2> QED BY <2>3, <2>4
<1>3. CASE ListenerPasses
  <2>1. task[l].kept = {} /\ task[l].frames \in SUBSET Frame
    BY <1>1, <1>3, OfTask DEF ListenerPasses, Is, TaskSound
  <2>2. Hands(l) = Records(task[l].frames)
    BY <1>1, <2>1, OfTask, NoRecords
  <2>3. handled \subseteq handled' /\ handled' \in SUBSET (1..MaxRecord)
        /\ Hands(l) \subseteq handled'
    BY <1>3, <2>1, <2>2, DispatchTypes DEF ListenerPasses
  <2>4. Moves(l, Resting("idle")) /\ UNCHANGED <<up, buf, queue, due, made, acked, lost>>
    BY <1>3 DEF ListenerPasses, Moves
  <2>5. TaskSound(Resting("idle"), handled', made)
    BY RestingSound DEF At
  <2>6. lost' \in SUBSET (1..MaxRecord) /\ up' \in BOOLEAN /\ due' \in SUBSET Reply
        /\ queue' \in Seq(Task)
    BY <1>1, <2>4, OfTask, QueueTypes
  <2>7. Resting("idle").kind = "none"
    BY DEF Resting
  <2> QED BY <1>1, <2>3, <2>4, <2>5, <2>6, <2>7, TaskStepSound
<1>4. CASE ListenerStops
  <2>1. Hands(l) = {}
    BY <1>1, <1>4, HandsEmpty DEF ListenerStops, Is
  <2>2. Moves(l, Resting("off")) /\ UNCHANGED <<up, buf, queue, due, made, acked, handled, lost>>
    BY <1>4 DEF ListenerStops, Moves
  <2>3. TaskSound(Resting("off"), handled', made)
    BY RestingSound DEF At
  <2>4. lost' \in SUBSET (1..MaxRecord) /\ up' \in BOOLEAN /\ due' \in SUBSET Reply
        /\ queue' \in Seq(Task) /\ handled' \in SUBSET (1..MaxRecord)
    BY <1>1, <2>2, OfTask, QueueTypes
  <2>5. Resting("off").kind = "none"
    BY DEF Resting
  <2> QED BY <1>1, <2>1, <2>2, <2>3, <2>4, <2>5, TaskStepSound
<1>5. CASE ListenerTakes
  <2>1. Takes(l, "answer") /\ queue' \in Seq(Task)
        /\ UNCHANGED <<up, due, made, acked, handled, lost>>
    BY <1>1, <1>5, QueueTypes DEF ListenerTakes, Holds
  <2>2. task[l].kept = {}
    BY <1>1 DEF Inv, TaskSound
  <2> QED BY <1>1, <2>1, <2>2, TakesSound
<1> QED BY <1>2, <1>3, <1>4, <1>5 DEF Listener

-----------------------------------------------------------------------------

LEMMA FailureSound == ASSUME Inv, Failure PROVE Inv'
<1>1. ASSUME NEW t \in Client, PairFails(t) \/ SendFails(t) PROVE Inv'
  <2>1. t \in Task /\ Acks(t) /\ Fails(t)
    BY <1>1, ClientIsTask DEF PairFails, SendFails, Acks
  <2> QED BY <2>1, FailsSound
<1>2. ASSUME NEW t \in Task, AnswerFails(t) PROVE Inv'
  <2>1. Acks(t) /\ Fails(t)
    BY <1>2 DEF AnswerFails, Acks
  <2> QED BY <2>1, FailsSound
<1> QED BY <1>1, <1>2 DEF Failure

LEMMA NextSound == Inv /\ [Next]_vars => Inv'
<1> SUFFICES ASSUME Inv, [Next]_vars PROVE Inv'
  OBVIOUS
<1>1. CASE Lock
  BY <1>1, UnlockSound, LockStepSound DEF Lock
<1>2. CASE Failure
  BY <1>2, FailureSound
<1>3. ASSUME NEW t \in Client, Calls(t) PROVE Inv'
  BY <1>3, StartSound, HandshakeSound, RequestSound DEF Calls
<1>4. ASSUME NEW t \in Task, Answer(t) PROVE Inv'
  BY <1>4, AnswerSound
<1>5. CASE Listener
  BY <1>5, ListenerSound
<1>6. CASE UNCHANGED vars
  BY <1>6 DEF vars, Inv, Types, AcknowledgedIsKept, Hands
<1> QED BY <1>1, <1>2, <1>3, <1>4, <1>5, <1>6 DEF Next, Works

LEMMA InvHolds == Spec => []Inv
BY InitSound, NextSound, PTL DEF Spec

\* Types: buffer, requests and what tasks have in hand stay frames, and the
\* lock has never had more acknowledged than it has made (_handle_time_requests
\* answers only what was taken from the buffer).
THEOREM TypeCorrect == Spec => []TypeOK
<1> DEFINE Flag == deaf \in BOOLEAN
<1>1. Init => Flag
  BY DEF Init
<1>2. Flag /\ [Next]_vars => Flag'
  BY DEF Next, Deafens, vars
<1>3. Inv /\ Flag => TypeOK
  BY DEF Inv, TypeOK
<1> QED BY <1>1, <1>2, <1>3, InvHolds, PTL DEF Spec

\* However many records and whatever the calls: an acknowledged record is
\* passed on, in the hands of a task, or among those given up by a broken link
\* or a call that reads without passing on (_handle_time_requests, _collect,
\* _dispatch_dp_reports).
THEOREM AcknowledgedIsKeptHolds == Spec => []AcknowledgedIsKept
<1>1. Inv => AcknowledgedIsKept
  BY DEF Inv
<1> QED BY <1>1, InvHolds, PTL

-----------------------------------------------------------------------------
(* Somebody listens: a call that ends leaves a listener or no link, and a   *)
(* listener ends with the link.                                             *)

LEMMA StillBusy ==
  ASSUME NEW t \in Client, task'[t].at # "idle" PROVE SomeoneListens'
BY DEF SomeoneListens, Is

LEMMA MovesBusy ==
  ASSUME NEW t \in Client, NEW r, task'[t] = r, r.at # "idle" PROVE SomeoneListens'
BY StillBusy

LEMMA TakesAt ==
  ASSUME Inv, NEW t \in Task, NEW at, Takes(t, at) PROVE task'[t].at = at
<1> DEFINE F == {f \in buf :
                   \/ f[1] = "record"
                   \/ f[1] = "pair" /\ at = "paired"
                   \/ f = <<"reply", t>> /\ task[t].kind \in {"dp", "long"} /\ at # "paired"}
           r == [task[t] EXCEPT !.at = at, !.todo = Asks(buf), !.frames = @ \union F]
<1>1. task[t] \in Tasks /\ task'[t] = r
  BY DEF Takes, Inv, Types
<1> HIDE DEF F
<1>2. r.at = at
  BY <1>1 DEF Tasks
<1> HIDE DEF r
<1> QED BY <1>1, <1>2

LEMMA GoesAt ==
  ASSUME Inv, NEW t \in Task, NEW at, Goes(t, at) PROVE task'[t].at = at
<1>1. task[t] \in Tasks /\ task'[t] = [task[t] EXCEPT !.at = at]
  BY DEF Inv, Types, Goes
<1> QED BY <1>1 DEF Tasks

LEMMA AwaitsBusy ==
  ASSUME Inv, NEW t \in Client, NEW at, at # "idle", Takes(t, at) \/ Goes(t, at)
  PROVE  SomeoneListens'
<1>1. task'[t].at = at
  BY ClientIsTask, TakesAt, GoesAt
<1> QED BY <1>1, StillBusy

LEMMA ReadyBusy ==
  ASSUME Inv, NEW t \in Client, NEW k, Ready(t, k) PROVE SomeoneListens'
<1>1. t \in Task /\ t # "listener" /\ task \in [Task -> Tasks]
  BY ClientIsTask DEF Inv, Types
<1>2. task'[t] = Part(t, k)
  BY <1>1 DEF Ready, Listening
<1>3. Part(t, k).at # "idle"
  BY DEF Part, Resting
<1> QED BY <1>2, <1>3, StillBusy

LEMMA BeginsBusy ==
  ASSUME Inv, NEW t \in Client, NEW k, NEW rest, Begins(t, k, rest) PROVE SomeoneListens'
<1>1. t \in Task /\ task \in [Task -> Tasks]
  BY ClientIsTask DEF Inv, Types
<1>2. task'[t] = Part(t, k)
  BY <1>1 DEF Begins
<1>3. Part(t, k).at # "idle"
  BY DEF Part, Resting
<1> QED BY <1>2, <1>3, StillBusy

LEMMA ContinuesListening ==
  ASSUME Inv, NEW t \in Client, NEW rest, Continues(t, rest) PROVE SomeoneListens'
<1>1. t \in Task /\ t # "listener" /\ task \in [Task -> Tasks] /\ "listener" \in Task
  BY ClientIsTask DEF Inv, Types, Task
<1>2. CASE \E k \in Kind \union ServiceKind : Begins(t, k, rest)
  BY <1>2, BeginsBusy
<1>3. CASE Ends(t, rest)
  <2>1. CASE t = "op"
    <3>1. task' = Listening([task EXCEPT ![t] = Resting("idle")])
      BY <1>3, <2>1 DEF Ends
    <3>2. task'["listener"].at # "off"
      BY <1>1, <3>1 DEF Listening, Resting
    <3> QED BY <3>2 DEF SomeoneListens, Is
  <2>2. CASE t # "op"
    BY <1>3, <2>2 DEF Ends, SomeoneListens
  <2> QED BY <2>1, <2>2
<1> QED BY <1>2, <1>3 DEF Continues, Kind

LEMMA DownListening == ASSUME ~up' PROVE SomeoneListens'
BY DEF SomeoneListens

LEMMA HandshakeListening ==
  ASSUME Inv, NEW t \in Client, Handshakes(t) PROVE SomeoneListens'
<1>1. t \in Task /\ task \in [Task -> Tasks]
  BY ClientIsTask DEF Inv, Types
<1>2. CASE Greeted(t)
  <2> DEFINE r == [task[t] EXCEPT !.at = "keys", !.todo = Asks(buf)]
  <2>1. task'[t] = r
    BY <1>1, <1>2 DEF Greeted
  <2>2. r.at = "keys"
    BY <1>1 DEF Tasks
  <2> HIDE DEF r
  <2> QED BY <2>1, <2>2, MovesBusy
<1>6. CASE Pairs(t) \/ PairRead(t)
  BY <1>6, AwaitsBusy DEF Pairs, PairRead
<1>3. CASE Unreached(t)
  BY <1>3, DownListening DEF Unreached
<1>4. CASE Paired(t)
  <2> DEFINE r == [task[t] EXCEPT !.at = "pair", !.frames = {}]
  <2>1. Ready(t, task[t].kind) \/ task'[t] = r
    BY <1>1, <1>4 DEF Paired
  <2>2. r.at = "pair"
    BY <1>1 DEF Tasks
  <2> HIDE DEF r
  <2> QED BY <2>1, <2>2, ReadyBusy, MovesBusy
<1>5. CASE Unpaired(t)
  BY <1>5, ReadyBusy DEF Unpaired
<1> QED BY <1>2, <1>3, <1>4, <1>5, <1>6 DEF Handshakes

LEMMA StartListening ==
  ASSUME Inv, NEW t \in Client, NEW k \in Kind, Start(t, k) PROVE SomeoneListens'
<1>1. t \in Task /\ task \in [Task -> Tasks]
  BY ClientIsTask DEF Inv, Types
<1>2. CASE up
  BY <1>2, ReadyBusy DEF Start
<1>3. CASE ~up
  BY <1>1, <1>3, StillBusy DEF Start, Resting
<1> QED BY <1>2, <1>3

LEMMA RequestListening ==
  ASSUME Inv, NEW t \in Client, Requests(t), ~UNCHANGED <<up, task>> PROVE SomeoneListens'
<1>1. t \in Task /\ task \in [Task -> Tasks]
  BY ClientIsTask DEF Inv, Types
<1>2. CASE Send(t) \/ Receive(t) \/ Read(t) \/ ReadOn(t)
  BY <1>2, AwaitsBusy DEF Send, Receive, Read, ReadOn
<1>4. CASE Received(t)
  <2> DEFINE r == [task[t] EXCEPT !.at = "read", !.frames = {}]
             k == [task[t] EXCEPT !.at = "read", !.kept = Recorded(task[t].frames), !.frames = {}]
  <2>1. Continues(t, queue) \/ task'[t] = r \/ task'[t] = k
    BY <1>1, <1>4 DEF Received
  <2>2. r.at = "read" /\ k.at = "read"
    BY <1>1 DEF Tasks
  <2> HIDE DEF r, k
  <2> QED BY <2>1, <2>2, ContinuesListening, MovesBusy
<1>5. CASE Collected(t)
  BY <1>5, ContinuesListening DEF Collected
<1>6. CASE Drained(t)
  BY <1>6, ContinuesListening, BeginsBusy, DownListening DEF Drained
<1>7. CASE Awaited(t)
  <2>1. Continues(t, Released)
    BY <1>7 DEF Awaited
  <2> QED BY <2>1, ContinuesListening
<1> QED BY <1>2, <1>4, <1>5, <1>6, <1>7 DEF Requests

\* A step that leaves link and awaits as they are leaves the ghost to the rest.
LEMMA SameListening ==
  ASSUME SomeoneListens, up' = up, \A u \in Task : task'[u].at = task[u].at, Deafens(FALSE)
  PROVE  SomeoneListens'
<1>1. "listener" \in Task /\ \A t \in Client : t \in Task
  BY DEF Task
<1>2. CASE Unheard
  <2>1. Unheard'
    BY <1>1, <1>2 DEF Unheard, Is
  <2>2. deaf => deaf'
    BY <2>1, Zenon DEF Deafens
  <2> QED BY <1>1, <2>2 DEF SomeoneListens, Is
<1>3. CASE ~Unheard
  <2>1. ~Unheard'
    BY <1>1, <1>3 DEF Unheard, Is
  <2> QED BY <2>1 DEF SomeoneListens, Unheard
<1> QED BY <1>2, <1>3

\* A failure, and what it leaves.
LEMMA FailureListening == ASSUME Deafens(TRUE) PROVE SomeoneListens'
<1>1. Unheard' => deaf'
  BY Zenon DEF Deafens
<1> QED BY <1>1 DEF SomeoneListens, Unheard

LEMMA NextListening == Inv /\ SomeoneListens /\ [Next]_vars => SomeoneListens'
<1> SUFFICES ASSUME Inv, SomeoneListens, [Next]_vars PROVE SomeoneListens'
  OBVIOUS
<1>0. task \in [Task -> Tasks] /\ "listener" \in Task
  BY DEF Inv, Types, Task
<1>1. CASE Deafens(FALSE) /\ UNCHANGED <<up, task>>
  BY <1>1, SameListening
<1>2. CASE Lock /\ Deafens(FALSE)
  BY <1>1, <1>2, DownListening DEF Lock, Unlock, LockSends, LockAnswers, LinkDrops
<1>3. ASSUME NEW t \in Client, Calls(t), Deafens(FALSE)
      PROVE  SomeoneListens'
  BY <1>1, <1>3, StartListening, HandshakeListening, RequestListening DEF Calls
<1>4. ASSUME NEW t \in Task, Answer(t), Deafens(FALSE) PROVE SomeoneListens'
  <2>1. PICK f \in task[t].todo : task' = [task EXCEPT ![t].todo = @ \ {f}]
    BY <1>4 DEF Answer
  <2>2. \A u \in Task : task'[u].at = task[u].at
    BY <1>0, <2>1 DEF Tasks
  <2> QED BY <1>4, <2>2, SameListening DEF Answer
<1>5. CASE Listener
  <2>1. CASE ListenerStops
    BY <2>1, DownListening DEF ListenerStops
  <2>2. CASE ~ListenerStops
    <3>1. Takes("listener", "answer") \/ Goes("listener", "read")
            \/ task' = [task EXCEPT !["listener"] = Resting("idle")]
      BY <1>5, <2>2 DEF Listener, Listens, ListenerTakes, ListenerPasses
    <3>2. task'["listener"].at # "off"
      BY <1>0, <3>1, TakesAt, GoesAt DEF Resting
    <3> QED BY <3>2 DEF SomeoneListens, Is
  <2> QED BY <1>5, <2>1, <2>2
<1>6. CASE Failure /\ Deafens(TRUE)
  BY <1>6, FailureListening
<1>7. CASE UNCHANGED vars
  BY <1>7 DEF vars, SomeoneListens, Is
<1> QED BY <1>2, <1>3, <1>4, <1>5, <1>6, <1>7 DEF Next, Works

\* Whoever made the link and in whatever order calls, drops, reconnects and
\* failures come: a link that nobody uses has a listener (_reset_idle_timer,
\* _start_listener, the services' own disconnect), or it is one on which a
\* write has failed since the listener was last started (coordinator.py:600,
\* 675, 881). So a failure is the only thing that silences a link, and only
\* until the next operation that is completed.
THEOREM SomeoneListensHolds == Spec => []SomeoneListens
<1>1. Init => SomeoneListens
  BY DEF Init, SomeoneListens
<1>2. SomeoneListens /\ Inv /\ [Next]_vars => SomeoneListens'
  BY NextListening
<1> QED BY <1>1, <1>2, InvHolds, PTL DEF Spec

-----------------------------------------------------------------------------
(* Replies stay.  The listener that is in the queue for _lock joined it      *)
(* while no operation was under way, so that it comes before the operation;  *)
(* and an operation that has sent its request has been at the head of the    *)
(* queue since, when the listener was no longer in it.                       *)

Queued == {"send", "await", "read", "ack"}

Awaiting(t) == /\ task[t].kind \in {"dp", "query"}
               /\ task[t].at \in {"await", "answer", "read", "ack"}

Absent(q, t) == \A i \in 1..Len(q) : q[i] # t
Once(q, t) == \A i, j \in 1..Len(q) : q[i] = t /\ q[j] = t => i = j

\* A call is in the queue while it holds _lock or waits for it, and only then
\* and only once; it holds the lock while it waits for frames or answers them.
Placed(t) ==
  /\ task[t].at \in {"send", "await", "read"} => task[t].todo = {}
  /\ task[t].at \in {"await", "ack"} => Holds(t)
  /\ Once(queue, t)
  /\ task[t].at \notin Queued => Absent(queue, t)

Ahead(q) ==
  /\ \E j \in 1..Len(q) : q[j] = "listener"
  /\ \A i \in 1..Len(q) : q[i] = "op" => \E j \in 1..Len(q) : j < i /\ q[j] = "listener"

OrderInv == /\ \A t \in Client : Placed(t)
            /\ Is("listener", "read") => Ahead(queue) /\ ~Awaiting("op")

\* Joining the queue, and leaving it at the head.
LEMMA Joins ==
  ASSUME NEW q \in Seq(Task), NEW u \in Task, NEW t
  PROVE  /\ Append(q, u) # <<>> /\ (q # <<>> => Head(Append(q, u)) = Head(q))
         /\ (Once(q, t) /\ u # t => Once(Append(q, u), t))
         /\ (Absent(q, t) /\ u # t => Absent(Append(q, u), t))
         /\ (Absent(q, t) => Once(Append(q, t), t))
         /\ (Ahead(q) => Ahead(Append(q, u)))
         /\ (Absent(q, "op") => Ahead(Append(q, "listener")))
<1> DEFINE a == Append(q, u)
<1>1. /\ Len(a) = Len(q) + 1 /\ Len(q) \in Nat /\ a[Len(q) + 1] = u
      /\ \A i \in 1..Len(q) : a[i] = q[i] /\ i \in 1..Len(a)
      /\ \A i \in 1..Len(a) : i \in 1..Len(q) \/ i = Len(q) + 1
  OBVIOUS
<1>2. a # <<>> /\ (q # <<>> => Head(a) = Head(q))
  <2>1. a \in Seq(Task) /\ Len(<<>>) = 0
    OBVIOUS
  <2>2. a # <<>>
    BY <1>1, <2>1
  <2>3. q # <<>> => 1 \in 1..Len(q) /\ Head(q) = q[1] /\ Head(a) = a[1]
    BY <2>1, <2>2
  <2> QED BY <1>1, <2>2, <2>3
<1> HIDE DEF a
<1>3. Once(q, t) /\ u # t => Once(a, t)
  BY <1>1 DEF Once
<1>4. Absent(q, t) /\ u # t => Absent(a, t)
  BY <1>1 DEF Absent
<1>5. Absent(q, t) => Once(Append(q, t), t)
  <2>1. /\ Len(Append(q, t)) = Len(q) + 1
        /\ \A i \in 1..Len(q) : Append(q, t)[i] = q[i]
    OBVIOUS
  <2> QED BY <1>1, <2>1 DEF Absent, Once
<1>6. Ahead(q) => Ahead(a)
  <2> SUFFICES ASSUME Ahead(q) PROVE Ahead(a)
    OBVIOUS
  <2>1. PICK l \in 1..Len(q) : q[l] = "listener"
    BY DEF Ahead
  <2>2. ASSUME NEW i \in 1..Len(a), a[i] = "op"
        PROVE  \E j \in 1..Len(a) : j < i /\ a[j] = "listener"
    <3>1. CASE i = Len(q) + 1
      BY <1>1, <2>1, <3>1
    <3>2. CASE i \in 1..Len(q)
      BY <1>1, <2>2, <3>2 DEF Ahead
    <3> QED BY <1>1, <3>1, <3>2
  <2> QED BY <1>1, <2>1, <2>2 DEF Ahead
<1>7. Absent(q, "op") => Ahead(Append(q, "listener"))
  <2> DEFINE b == Append(q, "listener")
  <2>1. /\ Len(b) = Len(q) + 1 /\ b[Len(q) + 1] = "listener" /\ Len(q) + 1 \in 1..Len(b)
        /\ \A i \in 1..Len(q) : b[i] = q[i]
    OBVIOUS
  <2> HIDE DEF b
  <2>2. Absent(q, "op") => \A i \in 1..Len(b) : b[i] # "op"
    BY <1>1, <2>1 DEF Absent
  <2>3. Absent(q, "op") => Ahead(b)
    BY <2>1, <2>2 DEF Ahead
  <2> QED BY <2>3 DEF b
<1> QED BY <1>2, <1>3, <1>4, <1>5, <1>6, <1>7 DEF a

LEMMA Leaves ==
  ASSUME NEW q \in Seq(Task), q # <<>>, NEW t
  PROVE  /\ Tail(q) \in Seq(Task)
         /\ (Once(q, t) => Once(Tail(q), t))
         /\ (Absent(q, t) => Absent(Tail(q), t))
         /\ (Once(q, t) /\ Head(q) = t => Absent(Tail(q), t))
         /\ (Ahead(q) => Head(q) # "op")
         /\ (Ahead(q) /\ Head(q) # "listener" => Ahead(Tail(q)))
<1> DEFINE a == Tail(q)
<1>1. /\ a \in Seq(Task) /\ Len(a) = Len(q) - 1 /\ Len(q) \in Nat /\ Len(q) > 0
      /\ \A i \in 1..Len(a) : a[i] = q[i + 1] /\ i + 1 \in 1..Len(q)
      /\ Head(q) = q[1] /\ 1 \in 1..Len(q)
  OBVIOUS
<1>2. \A i \in 1..Len(q) : i = 1 \/ (i - 1 \in 1..Len(a) /\ a[i - 1] = q[i])
  BY <1>1
<1> HIDE DEF a
<1>3. Once(q, t) => Once(a, t)
  BY <1>1 DEF Once
<1>4. Absent(q, t) => Absent(a, t)
  BY <1>1 DEF Absent
<1>5. Once(q, t) /\ Head(q) = t => Absent(a, t)
  BY <1>1 DEF Once, Absent
<1>6. Ahead(q) => Head(q) # "op"
  BY <1>1 DEF Ahead
<1>7. Ahead(q) /\ Head(q) # "listener" => Ahead(a)
  <2> SUFFICES ASSUME Ahead(q), Head(q) # "listener" PROVE Ahead(a)
    OBVIOUS
  <2>1. \A i \in 1..Len(q) : q[i] = "listener" => i - 1 \in 1..Len(a) /\ a[i - 1] = "listener"
    BY <1>1, <1>2
  <2>2. \E j \in 1..Len(a) : a[j] = "listener"
    BY <2>1 DEF Ahead
  <2>3. ASSUME NEW i \in 1..Len(a), a[i] = "op"
        PROVE  \E j \in 1..Len(a) : j < i /\ a[j] = "listener"
    <3>1. i + 1 \in 1..Len(q) /\ q[i + 1] = "op"
      BY <1>1, <2>3
    <3>2. PICK j \in 1..Len(q) : j < i + 1 /\ q[j] = "listener"
      BY <3>1 DEF Ahead
    <3>3. j - 1 \in 1..Len(a) /\ a[j - 1] = "listener" /\ j - 1 < i
      BY <2>1, <3>2
    <3> QED BY <3>3
  <2> QED BY <2>2, <2>3 DEF Ahead
<1> QED BY <1>1, <1>3, <1>4, <1>5, <1>6, <1>7 DEF a

\* What any step does to the queue: whoever acts joins it, or leaves its head.
Queues(t) == \/ queue' = queue \/ queue' = Append(queue, t)
             \/ Holds(t) /\ queue' = Released
             \/ Holds(t) /\ queue' = Append(Released, t)

\* The place of a call that does not act is as it was.
LEMMA OthersPlaced ==
  ASSUME Inv, NEW t \in Task, NEW u \in Client, u # t, Placed(u), Queues(t),
         task'[u] = task[u]
  PROVE  Placed(u)'
<1>1. u \in Task /\ queue \in Seq(Task)
  BY ClientIsTask DEF Inv, Types
<1>2. Holds(u) => Holds(u)'
  BY <1>1, Joins DEF Queues, Holds
<1>3. Once(queue', u) /\ (Absent(queue, u) => Absent(queue', u))
  <2>1. Once(queue, u)
    BY DEF Placed
  <2>2. CASE queue' = queue
    BY <2>1, <2>2
  <2>3. CASE queue' = Append(queue, t)
    BY <1>1, <2>1, <2>3, Joins
  <2>4. CASE Holds(t) /\ queue' \in {Released, Append(Released, t)}
    <3>1. Released \in Seq(Task) /\ Once(Released, u) /\ (Absent(queue, u) => Absent(Released, u))
      BY <1>1, <2>1, <2>4, Leaves DEF Holds, Released
    <3> QED BY <2>4, <3>1, Joins
  <2> QED BY <2>2, <2>3, <2>4 DEF Queues
<1> QED BY <1>2, <1>3 DEF Placed

\* What a call's own steps may do to its place.
Shifts(t, at) ==
  \/ task[t].at \notin Queued /\ queue' = Append(queue, t) /\ at \in {"send", "read"}
  \/ task[t].at \notin Queued /\ queue' = queue /\ at \notin Queued
  \/ Holds(t) /\ queue' = Released /\ at \notin Queued
  \/ Holds(t) /\ queue' = Append(Released, t) /\ at \in {"send", "read"}
  \/ Holds(t) /\ queue' = queue /\ at \in Queued

Steps(t) ==
  /\ task'[t].at \in {"send", "await", "read"} => task'[t].todo = {}
  /\ task'["listener"].at = "read" => task["listener"].at = "read"
  /\ \A u \in Client : u # t => task'[u] = task[u]
  /\ Awaiting(t)' => Awaiting(t) \/ Holds(t)
  /\ Shifts(t, task'[t].at)

LEMMA StepsPlaced ==
  ASSUME Inv, NEW t \in Client, Placed(t), Steps(t) PROVE Placed(t)' /\ Queues(t)
<1>1. t \in Task /\ queue \in Seq(Task)
  BY ClientIsTask DEF Inv, Types
<1>2. Queues(t)
  BY DEF Steps, Shifts, Queues
<1>3. task'[t].at \in {"send", "await", "read"} => task'[t].todo = {}
  BY DEF Steps
<1>4. task'[t].at \in {"await", "ack"} => Holds(t)'
  BY DEF Steps, Shifts, Queued, Holds
<1>5. Holds(t) => Released \in Seq(Task) /\ Absent(Released, t)
  BY <1>1, Leaves DEF Placed, Holds, Released
<1>6. Once(queue', t) /\ (task'[t].at \notin Queued => Absent(queue', t))
  <2>1. CASE task[t].at \notin Queued /\ queue' = Append(queue, t) /\ task'[t].at \in {"send", "read"}
    BY <1>1, <2>1, Joins DEF Placed, Queued
  <2>2. CASE task[t].at \notin Queued /\ queue' = queue /\ task'[t].at \notin Queued
    BY <2>2 DEF Placed
  <2>3. CASE Holds(t) /\ queue' = Released /\ task'[t].at \notin Queued
    BY <1>5, <2>3 DEF Once, Absent
  <2>4. CASE Holds(t) /\ queue' = Append(Released, t) /\ task'[t].at \in {"send", "read"}
    BY <1>1, <1>5, <2>4, Joins DEF Queued
  <2>5. CASE Holds(t) /\ queue' = queue /\ task'[t].at \in Queued
    BY <2>5 DEF Placed
  <2> QED BY <2>1, <2>2, <2>3, <2>4, <2>5 DEF Steps, Shifts
<1> QED BY <1>2, <1>3, <1>4, <1>6 DEF Placed

\* The listener in the queue stays ahead of the operation.
LEMMA StaysAhead ==
  ASSUME Inv, NEW t \in Client, Ahead(queue), Queues(t)
  PROVE  Ahead(queue') /\ ~Holds("op")
<1>1. t \in Task /\ t # "listener" /\ queue \in Seq(Task)
  BY ClientIsTask DEF Inv, Types
<1>2. ~Holds("op")
  BY <1>1, Leaves DEF Holds
<1>3. Holds(t) => Released \in Seq(Task) /\ Ahead(Released)
  BY <1>1, Leaves DEF Holds, Released
<1> QED BY <1>1, <1>2, <1>3, Joins DEF Queues

LEMMA StepsInOrder ==
  ASSUME Inv, OrderInv, NEW t \in Client, Steps(t) PROVE OrderInv'
<1>1. Placed(t)' /\ Queues(t)
  BY StepsPlaced DEF OrderInv
<1>2. ASSUME NEW u \in Client, u # t PROVE Placed(u)'
  BY <1>1, <1>2, OthersPlaced, ClientIsTask DEF OrderInv, Steps
<1>3. ASSUME task'["listener"].at = "read" PROVE Ahead(queue') /\ ~Awaiting("op")'
  <2>1. Ahead(queue) /\ ~Awaiting("op")
    BY <1>3 DEF OrderInv, Steps, Is
  <2>2. Ahead(queue') /\ ~Holds("op")
    BY <1>1, <2>1, StaysAhead
  <2>3. CASE t = "op"
    BY <2>1, <2>2, <2>3 DEF Steps
  <2>4. CASE t # "op"
    BY <2>1, <2>2, <2>4 DEF Steps, Awaiting, Client
  <2> QED BY <2>2, <2>3, <2>4
<1> QED BY <1>1, <1>2, <1>3 DEF OrderInv, Is

\* The calls' steps: t goes on as r.
LEMMA StepsWith ==
  ASSUME Inv, NEW t \in Client, NEW r \in Tasks, Moves(t, r), Shifts(t, r.at),
         r.at \in {"send", "await", "read"} => r.todo = {},
         r.kind \in {"dp", "query"} /\ r.at \in {"await", "answer", "read", "ack"}
           => Awaiting(t) \/ Holds(t)
  PROVE  Steps(t)
<1>1. t \in Task /\ t # "listener" /\ \A u \in Client : u \in Task /\ u # "listener"
  BY ClientIsTask
<1>2. \A u \in Client : task'[u] = IF u = t THEN r ELSE task[u]
  BY <1>1, MovesTasks
<1>3. task'["listener"].at = "read" => task["listener"].at = "read"
  <2>1. Resting("idle").at # "read" /\ "listener" \in Task
    BY DEF Resting, Task
  <2> QED BY <1>1, <2>1, MovesTasks
<1>4. task'[t] = r
  BY <1>2
<1>5. Awaiting(t)' => Awaiting(t) \/ Holds(t)
  BY <1>4 DEF Awaiting
<1> QED BY <1>2, <1>3, <1>4, <1>5 DEF Steps

LEMMA RestingIs ==
  ASSUME NEW at \in At
  PROVE  /\ Resting(at) \in Tasks /\ Resting(at).at = at /\ Resting(at).kind = "none"
         /\ Resting(at).todo = {}
BY DEF Resting, Tasks, Kind

LEMMA PartIs ==
  ASSUME NEW t, NEW k \in Kind
  PROVE  /\ Part(t, k) \in Tasks /\ Part(t, k).todo = {} /\ Part(t, k).kind = k
         /\ Part(t, k).at = IF k \in {"drain", "collect"} THEN "read" ELSE "send"
BY DEF Part, Resting, Tasks, Kind, At

LEMMA PartSteps ==
  ASSUME Inv, NEW t \in Client, NEW k \in Kind, Moves(t, Part(t, k)),
         \/ task[t].at \notin Queued /\ queue' = Append(queue, t)
         \/ Holds(t) /\ queue' = Append(Released, t)
  PROVE  Steps(t)
<1>1. Part(t, k).at \in {"send", "read"} /\ (k \in {"dp", "query"} => Part(t, k).at = "send")
  BY PartIs
<1>2. Shifts(t, Part(t, k).at)
  BY <1>1 DEF Shifts
<1> QED BY <1>1, <1>2, PartIs, StepsWith

LEMMA IdleSteps ==
  ASSUME Inv, NEW t \in Client, Moves(t, Resting("idle")),
         \/ task[t].at \notin Queued /\ queue' = queue
         \/ Holds(t) /\ queue' = Released
  PROVE  Steps(t)
<1>1. Resting("idle") \in Tasks /\ Resting("idle").at = "idle" /\ Resting("idle").kind = "none"
  BY RestingIs DEF At
<1>2. Shifts(t, "idle")
  BY DEF Shifts, Queued
<1> QED BY <1>1, <1>2, StepsWith

\* A call goes on, or ends, from outside the queue or from its head.
LEMMA ContinuesSteps ==
  ASSUME Inv, NEW t \in Client, NEW rest, Continues(t, rest),
         \/ task[t].at \notin Queued /\ rest = queue
         \/ Holds(t) /\ rest = Released
  PROVE  Steps(t)
<1>1. \/ Ends(t, rest)
      \/ \E k \in Kind : Begins(t, k, rest)
  BY KindAssumption DEF Continues, Kind
<1>2. CASE Ends(t, rest)
  BY <1>2, IdleSteps DEF Ends, Moves
<1>3. CASE \E k \in Kind : Begins(t, k, rest)
  BY <1>3, PartSteps DEF Begins, Moves
<1> QED BY <1>1, <1>2, <1>3

LEMMA FailsSteps ==
  ASSUME Inv, NEW t \in Client, Placed(t), Fails(t), task[t].at \notin Queued \/ Holds(t)
  PROVE  Steps(t)
<1> DEFINE rest == IF Holds(t) THEN Released ELSE queue
<1>1. queue \in Seq(Task) /\ t # "listener"
  BY ClientIsTask DEF Inv, Types
<1>2. Absent(queue, t) => ~Holds(t)
  BY <1>1 DEF Absent, Holds
<1>3. \/ task[t].at \notin Queued /\ rest = queue
      \/ Holds(t) /\ rest = Released
  BY <1>2 DEF Placed
<1>4. \/ Begins(t, "collect", rest)
      \/ queue' = rest /\ Moves(t, Resting("idle"))
  <2>1. CASE t = "op" /\ task[t].kind = "query" /\ task[t].at \notin Handshake
    BY <2>1 DEF Fails
  <2>2. CASE ~(t = "op" /\ task[t].kind = "query" /\ task[t].at \notin Handshake)
    BY <1>1, <2>2 DEF Fails, Ends, Moves
  <2> QED BY <2>1, <2>2
<1> HIDE DEF rest
<1>5. CASE Begins(t, "collect", rest)
  BY <1>3, <1>5, PartSteps DEF Begins, Moves, Kind
<1>6. CASE queue' = rest /\ Moves(t, Resting("idle"))
  BY <1>3, <1>6, IdleSteps
<1> QED BY <1>4, <1>5, <1>6

LEMMA ReadySteps ==
  ASSUME Inv, NEW t \in Client, NEW k \in Kind, Ready(t, k), task[t].at \notin Queued
  PROVE  Steps(t)
BY PartSteps DEF Ready, Moves

LEMMA GoesSteps ==
  ASSUME Inv, NEW t \in Client, NEW at \in At, Goes(t, at), Shifts(t, at),
         at \in {"send", "await", "read"} => task[t].todo = {},
         at \in {"await", "answer", "read", "ack"} => Holds(t)
  PROVE  Steps(t)
<1> DEFINE r == [task[t] EXCEPT !.at = at]
<1>0. t \in Task
  BY ClientIsTask
<1>1. task' = [task EXCEPT ![t] = r]
  BY DEF Goes, Inv, Types
<1>2. r \in Tasks /\ r.at = at /\ r.todo = task[t].todo
  BY <1>0, OfTask DEF Tasks
<1> HIDE DEF r
<1> QED BY <1>1, <1>2, StepsWith DEF Moves

LEMMA TakesSteps ==
  ASSUME Inv, NEW t \in Client, NEW at \in {"paired", "answer", "ack"}, Takes(t, at), Shifts(t, at),
         at # "paired" => Holds(t)
  PROVE  Steps(t) /\ task'[t].todo = Asks(buf)
<1> DEFINE F == {f \in buf :
                   \/ f[1] = "record"
                   \/ f[1] = "pair" /\ at = "paired"
                   \/ f = <<"reply", t>> /\ task[t].kind \in {"dp", "long"} /\ at # "paired"}
           r == [task[t] EXCEPT !.at = at, !.todo = Asks(buf), !.frames = @ \union F]
<1>0. t \in Task /\ at \in At
  BY ClientIsTask DEF At, Handshake
<1>1. task' = [task EXCEPT ![t] = r] /\ task'[t] = r
  BY <1>0 DEF Takes, Inv, Types
<1>2. task[t].frames \union F \in SUBSET Frame /\ Asks(buf) \in SUBSET Frame
  BY <1>0, OfTask, RecordsOf
<1> HIDE DEF F
<1>3. r \in Tasks /\ r.at = at /\ r.todo = Asks(buf)
  BY <1>0, <1>2, OfTask DEF Tasks
<1> HIDE DEF r
<1> QED BY <1>1, <1>3, StepsWith DEF Moves

-----------------------------------------------------------------------------

LEMMA HandshakeSteps ==
  ASSUME Inv, NEW t \in Client, Placed(t), Handshakes(t) PROVE Steps(t)
<1>1. t \in Task /\ task[t] \in Tasks /\ task[t].kind \in Kind /\ buf \in SUBSET Frame
  BY ClientIsTask, OfTask
<1>2. task[t].at \in Handshake /\ task[t].at \notin Queued
  BY DEF Handshakes, Greeted, Unreached, Pairs, PairRead, Paired, Unpaired, Is,
         Handshake, Queued
<1>3. CASE Greeted(t)
  <2> DEFINE r == [task[t] EXCEPT !.at = "keys", !.todo = Asks(buf)]
  <2>1. task' = [task EXCEPT ![t] = r] /\ queue' = queue
    BY <1>1, <1>3 DEF Greeted, Inv, Types
  <2>2. r \in Tasks /\ r.at = "keys"
    <3>1. Asks(buf) \in SUBSET Frame /\ "keys" \in At
      BY <1>1, RecordsOf DEF At, Handshake
    <3> QED BY <1>1, <3>1 DEF Tasks
  <2> HIDE DEF r
  <2>3. Shifts(t, "keys")
    BY <1>2, <2>1 DEF Shifts, Queued
  <2> QED BY <2>1, <2>2, <2>3, StepsWith DEF Moves
<1>4. CASE Unreached(t)
  BY <1>2, <1>4, IdleSteps DEF Unreached, Moves
<1>5. CASE Pairs(t)
  <2>1. Shifts(t, "pair")
    BY <1>2, <1>5 DEF Pairs, Shifts, Queued
  <2> QED BY <1>5, <2>1, GoesSteps DEF Pairs, At, Handshake
<1>7. CASE PairRead(t)
  <2>1. Shifts(t, "paired")
    BY <1>2, <1>7 DEF PairRead, Shifts, Queued
  <2> QED BY <1>7, <2>1, TakesSteps DEF PairRead
<1>8. CASE Paired(t)
  <2>1. CASE Ready(t, task[t].kind)
    BY <1>1, <1>2, <2>1, ReadySteps
  <2>2. CASE task' = [task EXCEPT ![t].at = "pair", ![t].frames = {}] /\ UNCHANGED queue
    <3> DEFINE r == [task[t] EXCEPT !.at = "pair", !.frames = {}]
    <3>1. task' = [task EXCEPT ![t] = r] /\ queue' = queue
      BY <1>1, <2>2 DEF Inv, Types
    <3>2. r \in Tasks /\ r.at = "pair"
      BY <1>1 DEF Tasks, At, Handshake
    <3> HIDE DEF r
    <3>3. Shifts(t, "pair")
      BY <1>2, <3>1 DEF Shifts, Queued
    <3> QED BY <3>1, <3>2, <3>3, StepsWith DEF Moves
  <2> QED BY <1>8, <2>1, <2>2 DEF Paired
<1>9. CASE Unpaired(t)
  BY <1>1, <1>2, <1>9, ReadySteps DEF Unpaired
<1> QED BY <1>3, <1>4, <1>5, <1>7, <1>8, <1>9 DEF Handshakes

LEMMA StartSteps ==
  ASSUME Inv, NEW t \in Client, NEW k \in Kind, Start(t, k) PROVE Steps(t)
<1>1. task[t].at \notin Queued
  BY DEF Start, Is, Queued
<1>2. CASE up
  BY <1>1, <1>2, ReadySteps DEF Start
<1>3. CASE ~up
  <2> DEFINE r == [Resting("hello") EXCEPT !.kind = k]
  <2>1. task' = [task EXCEPT ![t] = r] /\ queue' = queue
    BY <1>3 DEF Start
  <2>2. r = [at |-> "hello", kind |-> k, frames |-> {}, kept |-> {}, todo |-> {}]
    BY DEF Resting
  <2> HIDE DEF r
  <2>3. r \in Tasks /\ r.at = "hello"
    BY <2>2 DEF Tasks, At, Handshake
  <2>4. Shifts(t, "hello")
    BY <1>1, <2>1 DEF Shifts, Queued
  <2> QED BY <2>1, <2>3, <2>4, StepsWith DEF Moves
<1> QED BY <1>2, <1>3

LEMMA ReceivedSteps == ASSUME Inv, NEW t \in Client, Received(t) PROVE Steps(t)
<1>1. t \in Task /\ task[t] \in Tasks /\ task[t].frames \in SUBSET Frame
      /\ Recorded(task[t].frames) \in SUBSET Frame
  BY ClientIsTask, OfTask, RecordsOf
<1>2. task[t].at = "answer" /\ task[t].at \notin Queued /\ task[t].todo = {}
  BY DEF Received, Is, Queued
<1>3. CASE Continues(t, queue)
  BY <1>2, <1>3, ContinuesSteps
<1>4. ASSUME ~Continues(t, queue) PROVE Steps(t)
  <2> DEFINE r == [task[t] EXCEPT !.at = "read", !.frames = {}]
             k == [task[t] EXCEPT !.at = "read", !.kept = Recorded(task[t].frames), !.frames = {}]
  <2>1. PICK q \in {r, k} : task' = [task EXCEPT ![t] = q] /\ queue' = Append(queue, t)
    BY <1>1, <1>4 DEF Received, Inv, Types
  <2>2. \A s \in {r, k} : s \in Tasks /\ s.at = "read" /\ s.todo = {} /\ s.kind = task[t].kind
    BY <1>1, <1>2 DEF Tasks, At
  <2> HIDE DEF r, k
  <2>3. Shifts(t, "read")
    BY <1>2, <2>1 DEF Shifts
  <2>4. q \in Tasks /\ q.at = "read" /\ q.todo = {} /\ q.kind = task[t].kind
    BY <2>2
  <2>5. q.kind \in {"dp", "query"} => Awaiting(t)
    BY <1>2, <2>4 DEF Awaiting
  <2> QED BY <2>1, <2>3, <2>4, <2>5, StepsWith DEF Moves
<1> QED BY <1>3, <1>4

LEMMA RequestSteps ==
  ASSUME Inv, NEW t \in Client, Placed(t), Requests(t) PROVE Steps(t)
<1>1. t \in Task /\ task[t] \in Tasks
  BY ClientIsTask, OfTask
<1>2. CASE Send(t)
  <2>1. Shifts(t, "await") /\ task[t].todo = {}
    BY <1>2 DEF Send, Shifts, Queued, Placed, Is
  <2> QED BY <1>2, <2>1, GoesSteps DEF Send, At
<1>4. CASE Receive(t)
  <2>1. Shifts(t, "answer")
    BY <1>4 DEF Receive, Shifts, Queued
  <2> QED BY <1>4, <2>1, TakesSteps DEF Receive
<1>5. CASE Received(t)
  BY <1>5, ReceivedSteps
<1>6. CASE Read(t)
  <2>1. Shifts(t, "ack")
    BY <1>6 DEF Read, Shifts, Queued
  <2> QED BY <1>6, <2>1, TakesSteps DEF Read
<1>7. CASE ReadOn(t)
  <2>1. Holds(t) /\ Shifts(t, "read")
    BY <1>7 DEF ReadOn, Shifts, Queued, Placed, Is
  <2> QED BY <1>7, <2>1, GoesSteps DEF ReadOn, At
<1>8. CASE Collected(t)
  BY <1>8, ContinuesSteps DEF Collected
<1>9. CASE Drained(t)
  <2>1. Holds(t) /\ "drain" \in Kind
    BY <1>9 DEF Drained, Kind
  <2>2. CASE Continues(t, Released)
    BY <2>1, <2>2, ContinuesSteps
  <2>3. CASE Begins(t, "drain", Released)
    BY <2>1, <2>3, PartSteps DEF Begins, Moves
  <2>4. CASE queue' = Released /\ task' = [task EXCEPT ![t] = Resting("idle")]
    BY <2>1, <2>4, IdleSteps DEF Moves
  <2> QED BY <1>9, <2>2, <2>3, <2>4 DEF Drained
<1>10. CASE Awaited(t)
  <2>1. Holds(t) /\ task[t].at = "read"
    BY <1>10 DEF Awaited, Is
  <2>2. CASE Continues(t, Released)
    BY <2>1, <2>2, ContinuesSteps
  <2>3. CASE queue' = Append(Released, t) /\ task' = task
    <3>1. task' = [task EXCEPT ![t] = task[t]]
      BY <2>3 DEF Inv, Types
    <3>2. Shifts(t, task[t].at) /\ task[t].todo = {}
      BY <2>1, <2>3 DEF Shifts, Placed
    <3> QED BY <1>1, <2>1, <3>1, <3>2, StepsWith DEF Moves
  <2> QED BY <1>10, <2>2, <2>3 DEF Awaited
<1> QED BY <1>2, <1>4, <1>5, <1>6, <1>7, <1>8, <1>9, <1>10 DEF Requests

LEMMA AnswerSteps ==
  ASSUME Inv, NEW t \in Client, Placed(t), Answer(t) PROVE Steps(t)
<1>1. t \in Task /\ task[t] \in Tasks /\ task[t].todo # {}
  BY ClientIsTask, OfTask DEF Answer
<1>2. task[t].at \notin Queued \/ (task[t].at = "ack" /\ Holds(t))
  BY <1>1 DEF Placed, Queued
<1>3. PICK f \in task[t].todo : task' = [task EXCEPT ![t].todo = @ \ {f}]
  BY DEF Answer
<1> DEFINE r == [task[t] EXCEPT !.todo = @ \ {f}]
<1>4. task' = [task EXCEPT ![t] = r] /\ queue' = queue
  BY <1>1, <1>3 DEF Answer, Inv, Types
<1>5. r \in Tasks /\ r.at = task[t].at /\ r.kind = task[t].kind
  BY <1>1 DEF Tasks
<1> HIDE DEF r
<1>6. Shifts(t, r.at) /\ r.at \notin {"send", "await", "read"}
  BY <1>2, <1>4, <1>5 DEF Shifts, Queued
<1>7. r.kind \in {"dp", "query"} /\ r.at \in {"await", "answer", "read", "ack"} => Awaiting(t)
  BY <1>5 DEF Awaiting
<1> QED BY <1>4, <1>5, <1>6, <1>7, StepsWith DEF Moves

LEMMA FailureSteps ==
  ASSUME Inv, NEW t \in Client, Placed(t), PairFails(t) \/ SendFails(t) \/ AnswerFails(t)
  PROVE  Steps(t)
<1>1. Fails(t)
  BY DEF PairFails, SendFails, AnswerFails
<1>2. task[t].at \notin Queued \/ Holds(t)
  BY DEF PairFails, SendFails, AnswerFails, Is, Placed, Queued
<1> QED BY <1>1, <1>2, FailsSteps

LEMMA TakesAlone ==
  ASSUME Inv, NEW t \in Task, NEW at, Takes(t, at), NEW u \in Task, u # t
  PROVE  task'[u] = task[u]
<1>1. \E r : task' = [task EXCEPT ![t] = r]
  BY DEF Takes, Inv, Types
<1> QED BY <1>1 DEF Inv, Types

\* The listener joins the queue when no operation is under way.
LEMMA ListenerInOrder ==
  ASSUME Inv, OrderInv, Listener \/ Answer("listener") \/ AnswerFails("listener")
  PROVE  OrderInv'
<1> DEFINE l == "listener"
<1>0. l \in Task /\ task \in [Task -> Tasks] /\ queue \in Seq(Task) /\ "op" \in Client
      /\ \A u \in Client : u \in Task /\ u # l
  BY ClientIsTask DEF Inv, Types, Task, Client
<1>1. ASSUME Queues(l), \A u \in Client : task'[u] = task[u],
             task'[l].at = "read" => /\ Ahead(queue')
                                     /\ ~Awaiting("op")
      PROVE  OrderInv'
  <2>1. \A u \in Client : Placed(u)'
    BY <1>0, <1>1, OthersPlaced DEF OrderInv
  <2>2. Awaiting("op")' => Awaiting("op")
    BY <1>0, <1>1 DEF Awaiting
  <2> QED BY <1>1, <2>1, <2>2 DEF OrderInv, Is
<1>2. CASE Listens
  <2>1. CASE queue = <<>>
    <3>1. Takes(l, "answer") /\ queue' = queue
      BY <1>2, <2>1 DEF Listens
    <3>2. task'[l].at = "answer" /\ \A u \in Client : task'[u] = task[u]
      BY <1>0, <3>1, TakesAt, TakesAlone
    <3> QED BY <1>1, <3>1, <3>2 DEF Queues
  <2>2. CASE queue # <<>>
    <3>1. Goes(l, "read") /\ queue' = Append(queue, l) /\ task["op"].at = "idle"
      BY <1>2, <2>2 DEF Listens, Is
    <3>2. \A u \in Client : task'[u] = task[u]
      BY <1>0, <3>1 DEF Goes
    <3>3. Absent(queue, "op") /\ ~Awaiting("op")
      BY <1>0, <3>1 DEF OrderInv, Placed, Queued, Awaiting
    <3> QED BY <1>0, <1>1, <3>1, <3>2, <3>3, Joins DEF Queues
  <2> QED BY <2>1, <2>2
<1>3. CASE ListenerTakes
  <2>1. Takes(l, "answer") /\ Holds(l) /\ queue' = Released
    BY <1>3 DEF ListenerTakes
  <2>2. task'[l].at = "answer" /\ \A u \in Client : task'[u] = task[u]
    BY <1>0, <2>1, TakesAt, TakesAlone
  <2> QED BY <1>1, <2>1, <2>2 DEF Queues
<1>4. CASE ListenerPasses \/ ListenerStops
  <2>1. PICK r \in {Resting("idle"), Resting("off")} : task' = [task EXCEPT ![l] = r] /\ queue' = queue
    BY <1>4 DEF ListenerPasses, ListenerStops
  <2>2. r.at # "read"
    BY DEF Resting
  <2>3. task'[l].at # "read" /\ \A u \in Client : task'[u] = task[u]
    BY <1>0, <2>1, <2>2
  <2> QED BY <1>1, <2>1, <2>3 DEF Queues
<1>5. CASE AnswerFails(l)
  <2>1. task[l].kind = "none" /\ l # "op"
    BY DEF Inv
  <2>2. task' = [task EXCEPT ![l] = Resting("off")]
        /\ queue' = IF Holds(l) THEN Released ELSE queue
    BY <1>5, <2>1 DEF AnswerFails, Fails
  <2>3. task'[l].at # "read" /\ \A u \in Client : task'[u] = task[u]
    BY <1>0, <2>2 DEF Resting
  <2> QED BY <1>1, <2>2, <2>3 DEF Queues
<1>6. CASE Answer(l)
  <2>1. PICK f \in task[l].todo : task' = [task EXCEPT ![l].todo = @ \ {f}]
    BY <1>6 DEF Answer
  <2>2. task'[l].at = task[l].at /\ \A u \in Client : task'[u] = task[u]
    BY <1>0, <2>1 DEF Tasks
  <2>3. queue' = queue
    BY <1>6 DEF Answer
  <2> QED BY <1>1, <2>2, <2>3 DEF Queues, OrderInv, Is
<1> QED BY <1>2, <1>3, <1>4, <1>5, <1>6 DEF Listener

\* Whoever acts in a step that is not the lock's.
Acts(t) == Calls(t) \/ Answer(t) \/ PairFails(t) \/ SendFails(t) \/ AnswerFails(t)

LEMMA ClientSteps == ASSUME Inv, OrderInv, NEW t \in Client, Acts(t) PROVE Steps(t)
<1>1. Placed(t)
  BY DEF OrderInv
<1> QED BY <1>1, StartSteps, HandshakeSteps, RequestSteps, AnswerSteps, FailureSteps
        DEF Acts, Calls

LEMMA WhoActs ==
  ASSUME Next
  PROVE  \/ Lock \/ Listener \/ Answer("listener") \/ AnswerFails("listener")
         \/ \E t \in Client : Acts(t)
BY DEF Next, Works, Failure, Acts, Task

LEMMA NextInOrder == Inv /\ OrderInv /\ [Next]_vars => OrderInv'
<1> SUFFICES ASSUME Inv, OrderInv, [Next]_vars PROVE OrderInv'
  OBVIOUS
<1>1. CASE UNCHANGED <<queue, task>>
  BY <1>1 DEF OrderInv, Placed, Is, Holds, Awaiting
<1>2. ASSUME NEW t \in Client, Acts(t) PROVE OrderInv'
  BY <1>2, ClientSteps, StepsInOrder
<1>3. CASE Listener \/ Answer("listener") \/ AnswerFails("listener")
  BY <1>3, ListenerInOrder
<1>4. Lock \/ UNCHANGED vars => UNCHANGED <<queue, task>>
  BY DEF vars, Lock, Unlock, LockSends, LinkDrops, LockAnswers
<1> QED BY <1>1, <1>2, <1>3, <1>4, WhoActs

LEMMA OrderHolds == Spec => []OrderInv
<1>1. Init => OrderInv
  <2> SUFFICES ASSUME Init PROVE OrderInv
    OBVIOUS
  <2>1. \A t \in Client : task[t].at = "idle"
    BY ClientIsTask DEF Init, Resting
  <2>2. task["listener"].at = "off"
    BY DEF Init, Resting, Task
  <2>3. \A t \in Client : Once(queue, t) /\ Absent(queue, t)
    BY DEF Init, Once, Absent
  <2> QED BY <2>1, <2>2, <2>3 DEF OrderInv, Placed, Is
<1> QED BY <1>1, NextInOrder, InvHolds, PTL DEF Spec

\* Only an operation that reads takes its reply from the buffer: for it to be
\* taken by the listener, that would have to be in the queue behind it.
LEMMA ReplyStays ==
  ASSUME Inv, OrderInv, Next, <<"reply", "op">> \in buf \ buf', Awaiting("op")
  PROVE  \/ <<"reply", "op">> \in task'["op"].todo
         \/ \E now \in {task, task'} : now["service"].at # "idle"
<1>0. "op" \in Client /\ "service" \in Client /\ Client = {"op", "service"}
      /\ "service" \in Task /\ task \in [Task -> Tasks]
  BY DEF Client, Task, Inv, Types
<1>1. task["op"].at \in {"await", "answer", "read", "ack"} /\ buf' # buf
  BY DEF Awaiting
<1>2. ~Lock
  BY DEF Lock, Unlock, LockSends, LinkDrops, LockAnswers
<1>3. ~\E t \in Task : Answer(t) \/ PairFails(t) \/ SendFails(t) \/ AnswerFails(t)
  BY <1>1 DEF Answer, PairFails, SendFails, AnswerFails, Fails
<1>4. ~Listener
  <2>1. ~Listens
    BY <1>1 DEF Listens, Is
  <2>2. ~ListenerTakes
    BY DEF ListenerTakes, OrderInv
  <2> QED BY <1>1, <2>1, <2>2 DEF Listener, ListenerPasses, ListenerStops
<1>5. ASSUME Calls("op")
      PROVE  <<"reply", "op">> \in task'["op"].todo
  <2>1. ~\E k \in Kind : Start("op", k)
    BY <1>1 DEF Start, Is
  <2>2. ~Handshakes("op")
    BY <1>1 DEF Handshakes, Greeted, Unreached, Pairs, PairRead, Paired, Unpaired, Is
  <2>3. ~Send("op")
    BY <1>1 DEF Send, Is
  <2>4. Receive("op") \/ Read("op")
    BY <1>1, <1>5, <2>1, <2>2, <2>3
       DEF Calls, Requests, Received, ReadOn, Collected, Drained, Awaited
  <2>5. task'["op"].todo = Asks(buf)
    <3>1. CASE Receive("op")
      <4>1. Shifts("op", "answer")
        BY <3>1 DEF Receive, Shifts, Queued
      <4> QED BY <1>0, <3>1, <4>1, TakesSteps DEF Receive
    <3>2. CASE Read("op")
      <4>1. Shifts("op", "ack")
        BY <3>2 DEF Read, Shifts, Queued
      <4> QED BY <1>0, <3>2, <4>1, TakesSteps DEF Read
    <3> QED BY <2>4, <3>1, <3>2
  <2> QED BY <2>5 DEF Asks
<1>6. ASSUME Calls("service")
      PROVE  \E now \in {task, task'} : now["service"].at # "idle"
  <2>1. CASE \E k \in Kind : Start("service", k)
    <3>1. PICK k \in Kind : Start("service", k)
      BY <2>1
    <3>2. task' = [task EXCEPT !["service"] = [Resting("hello") EXCEPT !.kind = k]]
      BY <1>1, <3>1 DEF Start
    <3>3. task'["service"].at = "hello"
      BY <1>0, <3>2 DEF Resting
    <3> QED BY <3>3
  <2>2. CASE Handshakes("service")
    BY <2>2 DEF Handshakes, Greeted, Unreached, Pairs, PairRead, Paired, Unpaired, Is
  <2>3. CASE Requests("service")
    BY <2>3 DEF Requests, Send, Receive, Received, Read, ReadOn, Collected,
                Drained, Awaited, Is
  <2> QED BY <1>6, <2>1, <2>2, <2>3 DEF Calls
<1>7. "listener" \in Task /\ Client \subseteq Task
  BY DEF Task
<1>8. Calls("op") \/ Calls("service")
  BY <1>0, <1>2, <1>3, <1>4, <1>7, WhoActs DEF Acts
<1> QED BY <1>5, <1>6, <1>8

\* What the lock answers to an operation that is under way leaves the buffer
\* into the hands of that operation, unless a credential service is on its way,
\* too: the listener asks only whether an operation is under way when it
\* begins to wait (_notification_listener), which is enough as _lock is given to
\* those who wait for it in their order (_send_recv, _collect).
THEOREM RepliesStayHolds == Spec => RepliesStay
<1> DEFINE A == LET reply == <<"reply", "op">> IN
                /\ reply \in buf \ buf' /\ task["op"].kind \in {"dp", "query"}
                /\ task["op"].at \in {"await", "answer", "read", "ack"}
                => \/ reply \in task'["op"].todo
                   \/ \E now \in {task, task'} : now["service"].at # "idle"
<1>1. Inv /\ OrderInv /\ [Next]_vars => [A]_vars
  BY ReplyStays DEF Awaiting
<1> QED BY <1>1, InvHolds, OrderHolds, PTL DEF Spec, RepliesStay

=============================================================================
