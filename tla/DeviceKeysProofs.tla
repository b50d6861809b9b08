-------------------------- MODULE DeviceKeysProofs --------------------------
(***************************************************************************)
(* Theorems about DeviceKeys, for any locks, tasks and bounds.             *)
(***************************************************************************)
EXTENDS DeviceKeys, TLAPS

(***************************************************************************)
(* Types                                                                   *)
(***************************************************************************)
\* A task that is under way has a lock it was started for.
Placed == \A t \in Task : ~(task[t].at \in Waiting) => task[t].mac \in Mac

\* A task in its place.
OnTask(r) == r \in Tasks /\ (r.at \notin Waiting => r.mac \in Mac)

FileTypes == /\ devices \in [Mac -> Record] /\ seeds \in [Mac -> Record]
             /\ history \in [Mac -> Seq(Record)]
EntryTypes == /\ runtime \in [Mac -> Record] /\ fresh \in [Mac -> Record]
              /\ setup \in {"none", "off", "reading", "noting", "wiring", "up"}
WorldTypes == /\ bound \in [Mac -> Record] /\ cloud \in [Mac -> 0..MaxGen]
              /\ mishaps \in 0..MaxMishaps
Writers == (Task \union {NoTask}) \X (Kind \union {"remove"})
GhostTypes == /\ paired \in [Mac -> SUBSET Record]
              /\ accepted \in [Mac -> SUBSET Record]
              /\ writer \in [Mac -> Writers]
TaskTypes == task \in [Task -> Tasks] /\ Placed

Types == FileTypes /\ EntryTypes /\ WorldTypes /\ GhostTypes /\ TaskTypes

LEMMA TypesGive == Types => KeysTypeOK
BY DEF Types, KeysTypeOK, FileTypes, EntryTypes, WorldTypes, GhostTypes, TaskTypes, Writers

LEMMA RecordTypes ==
  /\ NoKeys \in Record /\ Nothing \in [Mac -> Record]
  /\ \A g \in 0..MaxGen : /\ Generation(g) \in Record
                          /\ [local |-> g, verify |-> 0] \in Record
BY GenAssumption DEF NoKeys, Nothing, Generation, Record

LEMMA HistoryTypes ==
  ASSUME FileTypes
  PROVE  /\ \A m \in Mac, k \in Record : Remembered(history[m], k) \in Seq(Record)
         /\ \A m \in Mac : SeedHistory(m) \in Seq(Record)
         /\ \A h \in Seq(Record) : Latest(h) \in Record
         /\ \A m, k : m \in Mac /\ k \in Record /\ Remember(m, k)
                        => history' \in [Mac -> Seq(Record)]
         /\ \A f \in [Mac -> Record] : RememberMissing(f)
                        => history' \in [Mac -> Seq(Record)]
<1>1. \A h \in Seq(Record) : Latest(h) \in Record
  BY RecordTypes DEF Latest
<1>2. \A h \in Seq(Record), k \in Record : Remembered(h, k) \in Seq(Record)
  BY DEF Remembered
<1>3. \A m \in Mac : SeedHistory(m) \in Seq(Record)
  BY <1>2 DEF SeedHistory, FileTypes
<1>4. \A m, k : m \in Mac /\ k \in Record /\ Remember(m, k)
                  => history' \in [Mac -> Seq(Record)]
  BY <1>2 DEF Remember, FileTypes
<1>5. \A f \in [Mac -> Record] : RememberMissing(f)
                  => history' \in [Mac -> Seq(Record)]
  BY <1>2 DEF RememberMissing, FileTypes
<1> QED BY <1>1, <1>2, <1>3, <1>4, <1>5 DEF FileTypes

LEMMA Places ==
  Place = {"load", "idle", "ended", "list", "keys", "ask", "keep", "merge",
           "choose", "saveSeed", "check", "latest", "enrol", "save",
           "candidates", "lock", "suspend", "pair",
           "wait", "route", "reload", "reloading"}
BY DEF Place, Waiting, Asking, Adding, Pairing, Others

LEMMA PlaceTypes ==
  ASSUME NEW p \in Place, p \in Waiting PROVE OnTask(At(p))
BY RecordTypes DEF OnTask, At, Tasks, Kind

LEMMA ReloadingTypes ==
  ASSUME NEW r \in Tasks, r.mac \in Mac PROVE OnTask(Reloading(r))
<1>1. At("reload") \in Tasks
  BY RecordTypes, Places DEF At, Tasks, Kind
<1>2. Reloading(r) \in Tasks /\ Reloading(r).mac = r.mac
  BY <1>1 DEF Reloading, Tasks
<1> QED BY <1>2 DEF OnTask

LEMMA ConfirmingTypes ==
  ASSUME NEW r \in Tasks, r.mac \in Mac PROVE OnTask(Confirming(r))
BY RecordTypes, Places DEF OnTask, Confirming, Tasks, Kind

LEMMA BecomeTypes ==
  ASSUME TaskTypes, NEW t \in Task, NEW r, OnTask(r), Become(t, r)
  PROVE  TaskTypes'
BY DEF TaskTypes, OnTask, Become, Placed

LEMMA GoTypes ==
  ASSUME TaskTypes, NEW t \in Task, task[t].at \notin Waiting,
         NEW p \in Place, Go(t, p)
  PROVE  TaskTypes'
<1>1. OnTask([task[t] EXCEPT !.at = p])
  BY DEF TaskTypes, Placed, OnTask, Tasks
<1> QED BY <1>1, BecomeTypes DEF Go

\* An action of a task leaves the types of all else as they are.
LEMMA OnlyTasks ==
  ASSUME Types, TaskTypes', UNCHANGED <<files, entry, world, ghost>>
  PROVE  Types'
BY DEF Types, FileTypes, EntryTypes, WorldTypes, GhostTypes, files, entry, world, ghost

LEMMA TasksAndHistory ==
  ASSUME Types, TaskTypes', history' \in [Mac -> Seq(Record)],
         UNCHANGED <<devices, seeds, entry, world, ghost>>
  PROVE  Types'
BY DEF Types, FileTypes, EntryTypes, WorldTypes, GhostTypes, entry, world, ghost

LEMMA BeginTypes ==
  ASSUME Types, NEW t \in Task, NEW m \in Mac, NEW o \in Kind, NEW p \in Place,
         Begin(t, o, m, p)
  PROVE  Types'
<1>1. OnTask([task[t] EXCEPT !.op = o, !.mac = m, !.at = p])
  BY DEF Types, TaskTypes, OnTask, Tasks
<1>2. TaskTypes'
  BY <1>1, BecomeTypes DEF Types, Begin
<1> QED BY <1>2, OnlyTasks DEF Begin

LEMMA GivenTypes ==
  ASSUME NEW r \in Tasks, NEW m \in Mac, NEW k \in Record, NEW o \in Kind, NEW p \in Place
  PROVE  OnTask([r EXCEPT !.op = o, !.mac = m, !.at = p, !.seed = k])
BY DEF OnTask, Tasks

LEMMA StartsTypes ==
  ASSUME Types, NEW t \in Task, Starts(t) PROVE Types'
<1> PICK m \in Mac : \/ PressRefresh(t, m) \/ Reconfigure(t, m) \/ SyncCloud(t, m)
                     \/ SelectSaved(t, m) \/ Discovered(t, m)
                     \/ SelectRoute(t, m) \/ ImportLocal(t, m)
  BY DEF Starts
<1>1. CASE ImportLocal(t, m)
  <2>1. PICK g \in 1..MaxGen :
          Become(t, [task[t] EXCEPT !.op = "import", !.mac = m, !.at = "load",
                                    !.seed = Generation(g)])
    BY <1>1 DEF ImportLocal
  <2>2. Generation(g) \in Record /\ "load" \in Place /\ "import" \in Kind
    <3>1. g \in 0..MaxGen
      BY GenAssumption
    <3>2. "load" \in Place /\ "import" \in Kind
      BY Places DEF Kind
    <3> QED BY <3>1, <3>2, RecordTypes
  <2>3. OnTask([task[t] EXCEPT !.op = "import", !.mac = m, !.at = "load",
                               !.seed = Generation(g)])
    BY <2>2, GivenTypes DEF Types, TaskTypes
  <2>4. TaskTypes'
    BY <2>1, <2>3, BecomeTypes DEF Types
  <2> QED BY <1>1, <2>4, OnlyTasks DEF ImportLocal
<1>2. CASE ~ImportLocal(t, m)
  <2>1. \E o \in Kind, p \in Place : Begin(t, o, m, p)
    BY <1>2, Places DEF PressRefresh, Reconfigure, SyncCloud, SelectSaved, Discovered,
                        SelectRoute, Kind
  <2> QED BY <2>1, BeginTypes
<1> QED BY <1>1, <1>2

(***************************************************************************)
(* The cloud                                                               *)
(***************************************************************************)
LEMMA AskedTypes ==
  ASSUME NEW r \in Tasks, NEW m \in Mac, NEW k \in Record, NEW p \in Place, r.mac \in Mac
  PROVE  OnTask([r EXCEPT !.got[m] = k, !.todo = {m}, !.at = p])
BY DEF OnTask, Tasks

LEMMA AskCloudTypes ==
  ASSUME Types, NEW t \in Task, AskCloud(t) PROVE Types'
<1> DEFINE m == task[t].mac
<1>1. m \in Mac
  BY DEF Types, TaskTypes, Placed, AskCloud, IsAt, Waiting
<1>2. PICK k \in Answers(m, cloud[m]) \union {NoKeys} :
        Become(t, [task[t] EXCEPT !.got[m] = k, !.todo = {m},
                                  !.at = IF k = NoKeys THEN "merge" ELSE "keep"])
  BY DEF AskCloud
<1>3. k \in Record
  BY <1>1, RecordTypes DEF Answers, Types, WorldTypes
<1>4. OnTask([task[t] EXCEPT !.got[m] = k, !.todo = {m},
                             !.at = IF k = NoKeys THEN "merge" ELSE "keep"])
  <2>1. (IF k = NoKeys THEN "merge" ELSE "keep") \in Place
    BY Places
  <2>2. task[t] \in Tasks
    BY DEF Types, TaskTypes
  <2> QED BY <1>1, <1>3, <2>1, <2>2, AskedTypes
<1>5. TaskTypes'
  BY <1>2, <1>4, BecomeTypes DEF Types
<1> QED BY <1>5, OnlyTasks DEF AskCloud

LEMMA KeepTypes ==
  ASSUME Types, NEW t \in Task, Keep(t) PROVE Types'
<1> DEFINE m == task[t].mac
<1>1. m \in Mac /\ task[t].got[m] \in Record
  BY DEF Types, TaskTypes, Placed, Keep, IsAt, Waiting, Tasks
<1>2. history' \in [Mac -> Seq(Record)]
  BY <1>1, HistoryTypes DEF Types, Keep
<1>3. TaskTypes'
  BY GoTypes, Places DEF Types, Keep, IsAt, Waiting
<1> QED BY <1>2, <1>3, TasksAndHistory DEF Keep

LEMMA FetchFailsTypes ==
  ASSUME Types, NEW t \in Task, FetchFails(t) PROVE Types'
<1>1. task[t] \in Tasks /\ task[t].mac \in Mac
  BY DEF Types, TaskTypes, Placed, FetchFails, Waiting
<1>2. TaskTypes'
  BY <1>1, ReloadingTypes, BecomeTypes DEF Types, FetchFails
<1> QED BY <1>2, OnlyTasks DEF FetchFails

LEMMA ListAccountTypes ==
  ASSUME Types, NEW t \in Task, ListAccount(t) PROVE Types'
<1> DEFINE listed == [m \in Mac |-> [local |-> cloud[m], verify |-> 0]]
           r == [task[t] EXCEPT !.got = listed, !.at = "keys"]
<1>1. OnTask(Ended)
  BY PlaceTypes, Places DEF Ended, Waiting
<1>2. listed \in [Mac -> Record]
  BY RecordTypes DEF Types, WorldTypes
<1>3. OnTask(r)
  <2>1. task[t].mac \in Mac /\ "keys" \in Place
    BY Places DEF Types, TaskTypes, Placed, ListAccount, IsAt, Waiting
  <2> HIDE DEF listed
  <2> QED BY <1>2, <2>1 DEF Types, TaskTypes, OnTask, Tasks
<1>4. Become(t, Ended) \/ Become(t, r)
  BY DEF ListAccount
<1>5. TaskTypes'
  BY <1>1, <1>3, <1>4, BecomeTypes DEF Types
<1> QED BY <1>5, OnlyTasks DEF ListAccount
LEMMA ImportedTypes ==
  ASSUME NEW r \in Tasks, r.mac \in Mac PROVE OnTask(Imported(r))
<1> DEFINE told == {m \in Mac : r.copy[m] # NoKeys /\ r.got[m] # NoKeys}
<1>1. [r EXCEPT !.got = Nothing, !.at = "choose"] \in Tasks
  BY RecordTypes, Places DEF Tasks
<1>2. [r EXCEPT !.todo = told, !.at = "merge"] \in Tasks
  BY Places DEF Tasks
<1>3. [r EXCEPT !.seed = r.got[r.mac], !.at = "saveSeed"] \in Tasks
  BY Places DEF Tasks
<1>4. OnTask(Reloading(r)) /\ OnTask(Ended)
  BY ReloadingTypes, PlaceTypes, Places DEF Ended, Waiting
<1>5. \/ Imported(r) = [r EXCEPT !.got = Nothing, !.at = "choose"]
      \/ Imported(r) = [r EXCEPT !.todo = told, !.at = "merge"]
      \/ Imported(r) = [r EXCEPT !.seed = r.got[r.mac], !.at = "saveSeed"]
      \/ Imported(r) = Reloading(r)
      \/ Imported(r) = Ended
  BY DEF Imported
<1> QED BY <1>1, <1>2, <1>3, <1>4, <1>5 DEF OnTask, Tasks

LEMMA ImportAccountTypes ==
  ASSUME Types, NEW t \in Task, ImportAccount(t) PROVE Types'
<1> DEFINE listed == task[t].got
           h(m) == Remembered(history[m], listed[m])
           Got(answer) == [m \in Mac |->
                             CASE answer[m] = "all"     -> Generation(cloud[m])
                               [] answer[m] = "partial" -> listed[m]
                               [] answer[m] = "error"   -> NoKeys]
<1>1. task[t] \in Tasks /\ task[t].mac \in Mac
  BY DEF Types, TaskTypes, Placed, ImportAccount, IsAt, Waiting
<1>2. PICK answer \in [Mac -> {"all", "partial", "error"}] :
        /\ history' = [m \in Mac |-> IF Got(answer)[m] = NoKeys THEN h(m)
                                      ELSE Remembered(h(m), Got(answer)[m])]
        /\ Become(t, Imported([task[t] EXCEPT !.got = Got(answer)]))
  BY DEF ImportAccount
<1>3. listed \in [Mac -> Record]
  BY <1>1 DEF Tasks
<1>4. Got(answer) \in [Mac -> Record]
  BY <1>3, RecordTypes DEF Types, WorldTypes
<1>5. \A m \in Mac : h(m) \in Seq(Record)
  BY <1>3, HistoryTypes DEF Types, FileTypes
<1>6. history' \in [Mac -> Seq(Record)]
  <2> HIDE DEF Got, h, listed
  <2> QED BY <1>2, <1>4, <1>5 DEF Remembered
<1>7. OnTask(Imported([task[t] EXCEPT !.got = Got(answer)]))
  <2> HIDE DEF Got
  <2>1. /\ [task[t] EXCEPT !.got = Got(answer)] \in Tasks
        /\ [task[t] EXCEPT !.got = Got(answer)].mac \in Mac
    BY <1>1, <1>4 DEF Tasks
  <2> QED BY <2>1, ImportedTypes
<1>8. TaskTypes'
  <2> HIDE DEF Got
  <2> QED BY <1>2, <1>7, BecomeTypes DEF Types
<1> QED BY <1>6, <1>8, TasksAndHistory DEF ImportAccount

LEMMA MergedTypes ==
  ASSUME NEW a \in Record, NEW b \in Record PROVE Merged(a, b) \in Record
BY DEF Merged, Record

LEMMA MergeTypes ==
  ASSUME Types, NEW t \in Task, NEW m \in Mac, Merge(t, m) PROVE Types'
<1> DEFINE k == Merged(task[t].got[m], task[t].copy[m])
<1>1. task[t] \in Tasks /\ task[t].mac \in Mac
  BY DEF Types, TaskTypes, Placed, Merge, IsAt, Waiting
<1>2. k \in Record
  BY <1>1, MergedTypes DEF Tasks
<1>3. history' \in [Mac -> Seq(Record)]
  BY <1>2, HistoryTypes DEF Types, Merge
<1>4. OnTask([task[t] EXCEPT !.copy[m] = k, !.todo = @ \ {m}, !.at = "save"])
  <2> HIDE DEF k
  <2> QED BY <1>1, <1>2, Places DEF OnTask, Tasks
<1>5. TaskTypes'
  BY <1>4, BecomeTypes DEF Types, Merge
<1> QED BY <1>3, <1>5, TasksAndHistory DEF Merge

LEMMA CloudTypes ==
  ASSUME Types, NEW t \in Task, Cloud(t) PROVE Types'
BY AskCloudTypes, KeepTypes, FetchFailsTypes, ListAccountTypes, ImportAccountTypes,
   MergeTypes DEF Cloud
(***************************************************************************)
(* Adding and activating                                                   *)
(***************************************************************************)
LEMMA ChooseTypes ==
  ASSUME Types, NEW t \in Task, Choose(t) PROVE Types'
<1> DEFINE h == [x \in Mac |-> SeedHistory(x)]
           m == task[t].mac
           r == [task[t] EXCEPT !.seed = Latest(h[m]), !.at = "saveSeed"]
<1>1. task[t] \in Tasks /\ m \in Mac
  BY DEF Types, TaskTypes, Placed, Choose, IsAt, Waiting
<1>2. h \in [Mac -> Seq(Record)] /\ Latest(h[m]) \in Record
  BY <1>1, HistoryTypes DEF Types
<1>3. history' \in [Mac -> Seq(Record)]
  BY <1>2 DEF Choose
<1>4. OnTask(r)
  <2> HIDE DEF h
  <2> QED BY <1>1, <1>2, Places DEF OnTask, Tasks
<1>5. OnTask(Reloading(task[t])) /\ OnTask(Ended)
  BY <1>1, ReloadingTypes, PlaceTypes, Places DEF Ended, Waiting
<1>6. Become(t, r) \/ Become(t, Reloading(task[t])) \/ Become(t, Ended)
  BY DEF Choose
<1>7. TaskTypes'
  BY <1>4, <1>5, <1>6, BecomeTypes DEF Types
<1> QED BY <1>3, <1>7, TasksAndHistory DEF Choose

LEMMA SaveSeedTypes ==
  ASSUME Types, NEW t \in Task, SaveSeed(t) PROVE Types'
<1> DEFINE r == task[t]
<1>1. r \in Tasks /\ r.mac \in Mac
  BY DEF Types, TaskTypes, Placed, SaveSeed, IsAt, Waiting
<1>2. r.seed \in Record
  BY <1>1 DEF Tasks
<1>3. FileTypes'
  BY <1>1, <1>2, HistoryTypes DEF Types, FileTypes, SaveSeed
<1>4. OnTask([r EXCEPT !.at = "check"]) /\ OnTask(Confirming(r))
  BY <1>1, ConfirmingTypes, Places DEF OnTask, Tasks
<1>5. TaskTypes'
  BY <1>4, BecomeTypes DEF Types, SaveSeed
<1> QED BY <1>3, <1>5 DEF SaveSeed, Types, EntryTypes, WorldTypes, GhostTypes,
                          entry, world, ghost

LEMMA CheckBindingTypes ==
  ASSUME Types, NEW t \in Task, CheckBinding(t) PROVE Types'
<1> DEFINE r == task[t]
           m == task[t].mac
<1>1. r \in Tasks /\ m \in Mac /\ r.seed \in Record
  BY DEF Types, TaskTypes, Placed, CheckBinding, IsAt, Waiting, Tasks
<1>2. /\ OnTask([r EXCEPT !.op = "activate", !.at = "load"])
      /\ OnTask([r EXCEPT !.at = "load"])
  BY <1>1, Places DEF OnTask, Tasks, Kind
<1>3. OnTask(Reloading(r)) /\ OnTask(Ended)
  BY <1>1, ReloadingTypes, PlaceTypes, Places DEF Ended, Waiting
<1>4. TaskTypes'
  <2>1. \/ Become(t, [r EXCEPT !.at = "load"])
        \/ Become(t, Reloading(r))
        \/ Become(t, [r EXCEPT !.op = "activate", !.at = "load"])
        \/ Become(t, Ended)
    BY DEF CheckBinding, Go
  <2> QED BY <2>1, <1>2, <1>3, BecomeTypes DEF Types
<1>5. accepted' \in [Mac -> SUBSET Record]
  <2>1. UNCHANGED accepted \/ accepted' = [accepted EXCEPT ![m] = @ \union {r.seed}]
    BY DEF CheckBinding
  <2> QED BY <2>1, <1>1 DEF Types, GhostTypes
<1> QED BY <1>4, <1>5 DEF CheckBinding, Types, FileTypes, EntryTypes, WorldTypes,
                          GhostTypes, files, entry, world

LEMMA ReseedTypes ==
  ASSUME Types, NEW t \in Task, Reseed(t) PROVE Types'
<1> DEFINE m == task[t].mac
           k == Latest(SeedHistory(m))
           to == CASE ~Complete(k)     -> "ended"
                   [] k # task[t].seed -> "check"
                   [] OTHER            -> "enrol"
<1>1. task[t] \in Tasks /\ m \in Mac
  BY DEF Types, TaskTypes, Placed, Reseed, IsAt, Waiting
<1>2. k \in Record /\ SeedHistory(m) \in Seq(Record)
  BY <1>1, HistoryTypes DEF Types
<1>3. history' \in [Mac -> Seq(Record)]
  BY <1>2 DEF Reseed, Types, FileTypes
<1>4. to \in Place
  BY Places
<1>5. OnTask([task[t] EXCEPT !.seed = k, !.at = to])
  <2> HIDE DEF k, to
  <2> QED BY <1>1, <1>2, <1>4 DEF OnTask, Tasks
<1>6. OnTask(Ended)
  BY PlaceTypes, Places DEF Ended, Waiting
<1>7. TaskTypes'
  BY <1>5, <1>6, BecomeTypes DEF Types, Reseed, GoOn
<1> QED BY <1>3, <1>7, TasksAndHistory DEF Reseed

LEMMA CandidatesTypes ==
  ASSUME Types, NEW t \in Task, Candidates(t) PROVE Types'
<1> DEFINE m == task[t].mac
           mine == task[t].copy[m]
           saved == Latest(SeedHistory(m))
           k == IF Complete(mine) THEN mine ELSE saved
           r == [task[t] EXCEPT !.was = mine, !.seed = k]
<1>1. task[t] \in Tasks /\ m \in Mac
  BY DEF Types, TaskTypes, Placed, Candidates, IsAt, Waiting
<1>2. mine \in Record /\ k \in Record /\ SeedHistory(m) \in Seq(Record)
  BY <1>1, HistoryTypes DEF Types, Tasks
<1>3. history' \in [Mac -> Seq(Record)]
  BY <1>2 DEF Candidates, Types, FileTypes
<1>4. r \in Tasks /\ r.mac \in Mac
  <2> HIDE DEF k, mine
  <2> QED BY <1>1, <1>2 DEF Tasks
<1>5. OnTask(Confirming(r)) /\ OnTask([r EXCEPT !.at = "list"])
  <2> HIDE DEF r
  <2> QED BY <1>4, ConfirmingTypes, Places DEF OnTask, Tasks
<1>6. Become(t, Confirming(r)) \/ Become(t, [r EXCEPT !.at = "list"])
  BY DEF Candidates
<1>7. TaskTypes'
  <2> HIDE DEF r
  <2> QED BY <1>5, <1>6, BecomeTypes DEF Types
<1> QED BY <1>3, <1>7, TasksAndHistory DEF Candidates

LEMMA TakeLockTypes ==
  ASSUME Types, NEW t \in Task, TakeLock(t) PROVE Types'
<1>1. OnTask([task[t] EXCEPT !.op = "persist", !.at = "suspend",
                             !.copy = Nothing, !.was = NoKeys])
  <2>1. task[t] \in Tasks /\ task[t].mac \in Mac
    BY DEF Types, TaskTypes, Placed, TakeLock, IsAt, Waiting
  <2>2. "persist" \in Kind /\ "suspend" \in Place
    BY Places DEF Kind
  <2> QED BY <2>1, <2>2, RecordTypes DEF OnTask, Tasks
<1>2. TaskTypes'
  BY <1>1, BecomeTypes DEF Types, TakeLock
<1> QED BY <1>2, OnlyTasks DEF TakeLock

LEMMA SuspendTypes ==
  ASSUME Types, NEW t \in Task, Suspend(t) PROVE Types'
<1>1. task[t] \in Tasks /\ task[t].mac \in Mac
  BY DEF Types, TaskTypes, Placed, Suspend, IsAt, Waiting
<1>2. OnTask([task[t] EXCEPT !.holds = runtime[task[t].mac] # NoKeys, !.at = "pair"])
  <2>1. "pair" \in Place
    BY Places
  <2>2. (runtime[task[t].mac] # NoKeys) \in BOOLEAN
    OBVIOUS
  <2> QED BY <1>1, <2>1, <2>2 DEF OnTask, Tasks
<1>3. TaskTypes'
  BY <1>2, BecomeTypes DEF Types, Suspend
<1> QED BY <1>3, OnlyTasks DEF Suspend

LEMMA PairLockTypes ==
  ASSUME Types, NEW t \in Task, PairLock(t) PROVE Types'
<1> DEFINE m == task[t].mac
<1>1. task[t] \in Tasks /\ m \in Mac /\ task[t].seed \in Record
  BY DEF Types, TaskTypes, Placed, PairLock, IsAt, Waiting, Tasks
<1>2. OnTask([task[t] EXCEPT !.at = "load"]) /\ OnTask(Ended)
  BY <1>1, PlaceTypes, Places DEF Ended, Waiting, OnTask, Tasks
<1>3. TaskTypes'
  BY <1>2, BecomeTypes DEF Types, PairLock, Go
<1>4. bound' \in [Mac -> Record] /\ paired' \in [Mac -> SUBSET Record]
  BY <1>1 DEF PairLock, Types, WorldTypes, GhostTypes
<1> QED BY <1>3, <1>4 DEF PairLock, Types, FileTypes, EntryTypes, WorldTypes,
                          GhostTypes, files, entry

LEMMA FlowTypes ==
  ASSUME Types, NEW t \in Task, Flow(t) PROVE Types'
BY ChooseTypes, SaveSeedTypes, CheckBindingTypes, ReseedTypes, CandidatesTypes,
   TakeLockTypes, SuspendTypes, PairLockTypes DEF Flow
(***************************************************************************)
(* The files                                                               *)
(***************************************************************************)
LEMMA LoadTypes ==
  ASSUME Types, NEW t \in Task, Load(t) PROVE Types'
<1> DEFINE r == [task[t] EXCEPT !.copy = devices]
<1>1. task[t] \in Tasks /\ task[t].mac \in Mac
  BY DEF Types, TaskTypes, Placed, Load, IsAt, Waiting
<1>2. AfterLoad(r) \in Place
  BY Places DEF AfterLoad
<1>3. OnTask([r EXCEPT !.at = AfterLoad(r)])
  <2>1. r \in Tasks /\ r.mac \in Mac
    BY <1>1 DEF Tasks, Types, FileTypes
  <2> HIDE DEF r
  <2> QED BY <1>2, <2>1 DEF OnTask, Tasks
<1>4. OnTask(Ended)
  BY PlaceTypes, Places DEF Ended, Waiting
<1>5. Become(t, [r EXCEPT !.at = AfterLoad(r)]) \/ Become(t, Ended)
  BY DEF Load, GoOn
<1>6. TaskTypes'
  <2> HIDE DEF r
  <2> QED BY <1>3, <1>4, <1>5, BecomeTypes DEF Types
<1>7. history' \in [Mac -> Seq(Record)]
  BY HistoryTypes DEF Types, FileTypes, Load
<1> QED BY <1>6, <1>7, TasksAndHistory DEF Load

LEMMA EnrolTypes ==
  ASSUME Types, NEW t \in Task, Enrol(t) PROVE Types'
<1> DEFINE r == task[t]
<1>1. r \in Tasks /\ r.mac \in Mac /\ r.seed \in Record
  BY DEF Types, TaskTypes, Placed, Enrol, IsAt, Waiting, Tasks
<1>2. WithRecord(r) \in [Mac -> Record]
  BY <1>1 DEF WithRecord, Tasks
<1>3. OnTask([r EXCEPT !.copy = WithRecord(r), !.at = "save"])
  BY <1>1, <1>2, Places DEF OnTask, Tasks
<1>4. TaskTypes'
  BY <1>3, BecomeTypes DEF Types, Enrol
<1>5. history' \in [Mac -> Seq(Record)]
  BY <1>1, HistoryTypes DEF Types, Enrol
<1> QED BY <1>4, <1>5, TasksAndHistory DEF Enrol

LEMMA StoreTypes ==
  ASSUME Types, NEW t \in Task PROVE Store(t) \in [Mac -> Record]
BY DEF Types, TaskTypes, EntryTypes, Tasks, Store

LEMMA WriteTypes ==
  ASSUME Types, NEW f \in [Mac -> Record], NEW w \in Writers, Write(f, w)
  PROVE  devices' \in [Mac -> Record] /\ writer' \in [Mac -> Writers]
BY DEF Types, GhostTypes, Write

LEMMA SaveTypes ==
  ASSUME Types, NEW t \in Task, Save(t) PROVE Types'
<1> DEFINE r == task[t]
<1>1. r \in Tasks /\ r.mac \in Mac
  BY DEF Types, TaskTypes, Placed, Save, IsAt, Waiting
<1>2. <<t, r.op>> \in Writers
  BY <1>1 DEF Writers, Tasks
<1>3. devices' \in [Mac -> Record] /\ writer' \in [Mac -> Writers]
  BY <1>2, StoreTypes, WriteTypes DEF Save
<1>4. OnTask(Ended) /\ OnTask(Reloading(r)) /\ OnTask([r EXCEPT !.at = "merge"])
  BY <1>1, PlaceTypes, ReloadingTypes, Places DEF Ended, Waiting, OnTask, Tasks
<1>5. \/ Become(t, Ended) \/ Become(t, Reloading(r))
      \/ Become(t, [r EXCEPT !.at = "merge"])
  BY DEF Save
<1>6. TaskTypes'
  BY <1>4, <1>5, BecomeTypes DEF Types
<1> QED BY <1>3, <1>6 DEF Save, Types, FileTypes, EntryTypes, WorldTypes, GhostTypes,
                          entry, world

LEMMA StorageFailsTypes ==
  ASSUME Types, NEW t \in Task, StorageFails(t) PROVE Types'
<1> DEFINE r == task[t]
           again == [r EXCEPT !.tries = @ + 1, !.at = "load"]
<1>1. r \in Tasks /\ r.mac \in Mac
  BY DEF Types, TaskTypes, Placed, StorageFails, Storing, Waiting
<1>2. OnTask(Ended)
  BY PlaceTypes, Places DEF Ended, Waiting
<1>3. CASE r.tries < 2
  <2>1. r.tries + 1 \in 0..2 /\ "load" \in Place
    BY <1>1, <1>3, Places DEF Tasks
  <2>2. OnTask(again)
    BY <1>1, <2>1 DEF OnTask, Tasks
  <2>3. Become(t, again) \/ Become(t, Ended)
    BY DEF StorageFails
  <2>4. TaskTypes'
    BY <1>2, <2>2, <2>3, BecomeTypes DEF Types
  <2> QED BY <2>4, OnlyTasks DEF StorageFails
<1>4. CASE ~(r.tries < 2)
  <2>1. TaskTypes'
    BY <1>2, <1>4, BecomeTypes DEF Types, StorageFails
  <2> QED BY <2>1, OnlyTasks DEF StorageFails
<1> QED BY <1>3, <1>4

LEMMA TakeRouteTypes ==
  ASSUME Types, NEW t \in Task, TakeRoute(t) PROVE Types'
<1>1. OnTask([task[t] EXCEPT !.live = TRUE, !.holds = TRUE, !.at = "route"])
  <2>1. task[t] \in Tasks /\ task[t].mac \in Mac /\ "route" \in Place
    BY Places DEF Types, TaskTypes, Placed, TakeRoute, IsAt, Waiting
  <2> QED BY <2>1 DEF OnTask, Tasks
<1>2. TaskTypes'
  BY <1>1, BecomeTypes DEF Types, TakeRoute
<1> QED BY <1>2, OnlyTasks DEF TakeRoute

LEMMA UpdateRouteTypes ==
  ASSUME Types, NEW t \in Task, UpdateRoute(t) PROVE Types'
<1> DEFINE m == task[t].mac
<1>1. m \in Mac /\ Store(t)[m] \in Record
  BY StoreTypes DEF Types, TaskTypes, Placed, UpdateRoute, IsAt, Waiting
<1>2. history' \in [Mac -> Seq(Record)]
  BY <1>1, HistoryTypes DEF Types, FileTypes, UpdateRoute
<1>3. OnTask(Ended)
  BY PlaceTypes, Places DEF Ended, Waiting
<1>4. TaskTypes'
  BY <1>3, GoTypes, BecomeTypes, Places DEF Types, UpdateRoute, IsAt, Waiting
<1> QED BY <1>2, <1>4, TasksAndHistory DEF UpdateRoute

LEMMA ReloadTypes ==
  ASSUME Types, NEW t \in Task, Reload(t) PROVE Types'
<1>1. TaskTypes'
  BY GoTypes, Places DEF Types, Reload, IsAt, Waiting
<1> QED BY <1>1 DEF Reload, Types, FileTypes, EntryTypes, WorldTypes, GhostTypes,
                    files, world, ghost

LEMMA ReloadedTypes ==
  ASSUME Types, NEW t \in Task, Reloaded(t) PROVE Types'
<1>1. TaskTypes'
  BY PlaceTypes, BecomeTypes, Places DEF Types, Reloaded, Ended, Waiting
<1> QED BY <1>1, OnlyTasks DEF Reloaded

LEMMA StorageTypes ==
  ASSUME Types, NEW t \in Task, Storage(t) PROVE Types'
BY LoadTypes, EnrolTypes, SaveTypes, StorageFailsTypes, TakeRouteTypes,
   UpdateRouteTypes, ReloadTypes, ReloadedTypes DEF Storage

(***************************************************************************)
(* Set-up and what happens outside                                         *)
(***************************************************************************)
LEMMA TasksUnchanged == ASSUME TaskTypes, UNCHANGED task PROVE TaskTypes'
BY DEF TaskTypes, Placed

LEMMA EntryActionTypes ==
  ASSUME Types, Entry PROVE Types'
<1>1. CASE SetupReads
  BY <1>1, TasksUnchanged DEF SetupReads, Types, FileTypes, EntryTypes, WorldTypes,
                              GhostTypes, files, world, ghost
<1>2. CASE SetupNotes
  <2>1. history' \in [Mac -> Seq(Record)]
    BY <1>2, HistoryTypes DEF Types, EntryTypes, SetupNotes
  <2> QED BY <1>2, <2>1, TasksUnchanged
             DEF SetupNotes, Types, FileTypes, EntryTypes, WorldTypes, GhostTypes,
                 world, ghost
<1>3. CASE SetupEnds
  <2> DEFINE New(t) == [task[t] EXCEPT !.holds = FALSE, !.live = FALSE,
                          !.copy = IF task[t].live THEN runtime ELSE task[t].copy]
  <2>1. ASSUME NEW t \in Task PROVE OnTask(New(t))
    <3>1. task[t] \in Tasks /\ (task[t].at \notin Waiting => task[t].mac \in Mac)
      BY DEF Types, TaskTypes, Placed
    <3>2. (IF task[t].live THEN runtime ELSE task[t].copy) \in [Mac -> Record]
      BY <3>1 DEF Types, EntryTypes, Tasks
    <3> QED BY <3>1, <3>2 DEF OnTask, Tasks
  <2>2. task' = [t \in Task |-> New(t)]
    BY <1>3 DEF SetupEnds
  <2>3. TaskTypes'
    <3> HIDE DEF New
    <3> QED BY <2>1, <2>2 DEF TaskTypes, Placed, OnTask
  <2>4. runtime' \in [Mac -> Record] /\ fresh' \in [Mac -> Record]
    BY <1>3, RecordTypes DEF SetupEnds, Types, EntryTypes
  <2> QED BY <1>3, <2>3, <2>4 DEF SetupEnds, Types, FileTypes, EntryTypes, WorldTypes,
                                  GhostTypes, files, world, ghost
<1>4. CASE SetupFails
  BY <1>4, TasksUnchanged, RecordTypes
     DEF SetupFails, Types, FileTypes, EntryTypes, WorldTypes, GhostTypes,
         files, world, ghost
<1>5. ASSUME NEW m \in Mac, RemoveDevice(m) PROVE Types'
  <2>1. runtime' \in [Mac -> Record]
    BY <1>5, RecordTypes DEF RemoveDevice, Types, EntryTypes
  <2>2. <<NoTask, "remove">> \in Writers
    BY DEF Writers
  <2>3. devices' \in [Mac -> Record] /\ writer' \in [Mac -> Writers]
    BY <1>5, <2>1, <2>2, WriteTypes DEF RemoveDevice, Types, FileTypes, GhostTypes
  <2>4. mishaps' \in 0..MaxMishaps
    BY <1>5, MishapAssumption DEF RemoveDevice, Mishap, Types, WorldTypes
  <2> QED BY <1>5, <2>1, <2>3, <2>4, TasksUnchanged
             DEF RemoveDevice, Types, FileTypes, EntryTypes, WorldTypes, GhostTypes
<1> QED BY <1>1, <1>2, <1>3, <1>4, <1>5 DEF Entry

LEMMA WorldActionTypes ==
  ASSUME Types, World PROVE Types'
<1>1. CASE Crash
  <2>1. OnTask(Ended)
    BY PlaceTypes, Places DEF Ended, Waiting
  <2>2. TaskTypes'
    BY <1>1, <2>1 DEF Crash, Types, TaskTypes, Placed, OnTask
  <2>3. mishaps' \in 0..MaxMishaps
    BY <1>1, MishapAssumption DEF Crash, Mishap, Types, WorldTypes
  <2> QED BY <1>1, <2>2, <2>3, RecordTypes
             DEF Crash, Types, FileTypes, EntryTypes, WorldTypes, GhostTypes, files, ghost
<1>2. ASSUME NEW m \in Mac, AppPairs(m) PROVE Types'
  <2>1. cloud[m] + 1 \in 0..MaxGen
    BY <1>2, GenAssumption DEF AppPairs, Types, WorldTypes
  <2>2. bound' \in [Mac -> Record] /\ cloud' \in [Mac -> 0..MaxGen]
    BY <1>2, <2>1, RecordTypes DEF AppPairs, Types, WorldTypes
  <2>3. mishaps' \in 0..MaxMishaps
    BY <1>2, MishapAssumption DEF AppPairs, Mishap, Types, WorldTypes
  <2> QED BY <1>2, <2>2, <2>3, TasksUnchanged
             DEF AppPairs, Types, FileTypes, EntryTypes, WorldTypes, GhostTypes,
                 files, entry, ghost
<1>3. ASSUME NEW m \in Mac, ResetLock(m) PROVE Types'
  <2>1. mishaps' \in 0..MaxMishaps
    BY <1>3, MishapAssumption DEF ResetLock, Mishap, Types, WorldTypes
  <2> QED BY <1>3, <2>1, TasksUnchanged, RecordTypes
             DEF ResetLock, Types, FileTypes, EntryTypes, WorldTypes, GhostTypes,
                 files, entry, ghost
<1> QED BY <1>1, <1>2, <1>3 DEF World

LEMMA InitTypes == Init => Types
<1> SUFFICES ASSUME Init PROVE Types
  OBVIOUS
<1>1. \A m \in Mac : devices[m] \in Record /\ seeds[m] \in Record
  <2>1. Generation(1) \in Record
    <3>1. 1 \in 0..MaxGen
      BY GenAssumption
    <3> QED BY <3>1, RecordTypes
  <2> QED BY <2>1, RecordTypes DEF Init
<1>2. FileTypes
  BY <1>1 DEF Init, FileTypes
<1>3. EntryTypes
  BY RecordTypes DEF Init, EntryTypes
<1>4. WorldTypes
  BY <1>2, GenAssumption, MishapAssumption DEF Init, WorldTypes, FileTypes
<1>5. GhostTypes
  BY DEF Init, GhostTypes, Writers, Nobody, Kind
<1>6. TaskTypes
  <2>1. OnTask(At("idle"))
    BY PlaceTypes, Places DEF Waiting
  <2> QED BY <2>1 DEF Init, TaskTypes, Placed, OnTask
<1> QED BY <1>2, <1>3, <1>4, <1>5, <1>6 DEF Types

LEMMA NextTypes == Types /\ [Next]_vars => Types'
<1> SUFFICES ASSUME Types, [Next]_vars PROVE Types'
  OBVIOUS
<1>1. CASE UNCHANGED vars
  BY <1>1, TasksUnchanged DEF vars, Types, FileTypes, EntryTypes, WorldTypes, GhostTypes
<1>2. ASSUME NEW t \in Task, Starts(t) \/ Cloud(t) \/ Flow(t) \/ Storage(t) PROVE Types'
  BY <1>2, StartsTypes, CloudTypes, FlowTypes, StorageTypes
<1>3. CASE Entry
  BY <1>3, EntryActionTypes
<1>4. CASE World
  BY <1>4, WorldActionTypes
<1>5. CASE Over
  BY <1>1, <1>5 DEF Over
<1> QED BY <1>1, <1>2, <1>3, <1>4, <1>5 DEF Next

(* Type correctness: every file, store and task holds what it should, and   *)
(* an activation tries at most three times to save (activation.py:161-173). *)
THEOREM TypeCorrect == Spec => []KeysTypeOK
<1>1. Spec => []Types
  BY InitTypes, NextTypes, PTL DEF Spec
<1> QED BY <1>1, TypesGive, PTL
(***************************************************************************)
(* The ledger: the inductive invariant                                     *)
(***************************************************************************)
\* Every lock's keys in f are in its history H, if it has any.
Has(H, f) == \A m \in Mac : f[m] \in Range(H[m]) \union {NoKeys}

\* What a task holds is in the history, and so is what it pairs with, from
\* the moment it is saved as a seed.
KnownRecord(H, r) ==
  /\ Has(H, r.copy)
  /\ r.at = "saveSeed" => Complete(r.seed)
  /\ r.op = "confirm" => r.at \in {"load", "lock"}
  /\ r.at = "lock" => r.op = "confirm"
  /\ r.op = "confirm" \/ r.at \in {"suspend", "pair"} => r.seed \in Range(H[r.mac])

\* After an upgrade: the history is filled by the first set-up, before which
\* no task starts and nothing is written.
Virgin ==
  /\ \A t \in Task : task[t].at = "idle"
  /\ setup \in {"off", "noting"}
  /\ setup = "noting" => fresh = devices
  /\ history = [m \in Mac |-> <<>>]

KnownFiles == /\ Has(history, devices)
              /\ setup \in {"noting", "wiring"} => Has(history, fresh)

KnownTasks == \A t \in Task : KnownRecord(history, task[t])
KnownInUse == Has(history, runtime)
KnownPairs == \A m \in Mac : paired[m] \subseteq Range(history[m])

Kept == KnownInUse /\ KnownPairs /\ (Virgin \/ KnownFiles) /\ KnownTasks

(***************************************************************************)
(* Histories only grow                                                     *)
(***************************************************************************)
Extends(s, t) == Len(s) <= Len(t) /\ \A i \in 1..Len(s) : s[i] = t[i]

Grown == \A m \in Mac : Extends(history[m], history'[m])

LEMMA ExtendsRange ==
  ASSUME NEW s \in Seq(Record), NEW t \in Seq(Record), Extends(s, t)
  PROVE  Range(s) \subseteq Range(t)
BY DEF Extends, Range

LEMMA ExtendsPrefix ==
  ASSUME NEW s \in Seq(Record), NEW t \in Seq(Record), Extends(s, t)
  PROVE  IsPrefix(s, t)
<1>1. Len(s) \in Nat /\ Len(t) \in Nat /\ Len(s) <= Len(t)
  BY DEF Extends
<1>2. SubSeq(s, 1, Len(s)) = SubSeq(t, 1, Len(s))
  BY <1>1 DEF Extends
<1> QED BY <1>1, <1>2 DEF IsPrefix

LEMMA PrefixRange ==
  ASSUME NEW s \in Seq(Record), NEW t \in Seq(Record), IsPrefix(s, t)
  PROVE  Range(s) \subseteq Range(t)
<1>1. ASSUME NEW i \in 1..Len(s) PROVE s[i] \in Range(t)
  <2>1. /\ Len(s) <= Len(t) /\ SubSeq(s, 1, Len(s)) = SubSeq(t, 1, Len(s))
        /\ SubSeq(s, 1, Len(s))[i] = s[i] /\ SubSeq(t, 1, Len(s))[i] = t[i]
    BY DEF IsPrefix
  <2>2. i \in DOMAIN t
    BY <2>1
  <2> QED BY <2>1, <2>2 DEF Range
<1> QED BY <1>1 DEF Range

LEMMA RememberedExtends ==
  ASSUME NEW h \in Seq(Record), NEW k \in Record
  PROVE  /\ Remembered(h, k) \in Seq(Record)
         /\ Extends(h, Remembered(h, k))
         /\ k \in Range(Remembered(h, k)) \union {NoKeys}
<1>1. CASE k = Latest(h)
  BY <1>1 DEF Remembered, Latest, Extends, Range
<1>2. CASE k # Latest(h)
  <2>1. Remembered(h, k) = Append(h, k)
    BY <1>2 DEF Remembered
  <2>2. Append(h, k) \in Seq(Record) /\ Len(Append(h, k)) = Len(h) + 1
        /\ Append(h, k)[Len(h) + 1] = k
    OBVIOUS
  <2> QED BY <2>1, <2>2 DEF Extends, Range
<1> QED BY <1>1, <1>2

LEMMA LatestKnown ==
  ASSUME NEW h \in Seq(Record) PROVE Latest(h) \in Range(h) \union {NoKeys}
BY DEF Latest, Range

LEMMA ExtendsTwice ==
  ASSUME NEW a \in Seq(Record), NEW b \in Seq(Record), NEW c \in Seq(Record),
         Extends(a, b), Extends(b, c)
  PROVE  Extends(a, c)
BY DEF Extends

LEMMA UnchangedGrown == ASSUME Types, UNCHANGED history PROVE Grown
BY DEF Types, FileTypes, Grown, Extends

LEMMA RememberGrown ==
  ASSUME Types, NEW m \in Mac, NEW k \in Record, Remember(m, k)
  PROVE  Grown /\ k \in Range(history'[m]) \union {NoKeys}
<1>1. history[m] \in Seq(Record) /\ history'[m] = Remembered(history[m], k)
  BY DEF Types, FileTypes, Remember
<1>2. \A n \in Mac : history[n] \in Seq(Record) /\ Extends(history[n], history[n])
  BY DEF Types, FileTypes, Extends
<1>3. \A n \in Mac \ {m} : history'[n] = history[n]
  BY DEF Types, FileTypes, Remember
<1> QED BY <1>1, <1>2, <1>3, RememberedExtends DEF Grown

LEMMA SeedHistoryExtends ==
  ASSUME Types, NEW m \in Mac
  PROVE  SeedHistory(m) \in Seq(Record) /\ Extends(history[m], SeedHistory(m))
<1>1. history[m] \in Seq(Record) /\ seeds[m] \in Record
  BY DEF Types, FileTypes
<1>2. Extends(history[m], history[m])
  BY <1>1 DEF Extends
<1> QED BY <1>1, <1>2, RememberedExtends DEF SeedHistory

LEMMA RememberMissingGrown ==
  ASSUME Types, NEW f \in [Mac -> Record], RememberMissing(f)
  PROVE  /\ Grown
         /\ (\A m \in Mac : history[m] = <<>>) => Has(history', f)
<1>1. ASSUME NEW m \in Mac
      PROVE  /\ Extends(history[m], history'[m])
             /\ history[m] = <<>> => f[m] \in Range(history'[m]) \union {NoKeys}
  <2>1. history[m] \in Seq(Record) /\ f[m] \in Record
    BY DEF Types, FileTypes
  <2>2. Extends(history[m], history[m])
    BY <2>1 DEF Extends
  <2>3. history'[m] = IF history[m] = <<>> THEN Remembered(history[m], f[m])
                                           ELSE history[m]
    BY DEF RememberMissing
  <2> QED BY <2>1, <2>2, <2>3, RememberedExtends
<1> QED BY <1>1 DEF Grown, Has

LEMMA GrownKeeps ==
  ASSUME Types, Types', Grown
  PROVE  /\ \A m \in Mac : Range(history[m]) \subseteq Range(history'[m])
         /\ \A f : Has(history, f) => Has(history', f)
         /\ \A r : /\ KnownRecord(history, r)
                   /\ r.op = "confirm" \/ r.at \in {"suspend", "pair"} => r.mac \in Mac
                   => KnownRecord(history', r)
<1>1. \A m \in Mac : Range(history[m]) \subseteq Range(history'[m])
  BY ExtendsRange DEF Types, FileTypes, Grown
<1>2. \A f : Has(history, f) => Has(history', f)
  BY <1>1 DEF Has
<1> QED BY <1>1, <1>2 DEF KnownRecord
(***************************************************************************)
(* A step of one task                                                      *)
(***************************************************************************)
\* The step only learns: the ledger sees the history grow, or nothing.
Learns == Grown /\ UNCHANGED <<runtime, paired>>

Plain(r) == r.op # "confirm" /\ r.at \notin {"saveSeed", "lock", "suspend", "pair"}

LEMMA PlainKnown ==
  ASSUME NEW H, NEW r, Plain(r), Has(H, r.copy) PROVE KnownRecord(H, r)
BY DEF Plain, KnownRecord

LEMMA EndedKnown == \A H : KnownRecord(H, Ended)
BY DEF KnownRecord, Ended, At, Has, Nothing

LEMMA ReloadingKnown ==
  ASSUME NEW H, NEW r \in Tasks, r.op # "confirm" PROVE KnownRecord(H, Reloading(r))
BY DEF KnownRecord, Reloading, At, Has, Nothing

\* Nothing happens in a virgin installation but its first set-up.
LEMMA VirginIdle ==
  ASSUME Virgin, NEW t \in Task
  PROVE  ~(Starts(t) \/ Cloud(t) \/ Flow(t) \/ Storage(t))
<1>1. task[t].at = "idle" /\ setup \notin {"up", "none"}
  BY DEF Virgin
<1>2. ~Starts(t)
  BY <1>1 DEF Starts, PressRefresh, Reconfigure, SyncCloud, SelectSaved, Discovered,
              SelectRoute, ImportLocal
<1>3. ~Cloud(t)
  BY <1>1 DEF Cloud, AskCloud, Keep, FetchFails, ListAccount, ImportAccount, Merge, IsAt
<1>4. ~Flow(t)
  BY <1>1 DEF Flow, Choose, SaveSeed, CheckBinding, Reseed, Candidates, TakeLock,
              Suspend, PairLock, IsAt
<1>5. ~Storage(t)
  BY <1>1 DEF Storage, Load, Enrol, Save, StorageFails, TakeRoute, UpdateRoute, Reload,
              Reloaded, IsAt, Storing
<1> QED BY <1>2, <1>3, <1>4, <1>5

LEMMA TaskStep ==
  ASSUME Types, Types', Kept, ~Virgin, NEW t \in Task, NEW r, Become(t, r), Grown,
         KnownRecord(history', r), Has(history', devices'),
         UNCHANGED <<runtime, fresh, paired>>,
         setup' = setup \/ setup' = "reading"
  PROVE  Kept'
<1>1. /\ \A m \in Mac : Range(history[m]) \subseteq Range(history'[m])
      /\ \A f : Has(history, f) => Has(history', f)
  BY GrownKeeps
<1>2. KnownInUse' /\ KnownPairs' /\ KnownFiles'
  BY <1>1 DEF Kept, KnownInUse, KnownPairs, KnownFiles
<1>3. KnownTasks'
  <2>1. ASSUME NEW u \in Task PROVE KnownRecord(history', task'[u])
    <3>1. CASE u = t
      BY <3>1 DEF Become, Types, TaskTypes
    <3>2. CASE u # t
      <4>1. task'[u] = task[u] /\ KnownRecord(history, task[u])
        BY <3>2 DEF Become, Kept, KnownTasks
      <4>2. task[u].op = "confirm" \/ task[u].at \in {"suspend", "pair"}
              => task[u].mac \in Mac
        BY <4>1 DEF Types, TaskTypes, Placed, Waiting, KnownRecord
      <4> QED BY <4>1, <4>2, GrownKeeps
    <3> QED BY <3>1, <3>2
  <2> QED BY <2>1 DEF KnownTasks
<1> QED BY <1>2, <1>3 DEF Kept

LEMMA FilesKept ==
  ASSUME Types, Types', Kept, ~Virgin, Grown
  PROVE  /\ Has(history', devices) /\ Has(history', runtime)
         /\ \A t \in Task : Has(history', task[t].copy)
BY GrownKeeps DEF Kept, KnownFiles, KnownInUse, KnownTasks, KnownRecord

\* What most actions of a task do.
LEMMA LearningStep ==
  ASSUME Types, Types', Kept, ~Virgin, NEW t \in Task, NEW r, Become(t, r), Grown,
         KnownRecord(history', r), UNCHANGED <<devices, entry, ghost>>
  PROVE  Kept' /\ Learns
BY TaskStep, FilesKept DEF Learns, entry, ghost

(***************************************************************************)
(* Starting, and the cloud                                                 *)
(***************************************************************************)
LEMMA BeginKept ==
  ASSUME Types, Types', Kept, ~Virgin, NEW t \in Task, NEW m \in Mac, NEW o, NEW p,
         Begin(t, o, m, p), o \in Kind \ {"confirm"}, p \in {"load", "list", "choose", "wait"}
  PROVE  Kept' /\ Learns
<1> DEFINE r == [task[t] EXCEPT !.op = o, !.mac = m, !.at = p]
<1>1. task[t] \in Tasks /\ Has(history, task[t].copy) /\ Grown /\ history' = history
  BY UnchangedGrown DEF Types, TaskTypes, Kept, KnownTasks, KnownRecord, Begin, files
<1>2. r.op = o /\ r.at = p /\ r.copy = task[t].copy
  BY <1>1 DEF Tasks
<1>3. KnownRecord(history', r)
  <2> HIDE DEF r
  <2> QED BY <1>1, <1>2, PlainKnown DEF Plain
<1> QED BY <1>1, <1>3, LearningStep DEF Begin, files

LEMMA StartsKept ==
  ASSUME Types, Types', Kept, NEW t \in Task, Starts(t) PROVE Kept' /\ Learns
<1>0. ~Virgin
  BY VirginIdle
<1> PICK m \in Mac : \/ PressRefresh(t, m) \/ Reconfigure(t, m) \/ SyncCloud(t, m)
                     \/ SelectSaved(t, m) \/ Discovered(t, m)
                     \/ SelectRoute(t, m) \/ ImportLocal(t, m)
  BY DEF Starts
<1>1. CASE ImportLocal(t, m)
  <2>1. PICK g \in 1..MaxGen :
          Become(t, [task[t] EXCEPT !.op = "import", !.mac = m, !.at = "load",
                                    !.seed = Generation(g)])
    BY <1>1 DEF ImportLocal
  <2> DEFINE r == [task[t] EXCEPT !.op = "import", !.mac = m, !.at = "load",
                                  !.seed = Generation(g)]
  <2>2. task[t] \in Tasks /\ Has(history, task[t].copy) /\ Grown /\ history' = history
    BY <1>1, UnchangedGrown
       DEF Types, TaskTypes, Kept, KnownTasks, KnownRecord, ImportLocal, files
  <2>3. r.op = "import" /\ r.at = "load" /\ r.copy = task[t].copy
    BY <2>2 DEF Tasks
  <2>4. KnownRecord(history', r)
    <3> HIDE DEF r
    <3> QED BY <2>2, <2>3, PlainKnown DEF Plain
  <2> QED BY <1>0, <1>1, <2>1, <2>2, <2>4, LearningStep DEF ImportLocal, files
<1>2. CASE ~ImportLocal(t, m)
  <2>1. \E o \in Kind \ {"confirm"}, p \in {"load", "list", "choose", "wait"} :
          Begin(t, o, m, p)
    BY <1>2 DEF PressRefresh, Reconfigure, SyncCloud, SelectSaved, Discovered,
                SelectRoute, Kind
  <2> QED BY <1>0, <2>1, BeginKept
<1> QED BY <1>1, <1>2

\* What is known of a task that is neither confirmed nor about to pair.
LEMMA AtKnown ==
  ASSUME Types, Kept, NEW t \in Task, task[t].at \notin Waiting
  PROVE  /\ task[t] \in Tasks /\ task[t].mac \in Mac /\ task[t].seed \in Record
         /\ Has(history, task[t].copy) /\ KnownRecord(history, task[t])
         /\ task[t].at \notin {"load", "lock"} => task[t].op # "confirm"
BY DEF Types, TaskTypes, Placed, Tasks, Kept, KnownTasks, KnownRecord

LEMMA ImportedKnown ==
  ASSUME NEW H, NEW r \in Tasks, Has(H, r.copy), r.op # "confirm"
  PROVE  KnownRecord(H, Imported(r))
<1> DEFINE told == {m \in Mac : r.copy[m] # NoKeys /\ r.got[m] # NoKeys}
           a == [r EXCEPT !.got = Nothing, !.at = "choose"]
           b == [r EXCEPT !.todo = told, !.at = "merge"]
           c == [r EXCEPT !.seed = r.got[r.mac], !.at = "saveSeed"]
<1>1. a.op = r.op /\ a.copy = r.copy /\ a.at = "choose"
  BY DEF Tasks
<1>2. b.op = r.op /\ b.copy = r.copy /\ b.at = "merge"
  BY DEF Tasks
<1>3. c.op = r.op /\ c.copy = r.copy /\ c.at = "saveSeed" /\ c.seed = r.got[r.mac]
  BY DEF Tasks
<1>4. \/ Imported(r) \in {a, b, Reloading(r), Ended}
      \/ Imported(r) = c /\ Complete(r.got[r.mac])
  BY DEF Imported
<1>5. KnownRecord(H, a) /\ KnownRecord(H, b)
  <2> HIDE DEF a, b
  <2> QED BY <1>1, <1>2, PlainKnown DEF Plain
<1>6. Complete(r.got[r.mac]) => KnownRecord(H, c)
  <2> HIDE DEF c
  <2> QED BY <1>3 DEF KnownRecord
<1> HIDE DEF a, b, c
<1> QED BY <1>4, <1>5, <1>6, EndedKnown, ReloadingKnown

LEMMA ImportAccountKept ==
  ASSUME Types, Types', Kept, ~Virgin, NEW t \in Task, ImportAccount(t)
  PROVE  Kept' /\ Learns
<1> DEFINE listed == task[t].got
           h(m) == Remembered(history[m], listed[m])
           Got(answer) == [m \in Mac |->
                             CASE answer[m] = "all"     -> Generation(cloud[m])
                               [] answer[m] = "partial" -> listed[m]
                               [] answer[m] = "error"   -> NoKeys]
<1>1. task[t].at \notin Waiting /\ task[t].at \notin {"load", "lock"}
  BY DEF ImportAccount, IsAt, Waiting
<1>2. PICK answer \in [Mac -> {"all", "partial", "error"}] :
        /\ history' = [m \in Mac |-> IF Got(answer)[m] = NoKeys THEN h(m)
                                      ELSE Remembered(h(m), Got(answer)[m])]
        /\ Become(t, Imported([task[t] EXCEPT !.got = Got(answer)]))
  BY DEF ImportAccount
<1>3. listed \in [Mac -> Record] /\ task[t] \in Tasks
  BY <1>1, AtKnown DEF Tasks
<1>4. Got(answer) \in [Mac -> Record]
  BY <1>3, RecordTypes DEF Types, WorldTypes
<1>5. Grown
  <2>1. ASSUME NEW m \in Mac PROVE Extends(history[m], history'[m])
    <3> HIDE DEF Got
    <3>1. history[m] \in Seq(Record) /\ listed[m] \in Record /\ Got(answer)[m] \in Record
      BY <1>3, <1>4 DEF Types, FileTypes
    <3>2. h(m) \in Seq(Record) /\ Extends(history[m], h(m))
      BY <3>1, RememberedExtends
    <3>3. history'[m] = h(m) \/ history'[m] = Remembered(h(m), Got(answer)[m])
      BY <1>2
    <3> HIDE DEF h
    <3>4. /\ Remembered(h(m), Got(answer)[m]) \in Seq(Record)
          /\ Extends(h(m), Remembered(h(m), Got(answer)[m]))
      BY <3>1, <3>2, RememberedExtends
    <3> QED BY <3>1, <3>2, <3>3, <3>4, ExtendsTwice
  <2> QED BY <2>1 DEF Grown
<1> DEFINE r == [task[t] EXCEPT !.got = Got(answer)]
<1>6. r \in Tasks /\ r.op = task[t].op /\ r.copy = task[t].copy
  <2> HIDE DEF Got
  <2> QED BY <1>3, <1>4 DEF Tasks
<1>7. KnownRecord(history', Imported(r))
  <2> HIDE DEF r
  <2> QED BY <1>1, <1>5, <1>6, AtKnown, FilesKept, ImportedKnown
<1> HIDE DEF Got
<1> QED BY <1>2, <1>5, <1>7, LearningStep DEF ImportAccount

LEMMA MergeKept ==
  ASSUME Types, Types', Kept, ~Virgin, NEW t \in Task, NEW m \in Mac, Merge(t, m)
  PROVE  Kept' /\ Learns
<1> DEFINE k == Merged(task[t].got[m], task[t].copy[m])
           r == [task[t] EXCEPT !.copy[m] = k, !.todo = @ \ {m}, !.at = "save"]
<1>1. task[t].at \notin Waiting /\ task[t].at \notin {"load", "lock"}
  BY DEF Merge, IsAt, Waiting
<1>2. k \in Record
  BY <1>1, AtKnown, MergedTypes DEF Tasks
<1>3. Grown /\ k \in Range(history'[m]) \union {NoKeys}
  BY <1>2, RememberGrown DEF Merge
<1>4. r.op = task[t].op /\ r.copy = [task[t].copy EXCEPT ![m] = k] /\ r.at = "save"
  <2> HIDE DEF k
  <2> QED BY <1>1, AtKnown DEF Tasks
<1>5. Has(history', [task[t].copy EXCEPT ![m] = k])
  <2> HIDE DEF k
  <2>1. task[t].copy \in [Mac -> Record] /\ Has(history', task[t].copy)
    BY <1>1, <1>3, AtKnown, FilesKept DEF Tasks
  <2> QED BY <1>3, <2>1 DEF Has
<1>6. KnownRecord(history', r)
  <2> HIDE DEF r, k
  <2> QED BY <1>1, <1>4, <1>5, AtKnown, PlainKnown DEF Plain
<1>7. Become(t, r) /\ UNCHANGED <<devices, entry, ghost>>
  BY DEF Merge
<1> HIDE DEF r
<1> QED BY <1>3, <1>6, <1>7, LearningStep

LEMMA CloudKept ==
  ASSUME Types, Types', Kept, NEW t \in Task, Cloud(t) PROVE Kept' /\ Learns
<1>0. ~Virgin
  BY VirginIdle
<1>1. CASE AskCloud(t)
  <2>1. task[t].at \notin Waiting /\ task[t].at \notin {"load", "lock"}
    BY <1>1 DEF AskCloud, IsAt, Waiting
  <2>2. PICK k : Become(t, [task[t] EXCEPT !.got[task[t].mac] = k, !.todo = {task[t].mac},
                              !.at = IF k = NoKeys THEN "merge" ELSE "keep"])
    BY <1>1 DEF AskCloud
  <2> DEFINE r == [task[t] EXCEPT !.got[task[t].mac] = k, !.todo = {task[t].mac},
                              !.at = IF k = NoKeys THEN "merge" ELSE "keep"]
  <2>3. /\ r.op = task[t].op /\ r.copy = task[t].copy
        /\ r.at = IF k = NoKeys THEN "merge" ELSE "keep"
    BY <2>1, AtKnown DEF Tasks
  <2>4. Grown /\ history' = history
    BY <1>1, UnchangedGrown DEF AskCloud, files
  <2>5. KnownRecord(history', r)
    <3> HIDE DEF r
    <3> QED BY <2>1, <2>3, <2>4, AtKnown, PlainKnown DEF Plain
  <2> QED BY <1>0, <1>1, <2>2, <2>4, <2>5, LearningStep DEF AskCloud, files
<1>2. CASE Keep(t)
  <2>1. task[t].at \notin Waiting /\ task[t].at \notin {"load", "lock"}
    BY <1>2 DEF Keep, IsAt, Waiting
  <2> DEFINE r == [task[t] EXCEPT !.at = "merge"]
  <2>2. r.op = task[t].op /\ r.copy = task[t].copy /\ r.at = "merge"
    BY <2>1, AtKnown DEF Tasks
  <2>3. task[t].got[task[t].mac] \in Record
    BY <2>1, AtKnown DEF Tasks
  <2>4. Grown
    BY <1>2, <2>1, <2>3, AtKnown, RememberGrown DEF Keep
  <2>5. KnownRecord(history', r)
    <3> HIDE DEF r
    <3> QED BY <1>0, <2>1, <2>2, <2>4, AtKnown, FilesKept, PlainKnown DEF Plain
  <2> QED BY <1>0, <1>2, <2>4, <2>5, LearningStep DEF Keep, Go
<1>3. CASE FetchFails(t)
  <2>1. task[t].at \notin Waiting /\ task[t].at \notin {"load", "lock"}
    BY <1>3 DEF FetchFails, Waiting
  <2>2. Grown
    BY <1>3, UnchangedGrown DEF FetchFails, files
  <2>3. KnownRecord(history', Reloading(task[t]))
    BY <2>1, AtKnown, ReloadingKnown
  <2> QED BY <1>0, <1>3, <2>2, <2>3, LearningStep DEF FetchFails, files
<1>4. CASE ListAccount(t)
  <2>1. task[t].at \notin Waiting /\ task[t].at \notin {"load", "lock"}
    BY <1>4 DEF ListAccount, IsAt, Waiting
  <2> DEFINE listed == [m \in Mac |-> [local |-> cloud[m], verify |-> 0]]
             r == [task[t] EXCEPT !.got = listed, !.at = "keys"]
  <2>2. r.op = task[t].op /\ r.copy = task[t].copy /\ r.at = "keys"
    BY <2>1, AtKnown DEF Tasks
  <2>3. Grown /\ history' = history
    BY <1>4, UnchangedGrown DEF ListAccount, files
  <2>4. KnownRecord(history', r)
    <3> HIDE DEF r
    <3> QED BY <2>1, <2>2, <2>3, AtKnown, PlainKnown DEF Plain
  <2>5. Become(t, Ended) \/ Become(t, r)
    BY <1>4 DEF ListAccount
  <2> HIDE DEF r
  <2> QED BY <1>0, <1>4, <2>3, <2>4, <2>5, EndedKnown, LearningStep DEF ListAccount, files
<1>5. CASE ImportAccount(t)
  BY <1>0, <1>5, ImportAccountKept
<1>6. ASSUME NEW m \in Mac, Merge(t, m) PROVE Kept' /\ Learns
  BY <1>0, <1>6, MergeKept
<1> QED BY <1>1, <1>2, <1>3, <1>4, <1>5, <1>6 DEF Cloud
(***************************************************************************)
(* Adding and activating                                                   *)
(***************************************************************************)
\* A step that leaves files and copies alone and goes on plainly.
LEMMA PlainStep ==
  ASSUME Types, Types', Kept, ~Virgin, NEW t \in Task, NEW r, Become(t, r), Plain(r),
         r.copy = task[t].copy, Grown, UNCHANGED <<devices, entry, ghost>>
  PROVE  Kept' /\ Learns
<1>1. KnownRecord(history', r)
  BY FilesKept, PlainKnown
<1> QED BY <1>1, LearningStep

LEMMA EndingStep ==
  ASSUME Types, Types', Kept, ~Virgin, NEW t \in Task, Grown,
         Become(t, Ended) \/ (task[t].op # "confirm" /\ Become(t, Reloading(task[t]))),
         UNCHANGED <<devices, entry, ghost>>
  PROVE  Kept' /\ Learns
<1>1. task[t] \in Tasks
  BY DEF Types, TaskTypes
<1>2. CASE Become(t, Ended)
  BY <1>2, EndedKnown, LearningStep
<1>3. CASE task[t].op # "confirm" /\ Become(t, Reloading(task[t]))
  BY <1>1, <1>3, ReloadingKnown, LearningStep
<1> QED BY <1>2, <1>3

LEMMA SeedHistoryGrown ==
  ASSUME Types, NEW m \in Mac, history' = [history EXCEPT ![m] = SeedHistory(m)]
  PROVE  Grown
<1>1. \A n \in Mac : history[n] \in Seq(Record) /\ Extends(history[n], history[n])
  BY DEF Types, FileTypes, Extends
<1>2. \A n \in Mac : history'[n] = IF n = m THEN SeedHistory(m) ELSE history[n]
  BY DEF Types, FileTypes
<1> QED BY <1>1, <1>2, SeedHistoryExtends DEF Grown

LEMMA ChooseKept ==
  ASSUME Types, Types', Kept, ~Virgin, NEW t \in Task, Choose(t) PROVE Kept' /\ Learns
<1> DEFINE h == [x \in Mac |-> SeedHistory(x)]
           r == [task[t] EXCEPT !.seed = Latest(h[task[t].mac]), !.at = "saveSeed"]
<1>1. task[t].at \notin Waiting /\ task[t].at \notin {"load", "lock"}
  BY DEF Choose, IsAt, Waiting
<1>2. Grown
  BY SeedHistoryExtends DEF Choose, Grown
<1>3. /\ r.op = task[t].op /\ r.copy = task[t].copy /\ r.at = "saveSeed"
      /\ r.seed = Latest(h[task[t].mac])
  <2> HIDE DEF h
  <2> QED BY <1>1, AtKnown DEF Tasks
<1>4. CASE Become(t, r) /\ Complete(Latest(h[task[t].mac]))
  <2>1. KnownRecord(history', r)
    <3> HIDE DEF r, h
    <3> QED BY <1>1, <1>2, <1>3, <1>4, AtKnown, FilesKept DEF KnownRecord
  <2> HIDE DEF r
  <2> QED BY <1>2, <1>4, <2>1, LearningStep DEF Choose
<1>5. CASE Become(t, Ended) \/ Become(t, Reloading(task[t]))
  BY <1>1, <1>2, <1>5, AtKnown, EndingStep DEF Choose
<1> QED BY <1>4, <1>5 DEF Choose

LEMMA CompleteKeys == \A k : Complete(k) => k # NoKeys
BY DEF Complete, NoKeys

\* A task becomes "confirm" with keys that the history has.
LEMMA ConfirmingStep ==
  ASSUME Types, Types', Kept, ~Virgin, NEW t \in Task, NEW r \in Tasks,
         r.copy = task[t].copy, r.seed \in Range(history'[r.mac]),
         Become(t, Confirming(r)), Grown, UNCHANGED <<devices, entry, ghost>>
  PROVE  Kept' /\ Learns
<1>1. /\ Confirming(r).op = "confirm" /\ Confirming(r).at = "load"
      /\ Confirming(r).copy = task[t].copy
      /\ Confirming(r).seed = r.seed /\ Confirming(r).mac = r.mac
  BY DEF Confirming, Tasks
<1>2. KnownRecord(history', Confirming(r))
  BY <1>1, FilesKept DEF KnownRecord
<1> QED BY <1>2, LearningStep

LEMMA SaveSeedKept ==
  ASSUME Types, Types', Kept, ~Virgin, NEW t \in Task, SaveSeed(t) PROVE Kept' /\ Learns
<1> DEFINE r == task[t]
           a == [r EXCEPT !.at = "check"]
<1>1. r.at \notin Waiting /\ r.at \notin {"load", "lock"}
  BY DEF SaveSeed, IsAt, Waiting
<1>2. Complete(r.seed)
  BY DEF SaveSeed, IsAt, Kept, KnownTasks, KnownRecord
<1>3. Grown /\ r.seed \in Range(history'[r.mac])
  BY <1>1, <1>2, AtKnown, CompleteKeys, RememberGrown DEF SaveSeed
<1>4. CASE Become(t, a)
  <2>1. a.op = r.op /\ a.copy = r.copy /\ a.at = "check"
    BY <1>1, AtKnown DEF Tasks
  <2>2. Plain(a)
    BY <1>1, <2>1, AtKnown DEF Plain
  <2> HIDE DEF a
  <2> QED BY <1>3, <1>4, <2>1, <2>2, PlainStep DEF SaveSeed
<1>5. CASE Become(t, Confirming(r))
  BY <1>1, <1>3, <1>5, AtKnown, ConfirmingStep DEF SaveSeed
<1> QED BY <1>4, <1>5 DEF SaveSeed

LEMMA CheckBindingKept ==
  ASSUME Types, Types', Kept, ~Virgin, NEW t \in Task, CheckBinding(t)
  PROVE  Kept' /\ Learns
<1> DEFINE r == task[t]
           a == [r EXCEPT !.op = "activate", !.at = "load"]
           b == [r EXCEPT !.at = "load"]
<1>1. r.at \notin Waiting /\ r.at \notin {"load", "lock"}
  BY DEF CheckBinding, IsAt, Waiting
<1>2. Grown /\ history' = history /\ UNCHANGED <<devices, runtime, fresh, setup, paired>>
  BY UnchangedGrown DEF CheckBinding, files, entry
<1>3. /\ a.op = "activate" /\ a.at = "load" /\ a.copy = r.copy
      /\ b.op = r.op /\ b.at = "load" /\ b.copy = r.copy
  BY <1>1, AtKnown DEF Tasks
<1>4. KnownRecord(history', a) /\ KnownRecord(history', b)
  <2> HIDE DEF a, b
  <2> QED BY <1>1, <1>2, <1>3, AtKnown, PlainKnown DEF Plain
<1>5. KnownRecord(history', Reloading(r)) /\ KnownRecord(history', Ended)
  BY <1>1, AtKnown, ReloadingKnown, EndedKnown
<1>6. Become(t, a) \/ Become(t, b) \/ Become(t, Reloading(r)) \/ Become(t, Ended)
  BY DEF CheckBinding, Go
<1>7. Has(history', devices')
  BY <1>2, FilesKept
<1> HIDE DEF a, b
<1> QED BY <1>2, <1>4, <1>5, <1>6, <1>7, TaskStep DEF Learns

LEMMA ReseedKept ==
  ASSUME Types, Types', Kept, ~Virgin, NEW t \in Task, Reseed(t) PROVE Kept' /\ Learns
<1> DEFINE m == task[t].mac
           k == Latest(SeedHistory(m))
           to == CASE ~Complete(k)     -> "ended"
                   [] k # task[t].seed -> "check"
                   [] OTHER            -> "enrol"
           r == [task[t] EXCEPT !.seed = k, !.at = to]
<1>1. task[t].at \notin Waiting /\ task[t].at \notin {"load", "lock"}
  BY DEF Reseed, IsAt, Waiting
<1>2. Grown
  BY <1>1, AtKnown, SeedHistoryGrown DEF Reseed
<1>3. r.op = task[t].op /\ r.copy = task[t].copy /\ r.at = to
  <2> HIDE DEF k, to
  <2> QED BY <1>1, AtKnown DEF Tasks
<1>4. Plain(r)
  <2>1. to \in {"ended", "check", "enrol"}
    OBVIOUS
  <2> HIDE DEF r, to
  <2> QED BY <1>1, <1>3, <2>1, AtKnown DEF Plain
<1>5. Become(t, Ended) \/ Become(t, r)
  BY DEF Reseed, GoOn
<1> HIDE DEF r
<1> QED BY <1>2, <1>3, <1>4, <1>5, PlainStep, EndingStep DEF Reseed

LEMMA CandidatesKept ==
  ASSUME Types, Types', Kept, ~Virgin, NEW t \in Task, Candidates(t)
  PROVE  Kept' /\ Learns
<1> DEFINE m == task[t].mac
           mine == task[t].copy[m]
           saved == Latest(SeedHistory(m))
           k == IF Complete(mine) THEN mine ELSE saved
           r == [task[t] EXCEPT !.was = mine, !.seed = k]
           a == [r EXCEPT !.at = "list"]
<1>1. task[t].at \notin Waiting /\ task[t].at \notin {"load", "lock"}
  BY DEF Candidates, IsAt, Waiting
<1>2. Grown /\ history'[m] = SeedHistory(m) /\ SeedHistory(m) \in Seq(Record)
  BY <1>1, AtKnown, SeedHistoryGrown, SeedHistoryExtends
     DEF Candidates, Types, FileTypes
<1>3. k \in Range(history'[m]) \union {NoKeys}
  BY <1>1, <1>2, AtKnown, FilesKept, LatestKnown DEF Has
<1>4. mine \in Record /\ k \in Record
  BY <1>1, <1>2, AtKnown, HistoryTypes DEF Types, Tasks
<1>5. r \in Tasks /\ r.op = task[t].op /\ r.copy = task[t].copy /\ r.seed = k /\ r.mac = m
  <2> HIDE DEF k, mine
  <2> QED BY <1>1, <1>4, AtKnown DEF Tasks
<1>6. CASE Become(t, Confirming(r)) /\ Complete(k)
  <2>1. r.seed \in Range(history'[r.mac])
    <3> HIDE DEF r, k
    <3> QED BY <1>3, <1>5, <1>6, CompleteKeys
  <2> HIDE DEF r
  <2> QED BY <1>2, <1>5, <1>6, <2>1, ConfirmingStep DEF Candidates
<1>7. CASE Become(t, a)
  <2>1. a.op = task[t].op /\ a.at = "list" /\ a.copy = task[t].copy
    <3> HIDE DEF r
    <3> QED BY <1>5 DEF Tasks
  <2>2. Plain(a)
    <3> HIDE DEF a
    <3> QED BY <1>1, <2>1, AtKnown DEF Plain
  <2> HIDE DEF a
  <2> QED BY <1>2, <1>7, <2>1, <2>2, PlainStep DEF Candidates
<1>8. (Become(t, Confirming(r)) /\ Complete(k)) \/ Become(t, a)
  <2>1. r.seed = k
    BY <1>5
  <2> QED BY <2>1 DEF Candidates
<1> QED BY <1>6, <1>7, <1>8

LEMMA TakeLockKept ==
  ASSUME Types, Types', Kept, ~Virgin, NEW t \in Task, TakeLock(t) PROVE Kept' /\ Learns
<1> DEFINE r == [task[t] EXCEPT !.op = "persist", !.at = "suspend",
                                !.copy = Nothing, !.was = NoKeys]
<1>1. task[t].at = "lock" /\ task[t].at \notin Waiting
  BY DEF TakeLock, IsAt, Waiting
<1>2. task[t].seed \in Range(history[task[t].mac])
  BY <1>1 DEF Kept, KnownTasks, KnownRecord
<1>3. /\ r.op = "persist" /\ r.at = "suspend" /\ r.copy = Nothing
      /\ r.seed = task[t].seed /\ r.mac = task[t].mac
  BY <1>1, AtKnown DEF Tasks
<1>4. Grown /\ history' = history
  BY UnchangedGrown DEF TakeLock, files
<1>5. KnownRecord(history', r)
  <2>1. Has(history', Nothing)
    BY DEF Has, Nothing
  <2> HIDE DEF r
  <2> QED BY <1>2, <1>3, <1>4, <2>1 DEF KnownRecord
<1> QED BY <1>4, <1>5, LearningStep DEF TakeLock, files

LEMMA SuspendKept ==
  ASSUME Types, Types', Kept, ~Virgin, NEW t \in Task, Suspend(t) PROVE Kept' /\ Learns
<1> DEFINE r == [task[t] EXCEPT !.holds = runtime[task[t].mac] # NoKeys, !.at = "pair"]
<1>1. task[t].at = "suspend" /\ task[t].at \notin Waiting
  BY DEF Suspend, IsAt, Waiting
<1>2. /\ r.op = task[t].op /\ r.at = "pair" /\ r.copy = task[t].copy
      /\ r.seed = task[t].seed /\ r.mac = task[t].mac
  BY <1>1, AtKnown DEF Tasks
<1>3. Grown /\ history' = history
  BY UnchangedGrown DEF Suspend, files
<1>4. KnownRecord(history', r)
  <2> HIDE DEF r
  <2> QED BY <1>1, <1>2, <1>3, AtKnown DEF KnownRecord
<1> QED BY <1>3, <1>4, LearningStep DEF Suspend, files

\* The ledger pairs, or nothing happens to it.
LEMMA PairLockKept ==
  ASSUME Types, Types', Kept, ~Virgin, NEW t \in Task, PairLock(t)
  PROVE  /\ Kept'
         /\ UNCHANGED <<history, runtime>>
         /\ \/ UNCHANGED paired
            \/ \E m \in Mac : \E k \in Range(history[m]) :
                 paired' = [paired EXCEPT ![m] = @ \union {k}]
<1> DEFINE m == task[t].mac
           a == [task[t] EXCEPT !.at = "load"]
<1>1. task[t].at = "pair" /\ task[t].at \notin Waiting
  BY DEF PairLock, IsAt, Waiting
<1>2. m \in Mac /\ task[t].seed \in Range(history[m])
  BY <1>1, AtKnown DEF KnownRecord
<1>3. Grown /\ UNCHANGED <<history, runtime, setup, fresh, devices>>
  BY UnchangedGrown DEF PairLock, files, entry
<1>4. \/ UNCHANGED paired
      \/ paired' = [paired EXCEPT ![m] = @ \union {task[t].seed}]
  BY DEF PairLock
<1>5. /\ a.op = task[t].op /\ a.at = "load" /\ a.copy = task[t].copy
      /\ a.seed = task[t].seed /\ a.mac = m
  BY <1>1, AtKnown DEF Tasks
<1>6. KnownRecord(history', a) /\ KnownRecord(history', Ended)
  <2>1. task[t].op # "confirm" /\ Has(history', task[t].copy)
    BY <1>1, <1>3, AtKnown, FilesKept
  <2> HIDE DEF a
  <2> QED BY <1>5, <2>1, PlainKnown, EndedKnown DEF Plain
<1>7. Become(t, a) \/ Become(t, Ended)
  BY DEF PairLock, Go
<1>8. KnownPairs'
  BY <1>2, <1>3, <1>4 DEF Kept, KnownPairs, Types, GhostTypes
<1>9. KnownTasks'
  <2>1. \A u \in Task \ {t} : task'[u] = task[u]
    BY <1>7 DEF Become, Types, TaskTypes
  <2>2. KnownRecord(history', task'[t])
    <3> HIDE DEF a
    <3> QED BY <1>6, <1>7 DEF Become, Types, TaskTypes
  <2> QED BY <1>3, <2>1, <2>2 DEF Kept, KnownTasks
<1> QED BY <1>2, <1>3, <1>4, <1>8, <1>9 DEF Kept, KnownInUse, KnownFiles
(***************************************************************************)
(* The files                                                               *)
(***************************************************************************)
LEMMA LoadKept ==
  ASSUME Types, Types', Kept, ~Virgin, NEW t \in Task, Load(t) PROVE Kept' /\ Learns
<1> DEFINE r == [task[t] EXCEPT !.copy = devices]
           a == [r EXCEPT !.at = AfterLoad(r)]
<1>1. task[t].at = "load" /\ task[t].at \notin Waiting
  BY DEF Load, IsAt, Waiting
<1>2. Grown
  BY RememberMissingGrown DEF Load, Types, FileTypes
<1>3. /\ r \in Tasks /\ r.op = task[t].op /\ r.copy = devices
      /\ r.seed = task[t].seed /\ r.mac = task[t].mac
  BY <1>1, AtKnown DEF Tasks, Types, FileTypes
<1>4. /\ a.op = r.op /\ a.at = AfterLoad(r) /\ a.copy = devices
      /\ a.seed = task[t].seed /\ a.mac = task[t].mac
  <2> HIDE DEF r
  <2> QED BY <1>3 DEF Tasks
<1>5. a.op = "confirm" => a.seed \in Range(history'[a.mac])
  <2>1. task[t].op = "confirm" => task[t].seed \in Range(history'[task[t].mac])
    BY <1>1, <1>2, AtKnown, GrownKeeps DEF KnownRecord
  <2> HIDE DEF r, a
  <2> QED BY <1>3, <1>4, <2>1
<1>6. /\ AfterLoad(r) \notin {"saveSeed", "suspend", "pair"}
      /\ r.op = "confirm" => AfterLoad(r) \in {"lock", "ended"}
      /\ AfterLoad(r) = "lock" => r.op = "confirm"
  <2> HIDE DEF r
  <2> QED BY DEF AfterLoad
<1>7. CASE Become(t, a) /\ AfterLoad(r) # "ended"
  <2>1. KnownRecord(history', a)
    <3>1. Has(history', devices)
      BY <1>2, FilesKept
    <3> HIDE DEF r, a
    <3> QED BY <1>3, <1>4, <1>5, <1>6, <1>7, <3>1 DEF KnownRecord
  <2> HIDE DEF a
  <2> QED BY <1>2, <1>7, <2>1, LearningStep DEF Load
<1>8. CASE Become(t, Ended)
  BY <1>2, <1>8, EndingStep DEF Load
<1>9. (Become(t, a) /\ AfterLoad(r) # "ended") \/ Become(t, Ended)
  <2> HIDE DEF r
  <2>1. a.at = AfterLoad(r)
    BY <1>4
  <2> QED BY <2>1 DEF Load, GoOn, r
<1> QED BY <1>7, <1>8, <1>9

LEMMA EnrolKept ==
  ASSUME Types, Types', Kept, ~Virgin, NEW t \in Task, Enrol(t) PROVE Kept' /\ Learns
<1> DEFINE r == task[t]
           a == [r EXCEPT !.copy = WithRecord(r), !.at = "save"]
<1>1. r.at \notin Waiting /\ r.at \notin {"load", "lock"}
  BY DEF Enrol, IsAt, Waiting
<1>2. Grown /\ r.seed \in Range(history'[r.mac]) \union {NoKeys}
  BY <1>1, AtKnown, RememberGrown DEF Enrol
<1>3. a.op = r.op /\ a.copy = WithRecord(r) /\ a.at = "save"
  BY <1>1, AtKnown DEF Tasks
<1>4. Has(history', WithRecord(r))
  <2>1. r.copy \in [Mac -> Record] /\ Has(history', r.copy)
    BY <1>1, <1>2, AtKnown, FilesKept DEF Tasks
  <2> QED BY <1>2, <2>1 DEF Has, WithRecord
<1>5. KnownRecord(history', a)
  <2> HIDE DEF a
  <2> QED BY <1>1, <1>3, <1>4, AtKnown, PlainKnown DEF Plain
<1> HIDE DEF a
<1> QED BY <1>2, <1>5, LearningStep DEF Enrol, a

LEMMA SaveKept ==
  ASSUME Types, Types', Kept, ~Virgin, NEW t \in Task, Save(t) PROVE Kept' /\ Learns
<1> DEFINE r == task[t]
           a == [r EXCEPT !.at = "merge"]
<1>1. r.at \notin Waiting /\ r.at \notin {"load", "lock"}
  BY DEF Save, IsAt, Waiting
<1>2. Grown /\ history' = history /\ UNCHANGED <<runtime, fresh, setup, paired>>
  BY UnchangedGrown DEF Save, entry
<1>3. Has(history', devices')
  BY <1>2, FilesKept DEF Save, Write, Store
<1>4. a.op = r.op /\ a.copy = r.copy /\ a.at = "merge"
  BY <1>1, AtKnown DEF Tasks
<1>5. KnownRecord(history', a)
  <2> HIDE DEF a
  <2> QED BY <1>1, <1>2, <1>4, AtKnown, PlainKnown DEF Plain
<1>6. KnownRecord(history', Reloading(r)) /\ KnownRecord(history', Ended)
  BY <1>1, AtKnown, ReloadingKnown, EndedKnown
<1>7. Become(t, a) \/ Become(t, Reloading(r)) \/ Become(t, Ended)
  BY DEF Save
<1> HIDE DEF a
<1> QED BY <1>2, <1>3, <1>5, <1>6, <1>7, TaskStep DEF Learns

LEMMA StorageFailsKept ==
  ASSUME Types, Types', Kept, ~Virgin, NEW t \in Task, StorageFails(t)
  PROVE  Kept' /\ Learns
<1> DEFINE r == task[t]
           a == [r EXCEPT !.tries = @ + 1, !.at = "load"]
<1>1. r \in Tasks
  BY DEF Types, TaskTypes
<1>2. Grown
  BY UnchangedGrown DEF StorageFails, files
<1>3. CASE Become(t, a) /\ r.op = "persist"
  <2>1. a.op = r.op /\ a.at = "load" /\ a.copy = r.copy
    BY <1>1 DEF Tasks
  <2>2. Plain(a)
    <3> HIDE DEF a
    <3> QED BY <1>3, <2>1 DEF Plain
  <2>3. UNCHANGED <<devices, entry, ghost>>
    BY DEF StorageFails, files
  <2> HIDE DEF a
  <2> QED BY <1>2, <1>3, <2>1, <2>2, <2>3, PlainStep
<1>4. CASE Become(t, Ended)
  BY <1>2, <1>4, EndingStep DEF StorageFails, files
<1> QED BY <1>3, <1>4 DEF StorageFails

LEMMA StorageKept ==
  ASSUME Types, Types', Kept, NEW t \in Task, Storage(t) PROVE Kept' /\ Learns
<1>0. ~Virgin
  BY VirginIdle
<1>1. CASE TakeRoute(t)
  <2> DEFINE r == [task[t] EXCEPT !.live = TRUE, !.holds = TRUE, !.at = "route"]
  <2>1. task[t].at \notin Waiting /\ task[t].at \notin {"load", "lock"}
    BY <1>1 DEF TakeRoute, IsAt, Waiting
  <2>2. r.op = task[t].op /\ r.copy = task[t].copy /\ r.at = "route"
    BY <2>1, AtKnown DEF Tasks
  <2>3. Plain(r)
    <3> HIDE DEF r
    <3> QED BY <2>1, <2>2, AtKnown DEF Plain
  <2>4. Grown
    BY <1>1, UnchangedGrown DEF TakeRoute, files
  <2> HIDE DEF r
  <2> QED BY <1>0, <1>1, <2>2, <2>3, <2>4, PlainStep DEF TakeRoute, files, r
<1>2. CASE UpdateRoute(t)
  <2> DEFINE r == [task[t] EXCEPT !.at = "save"]
  <2>1. task[t].at \notin Waiting /\ task[t].at \notin {"load", "lock"}
    BY <1>2 DEF UpdateRoute, IsAt, Waiting
  <2>2. r.op = task[t].op /\ r.copy = task[t].copy /\ r.at = "save"
    BY <2>1, AtKnown DEF Tasks
  <2>3. Plain(r)
    <3> HIDE DEF r
    <3> QED BY <2>1, <2>2, AtKnown DEF Plain
  <2>4. Grown
    <3>1. Store(t)[task[t].mac] \in Record
      BY <2>1, AtKnown, StoreTypes
    <3> QED BY <1>2, <2>1, <3>1, AtKnown, UnchangedGrown, RememberGrown DEF UpdateRoute
  <2>5. Become(t, Ended) \/ Become(t, r)
    BY <1>2 DEF UpdateRoute, Go
  <2> HIDE DEF r
  <2> QED BY <1>0, <1>2, <2>2, <2>3, <2>4, <2>5, PlainStep, EndingStep DEF UpdateRoute
<1>3. CASE Reload(t)
  <2> DEFINE r == [task[t] EXCEPT !.at = "reloading"]
  <2>1. task[t].at \notin Waiting /\ task[t].at \notin {"load", "lock"}
    BY <1>3 DEF Reload, IsAt, Waiting
  <2>2. r.op = task[t].op /\ r.copy = task[t].copy /\ r.at = "reloading"
    BY <2>1, AtKnown DEF Tasks
  <2>3. /\ Grown /\ history' = history /\ setup' = "reading"
        /\ UNCHANGED <<devices, runtime, fresh, paired>>
    BY <1>3, UnchangedGrown DEF Reload, files, ghost
  <2>4. KnownRecord(history', r)
    <3> HIDE DEF r
    <3> QED BY <2>1, <2>2, <2>3, AtKnown, PlainKnown DEF Plain
  <2>5. Has(history', devices')
    BY <1>0, <2>3, FilesKept
  <2>6. Become(t, r)
    BY <1>3 DEF Reload, Go
  <2> HIDE DEF r
  <2> QED BY <1>0, <2>3, <2>4, <2>5, <2>6, TaskStep DEF Learns
<1>4. CASE Reloaded(t)
  BY <1>0, <1>4, UnchangedGrown, EndingStep DEF Reloaded, files
<1> QED BY <1>0, <1>1, <1>2, <1>3, <1>4, LoadKept, EnrolKept, SaveKept, StorageFailsKept
        DEF Storage
(***************************************************************************)
(* Every step                                                              *)
(***************************************************************************)
\* Besides learning, the integration takes up or drops keys, or pairs.
Uses == UNCHANGED <<history, paired>>

Pairs == /\ UNCHANGED <<history, runtime>>
         /\ \E m \in Mac : \E k \in Range(history[m]) :
              paired' = [paired EXCEPT ![m] = @ \union {k}]

LEMMA FlowKept ==
  ASSUME Types, Types', Kept, NEW t \in Task, Flow(t)
  PROVE  Kept' /\ (Learns \/ Uses \/ Pairs)
<1>0. ~Virgin
  BY VirginIdle
<1>1. CASE PairLock(t)
  BY <1>0, <1>1, PairLockKept DEF Uses, Pairs
<1>2. CASE ~PairLock(t)
  BY <1>0, <1>2, ChooseKept, SaveSeedKept, CheckBindingKept, ReseedKept,
     CandidatesKept, TakeLockKept, SuspendKept DEF Flow
<1> QED BY <1>1, <1>2

LEMMA TasksKept ==
  ASSUME Types, Types', Kept, Grown, UNCHANGED task PROVE KnownTasks'
<1>1. ASSUME NEW t \in Task PROVE KnownRecord(history', task[t])
  <2>1. KnownRecord(history, task[t])
    BY DEF Kept, KnownTasks
  <2>2. task[t].op = "confirm" \/ task[t].at \in {"suspend", "pair"} => task[t].mac \in Mac
    BY <2>1 DEF Types, TaskTypes, Placed, Waiting, KnownRecord
  <2> QED BY <2>1, <2>2, GrownKeeps
<1> QED BY <1>1 DEF KnownTasks

LEMMA SetupEndsKept ==
  ASSUME Types, Types', Kept, SetupEnds PROVE Kept' /\ Uses
<1> DEFINE New(t) == [task[t] EXCEPT !.holds = FALSE, !.live = FALSE,
                        !.copy = IF task[t].live THEN runtime ELSE task[t].copy]
<1>1. Has(history, fresh) /\ Has(history, devices) /\ Has(history, runtime)
  BY DEF SetupEnds, Kept, Virgin, KnownFiles, KnownInUse
<1>2. ASSUME NEW t \in Task PROVE KnownRecord(history, New(t))
  <2>1. task[t] \in Tasks /\ KnownRecord(history, task[t])
    BY DEF Types, TaskTypes, Kept, KnownTasks
  <2>2. /\ New(t).op = task[t].op /\ New(t).at = task[t].at
        /\ New(t).seed = task[t].seed /\ New(t).mac = task[t].mac
        /\ New(t).copy = IF task[t].live THEN runtime ELSE task[t].copy
    BY <2>1 DEF Tasks
  <2> HIDE DEF New
  <2> QED BY <1>1, <2>1, <2>2 DEF KnownRecord
<1>3. task' = [t \in Task |-> New(t)] /\ UNCHANGED <<history, devices, paired>>
  BY DEF SetupEnds, files, ghost
<1>4. KnownTasks'
  <2> HIDE DEF New
  <2> QED BY <1>2, <1>3 DEF KnownTasks
<1>5. KnownInUse' /\ KnownPairs' /\ KnownFiles'
  BY <1>1, <1>3 DEF SetupEnds, Kept, KnownInUse, KnownPairs, KnownFiles
<1> QED BY <1>3, <1>4, <1>5 DEF Kept, Uses

LEMMA RemoveDeviceKept ==
  ASSUME Types, Types', Kept, NEW m \in Mac, RemoveDevice(m) PROVE Kept' /\ Uses
<1>1. Has(history, devices) /\ Has(history, runtime) /\ setup = "up"
  BY DEF RemoveDevice, Kept, Virgin, KnownFiles, KnownInUse
<1>2. Has(history, runtime')
  BY <1>1 DEF RemoveDevice, Types, EntryTypes, Has
<1>3. UNCHANGED <<history, paired, setup, fresh, task>>
  BY DEF RemoveDevice
<1>4. Has(history, devices')
  BY <1>1, <1>2 DEF RemoveDevice, Write
<1>5. KnownTasks'
  BY <1>3, UnchangedGrown, TasksKept
<1> QED BY <1>1, <1>2, <1>3, <1>4, <1>5
        DEF Kept, KnownInUse, KnownPairs, KnownFiles, Uses

LEMMA EntryKept ==
  ASSUME Types, Types', Kept, Entry PROVE Kept' /\ (Learns \/ Uses)
<1>1. CASE SetupReads
  <2>1. UNCHANGED <<history, devices, runtime, task, paired>>
    BY <1>1 DEF SetupReads, files, ghost
  <2>2. KnownTasks'
    BY <2>1, UnchangedGrown, TasksKept
  <2>3. Virgin => Virgin'
    BY <1>1, <2>1 DEF SetupReads, Virgin
  <2>4. KnownFiles => KnownFiles'
    BY <1>1, <2>1 DEF SetupReads, KnownFiles
  <2> QED BY <2>1, <2>2, <2>3, <2>4 DEF Kept, KnownInUse, KnownPairs, Uses
<1>2. CASE SetupNotes
  <2>1. Grown /\ ((\A m \in Mac : history[m] = <<>>) => Has(history', fresh))
    BY <1>2, RememberMissingGrown DEF SetupNotes, Types, EntryTypes
  <2>2. UNCHANGED <<devices, runtime, fresh, task, paired>> /\ setup = "noting"
    BY <1>2 DEF SetupNotes, ghost
  <2>3. KnownTasks'
    BY <2>1, <2>2, TasksKept
  <2>4. KnownFiles'
    BY <2>1, <2>2, GrownKeeps DEF Kept, Virgin, KnownFiles
  <2>5. KnownInUse' /\ KnownPairs'
    BY <2>1, <2>2, GrownKeeps DEF Kept, KnownInUse, KnownPairs
  <2> QED BY <2>1, <2>2, <2>3, <2>4, <2>5 DEF Kept, Learns
<1>3. CASE SetupEnds
  BY <1>3, SetupEndsKept
<1>4. CASE SetupFails
  <2>1. UNCHANGED <<history, devices, runtime, task, paired>>
    BY <1>4 DEF SetupFails, files, ghost
  <2>2. KnownTasks'
    BY <2>1, UnchangedGrown, TasksKept
  <2>3. Virgin => Virgin'
    BY <1>4, <2>1 DEF SetupFails, Virgin
  <2>4. KnownFiles => KnownFiles'
    BY <1>4, <2>1 DEF SetupFails, KnownFiles
  <2> QED BY <2>1, <2>2, <2>3, <2>4 DEF Kept, KnownInUse, KnownPairs, Uses
<1>5. ASSUME NEW m \in Mac, RemoveDevice(m) PROVE Kept' /\ Uses
  BY <1>5, RemoveDeviceKept
<1> QED BY <1>1, <1>2, <1>3, <1>4, <1>5 DEF Entry

LEMMA WorldKept ==
  ASSUME Types, Types', Kept, World PROVE Kept' /\ Uses
<1>1. CASE Crash
  <2>1. UNCHANGED <<history, devices, paired>>
    BY <1>1 DEF Crash, files, ghost
  <2>2. KnownTasks'
    <3>1. ASSUME NEW t \in Task PROVE KnownRecord(history, task'[t])
      BY <1>1, EndedKnown DEF Crash, Kept, KnownTasks
    <3> QED BY <2>1, <3>1 DEF KnownTasks
  <2>3. KnownInUse' /\ KnownPairs'
    BY <1>1, <2>1 DEF Crash, Kept, KnownPairs, KnownInUse, Has, Nothing
  <2>4. Virgin => Virgin'
    BY <1>1, <2>1 DEF Crash, Virgin, IsAt
  <2>5. KnownFiles => KnownFiles'
    BY <1>1, <2>1 DEF Crash, KnownFiles
  <2> QED BY <2>1, <2>2, <2>3, <2>4, <2>5 DEF Kept, Uses
<1>2. ASSUME NEW m \in Mac, AppPairs(m) \/ ResetLock(m) PROVE Kept' /\ Uses
  <2>1. UNCHANGED <<files, entry, task, ghost>>
    BY <1>2 DEF AppPairs, ResetLock
  <2> QED BY <2>1 DEF Kept, KnownInUse, KnownPairs, KnownFiles, KnownTasks, Virgin, Uses,
                      files, entry, ghost
<1> QED BY <1>1, <1>2 DEF World

LEMMA InitKept == Init => Kept
<1> SUFFICES ASSUME Init PROVE Kept
  OBVIOUS
<1>1. KnownInUse /\ KnownPairs
  BY DEF Init, KnownInUse, KnownPairs, Has, Nothing
<1>2. KnownTasks
  BY DEF Init, KnownTasks, KnownRecord, At, Has, Nothing
<1>3. CASE setup = "none"
  BY <1>1, <1>2, <1>3 DEF Init, Kept, KnownFiles, Has, Nothing
<1>4. CASE setup = "off"
  <2>1. Virgin
    BY <1>4 DEF Init, Virgin, At
  <2> QED BY <1>1, <1>2, <2>1 DEF Kept
<1> QED BY <1>3, <1>4 DEF Init

LEMMA NextKept ==
  ASSUME Types, Types', Kept, [Next]_vars
  PROVE  Kept' /\ (Learns \/ Uses \/ Pairs)
<1>1. CASE UNCHANGED vars
  BY <1>1 DEF vars, Kept, KnownInUse, KnownPairs, KnownFiles, KnownTasks, Virgin, Uses
<1>2. ASSUME NEW t \in Task, Starts(t) \/ Cloud(t) \/ Flow(t) \/ Storage(t)
      PROVE  Kept' /\ (Learns \/ Uses \/ Pairs)
  BY <1>2, StartsKept, CloudKept, FlowKept, StorageKept
<1>3. CASE Entry
  BY <1>3, EntryKept
<1>4. CASE World
  BY <1>4, WorldKept
<1>5. CASE Over
  BY <1>1, <1>5 DEF Over
<1> QED BY <1>1, <1>2, <1>3, <1>4, <1>5 DEF Next

(***************************************************************************)
(* The ledger: DeviceKeys implements KeyLedger                             *)
(***************************************************************************)
LEMMA LedgerOperators ==
  /\ \A f : Ledger!Range(f) = Range(f)
  /\ \A s, t : Ledger!IsPrefix(s, t) <=> IsPrefix(s, t)
BY DEF Ledger!Range, Range, Ledger!IsPrefix, IsPrefix

LEMMA StepsOfTheLedger ==
  ASSUME Types, Types', Kept, [Next]_vars
  PROVE  [Ledger!Next]_(Ledger!ledger)
<1>1. Kept' /\ (Learns \/ Uses \/ Pairs)
  BY NextKept
<1>2. CASE Learns
  <2>1. history' \in [Mac -> Seq(Record)]
    BY DEF Types, FileTypes
  <2>2. \A m \in Mac : IsPrefix(history[m], history'[m])
    BY <1>2, ExtendsPrefix DEF Learns, Grown, Types, FileTypes
  <2>3. Ledger!Learn
    BY <1>2, <2>1, <2>2, LedgerOperators DEF Ledger!Learn, Learns
  <2> QED BY <2>3 DEF Ledger!Next
<1>3. CASE Uses
  <2>1. \A m \in Mac : runtime'[m] \in Range(history[m]) \union {NoKeys}
    BY <1>1, <1>3 DEF Kept, KnownInUse, Has, Uses
  <2>2. runtime' \in [Mac -> Record \union {NoKeys}]
    BY DEF Types, EntryTypes
  <2>3. Ledger!Use
    BY <1>3, <2>1, <2>2, LedgerOperators DEF Ledger!Use, Ledger!Known, Uses
  <2> QED BY <2>3 DEF Ledger!Next
<1>4. CASE Pairs
  <2>1. PICK m \in Mac : \E k \in Range(history[m]) :
               paired' = [paired EXCEPT ![m] = @ \union {k}]
    BY <1>4 DEF Pairs
  <2>2. Ledger!Pair(m)
    BY <1>4, <2>1, LedgerOperators DEF Ledger!Pair, Ledger!Known, Pairs
  <2> QED BY <2>2 DEF Ledger!Next
<1> QED BY <1>1, <1>2, <1>3, <1>4

(* The files, flows and services of the integration keep the ledger: no     *)
(* lock is paired with keys, and none are in use, that the history does not *)
(* have, and the history only grows (device_store.py:86-93, 103-122), for   *)
(* any crashes, resets, refreshes and removals between their steps.         *)
THEOREM KeepsTheLedger == Spec => LedgerKept
<1>1. Init => Ledger!Init
  BY DEF Init, Ledger!Init, Nothing
<1>2. Spec => [](Types /\ Kept)
  <2>1. Init => Types /\ Kept
    BY InitTypes, InitKept
  <2>2. Types /\ Kept /\ [Next]_vars => (Types /\ Kept)'
    BY NextTypes, NextKept
  <2> QED BY <2>1, <2>2, PTL DEF Spec
<1>3. Types /\ Types' /\ Kept /\ [Next]_vars => [Ledger!Next]_(Ledger!ledger)
  BY StepsOfTheLedger
<1> QED BY <1>1, <1>2, <1>3, PTL DEF Spec, LedgerKept, Ledger!Spec

(* What the ledger is for: in every behaviour of it the keys that a lock    *)
(* was paired with and those in use are in the history.                     *)
THEOREM LedgerSafe == Ledger!Spec => []Ledger!NothingLost
<1>1. Ledger!Init => Ledger!NothingLost
  BY DEF Ledger!Init, Ledger!NothingLost, Ledger!Known
<1> DEFINE I == /\ Ledger!NothingLost
                /\ history \in [Mac -> Seq(Record)]
                /\ paired \in [Mac -> SUBSET Record]
<1>2. Ledger!Init => I
  BY <1>1 DEF Ledger!Init
<1>3. I /\ [Ledger!Next]_(Ledger!ledger) => I'
  <2> SUFFICES ASSUME I, [Ledger!Next]_(Ledger!ledger) PROVE I'
    OBVIOUS
  <2>1. CASE Ledger!Learn
    <3>1. ASSUME NEW m \in Mac PROVE Range(history[m]) \subseteq Range(history'[m])
      BY <2>1, PrefixRange, LedgerOperators DEF Ledger!Learn
    <3> QED BY <2>1, <3>1, LedgerOperators DEF Ledger!Learn, Ledger!NothingLost, Ledger!Known
  <2>2. CASE Ledger!Use
    BY <2>2 DEF Ledger!Use, Ledger!NothingLost, Ledger!Known
  <2>3. ASSUME NEW m \in Mac, Ledger!Pair(m) PROVE I'
    <3>1. PICK k \in Range(history[m]) :
            /\ paired' = [paired EXCEPT ![m] = @ \union {k}]
            /\ UNCHANGED <<history, runtime>>
      BY <2>3, LedgerOperators DEF Ledger!Pair, Ledger!Known
    <3>2. k \in Record
      BY DEF Range
    <3> QED BY <3>1, <3>2, LedgerOperators DEF Ledger!NothingLost, Ledger!Known
  <2>4. CASE UNCHANGED Ledger!ledger
    BY <2>4 DEF Ledger!ledger, Ledger!NothingLost, Ledger!Known
  <2> QED BY <2>1, <2>2, <2>3, <2>4 DEF Ledger!Next
<1>4. I => Ledger!NothingLost
  OBVIOUS
<1> HIDE DEF I
<1> QED BY <1>2, <1>3, <1>4, PTL DEF Ledger!Spec

(* So no keys that a lock was paired with, or that are in use, are ever     *)
(* lost by this code.                                                       *)
THEOREM KeysAreNeverLost == Spec => []Ledger!NothingLost
BY KeepsTheLedger, LedgerSafe, PTL DEF LedgerKept

(***************************************************************************)
(* Writers of the file. Who has what in its copy, between load and save;   *)
(* and what a task that has saved will find after the reload.              *)
(***************************************************************************)
FromCloud == {"refresh", "refreshAll"}

\* What a task does in a place, and what it has in its hands there.
Duty(r) ==
  /\ r.at \in {"ask", "keep", "merge"} \/ r.todo # {} => r.op \in FromCloud
  /\ r.live \/ r.at \in {"wait", "route"} => r.op = "route"
  /\ r.at \in {"choose", "saveSeed", "check", "latest", "candidates", "lock"}
       => r.op \in {"add", "activate", "confirm"}
  /\ r.at \in {"suspend", "pair"} => r.op = "persist"
  /\ r.op = "persist" => r.at \in {"suspend", "pair", "load", "enrol", "save",
                                   "reload", "reloading"}
  /\ r.op = "add" /\ r.at = "save" => r.copy[r.mac] = r.seed
  /\ r.at \in Waiting => r.todo = {} /\ ~r.live

\* The lock has accepted the keys that an addition goes on with.
Checked(r, acc) ==
  r.op = "add" /\ r.at \in {"load", "latest", "enrol", "save"} => r.seed \in acc[r.mac]

\* An activation between load and save; what others have activated is in its
\* copy as it is in the file.
Saver(r) == r.op = "persist" /\ r.at \in {"enrol", "save"}
Keeps(r) == \A m \in Mac \ {r.mac} : writer[m][2] = "persist" => r.copy[m] = devices[m]

\* From its first reading on, a set-up knows what the task has written last.
Taken(t) == \A m \in Mac : writer[m] = <<t, task[t].op>> =>
              /\ setup \in {"noting", "wiring"} => fresh[m] = devices[m]
              /\ setup = "up" => runtime[m] = devices[m]

TaskSafe(t) == /\ Duty(task[t]) /\ Checked(task[t], accepted)
               /\ Saver(task[t]) => Keeps(task[t])
               /\ IsAt(t, "reloading") => Taken(t)
OneSaver == \A s, t \in Task : Saver(task[s]) /\ Saver(task[t]) => s = t

SafeInv == (\A t \in Task : TaskSafe(t)) /\ OneSaver

\* A step of one task that leaves alone what others rely on.
LEMMA QuietStep ==
  ASSUME Types, SafeInv, NEW t \in Task, NEW r, Become(t, r),
         Duty(r), Checked(r, accepted'), r.at # "reloading",
         Saver(r) => Keeps(r) /\ (Saver(task[t]) \/ ~Persisting),
         UNCHANGED <<devices, entry, writer>>,
         \A m \in Mac : accepted[m] \subseteq accepted'[m]
  PROVE  SafeInv'
<1>1. /\ task'[t] = r /\ \A s \in Task \ {t} : task'[s] = task[s]
  BY DEF Become, Types, TaskTypes
<1>2. UNCHANGED <<devices, runtime, setup, fresh, writer>>
  BY DEF entry
<1>3. ASSUME NEW s \in Task \ {t} PROVE TaskSafe(s)'
  <2>1. TaskSafe(s) /\ task'[s] = task[s] /\ (task[s].at \notin Waiting => task[s].mac \in Mac)
    BY <1>1 DEF SafeInv, Types, TaskTypes, Placed
  <2>2. Checked(task[s], accepted)'
    BY <2>1 DEF TaskSafe, Checked, Waiting
  <2>3. Saver(task[s])' => Keeps(task[s])'
    BY <1>2, <2>1 DEF TaskSafe, Saver, Keeps
  <2>4. IsAt(s, "reloading")' => Taken(s)'
    BY <1>2, <2>1 DEF TaskSafe, IsAt, Taken
  <2> QED BY <2>1, <2>2, <2>3, <2>4 DEF TaskSafe, Duty
<1>4. TaskSafe(t)'
  <2>1. Saver(task[t])' => Keeps(task[t])'
    BY <1>1, <1>2 DEF Saver, Keeps
  <2> QED BY <1>1, <2>1 DEF TaskSafe, Duty, Checked, IsAt
<1>5. OneSaver'
  <2>1. \A s \in Task : Saver(task[s])' => IF s = t THEN Saver(r) ELSE Saver(task[s])
    BY <1>1 DEF Saver
  <2>2. ~Persisting => \A s \in Task : ~Saver(task[s])
    BY DEF Persisting, Saver
  <2> QED BY <2>1, <2>2 DEF SafeInv, OneSaver
<1> QED BY <1>3, <1>4, <1>5 DEF SafeInv

\* A step of one task that only moves on with something else than saving.
Aside(t) ==
  \E r : /\ Become(t, r) /\ Duty(r) /\ Checked(r, accepted')
         /\ r.at # "reloading" /\ ~Saver(r)
Elsewhere == UNCHANGED <<devices, entry, writer>>

LEMMA AsideStep ==
  ASSUME Types, SafeInv, NEW t \in Task, Aside(t), Elsewhere,
         \A m \in Mac : accepted[m] \subseteq accepted'[m]
  PROVE  SafeInv'
BY QuietStep DEF Aside, Elsewhere

LEMMA EndedAside ==
  /\ Duty(Ended) /\ \A acc : Checked(Ended, acc)
  /\ Ended.at # "reloading" /\ ~Saver(Ended)
BY DEF Ended, At, Duty, Checked, Saver, Waiting

LEMMA ReloadingAside ==
  ASSUME NEW r \in Tasks
  PROVE  /\ Duty(Reloading(r)) /\ \A acc : Checked(Reloading(r), acc)
         /\ Reloading(r).at # "reloading" /\ ~Saver(Reloading(r))
<1>1. /\ Reloading(r).op = r.op /\ Reloading(r).at = "reload"
      /\ Reloading(r).todo = {} /\ ~Reloading(r).live
  BY DEF Reloading, At
<1> QED BY <1>1 DEF Duty, Checked, Saver, Waiting

\* What is known of a task under way.
LEMMA Known ==
  ASSUME Types, SafeInv, NEW t \in Task
  PROVE  /\ task[t] \in Tasks /\ Duty(task[t]) /\ Checked(task[t], accepted)
         /\ task[t].at \notin Waiting => task[t].mac \in Mac
BY DEF Types, TaskTypes, Placed, SafeInv, TaskSafe

LEMMA StartsAside ==
  ASSUME Types, SafeInv, NEW t \in Task, Starts(t) PROVE Aside(t) /\ Elsewhere
<1> PICK m \in Mac : \/ PressRefresh(t, m) \/ Reconfigure(t, m) \/ SyncCloud(t, m)
                     \/ SelectSaved(t, m) \/ Discovered(t, m)
                     \/ SelectRoute(t, m) \/ ImportLocal(t, m)
  BY DEF Starts
<1>0. /\ task[t] \in Tasks /\ task[t].at = "idle" /\ task[t].todo = {} /\ ~task[t].live
      /\ Elsewhere
  BY Known DEF PressRefresh, Reconfigure, SyncCloud, SelectSaved, Discovered, SelectRoute,
               ImportLocal, Begin, IsAt, Duty, Waiting, Elsewhere, files, ghost
<1>1. PICK o, p, k :
        /\ Become(t, [task[t] EXCEPT !.op = o, !.mac = m, !.at = p, !.seed = k])
        /\ <<o, p>> \in {<<"refresh", "load">>, <<"refreshAll", "load">>, <<"sync", "list">>,
                         <<"add", "choose">>, <<"add", "list">>, <<"activate", "load">>,
                         <<"route", "wait">>, <<"import", "load">>}
  <2>1. CASE ImportLocal(t, m)
    <3>1. PICK g \in 1..MaxGen :
            Become(t, [task[t] EXCEPT !.op = "import", !.mac = m, !.at = "load",
                                      !.seed = Generation(g)])
      BY <2>1 DEF ImportLocal
    <3> QED BY <3>1
  <2>2. CASE ~ImportLocal(t, m)
    <3>1. PICK o, p :
            /\ Become(t, [task[t] EXCEPT !.op = o, !.mac = m, !.at = p])
            /\ <<o, p>> \in {<<"refresh", "load">>, <<"refreshAll", "load">>, <<"sync", "list">>,
                             <<"add", "choose">>, <<"add", "list">>, <<"activate", "load">>,
                             <<"route", "wait">>}
      BY <2>2 DEF PressRefresh, Reconfigure, SyncCloud, SelectSaved, Discovered,
                  SelectRoute, Begin
    <3>2. [task[t] EXCEPT !.op = o, !.mac = m, !.at = p]
            = [task[t] EXCEPT !.op = o, !.mac = m, !.at = p, !.seed = task[t].seed]
      BY <1>0 DEF Tasks
    <3> QED BY <3>1, <3>2
  <2> QED BY <2>1, <2>2
<1> DEFINE r == [task[t] EXCEPT !.op = o, !.mac = m, !.at = p, !.seed = k]
<1>2. r.op = o /\ r.at = p /\ r.todo = {} /\ ~r.live
  BY <1>0 DEF Tasks
<1> HIDE DEF r
<1>3. /\ Duty(r) /\ Checked(r, accepted') /\ r.at # "reloading" /\ ~Saver(r)
  BY <1>1, <1>2 DEF Duty, Checked, Saver, Waiting, FromCloud
<1> QED BY <1>0, <1>1, <1>3 DEF Aside, r

LEMMA CloudAside ==
  ASSUME Types, SafeInv, NEW t \in Task,
         AskCloud(t) \/ Keep(t) \/ FetchFails(t) \/ ListAccount(t)
  PROVE  Aside(t) /\ Elsewhere
<1>0. /\ task[t] \in Tasks /\ Duty(task[t]) /\ accepted' = accepted /\ Elsewhere
  BY Known DEF AskCloud, Keep, FetchFails, ListAccount, Elsewhere, files, ghost
<1>1. CASE AskCloud(t)
  <2> DEFINE m == task[t].mac
  <2>1. PICK k : Become(t, [task[t] EXCEPT !.got[m] = k, !.todo = {m},
                                           !.at = IF k = NoKeys THEN "merge" ELSE "keep"])
    BY <1>1 DEF AskCloud
  <2> DEFINE r == [task[t] EXCEPT !.got[m] = k, !.todo = {m},
                                  !.at = IF k = NoKeys THEN "merge" ELSE "keep"]
  <2>2. /\ r.op = task[t].op /\ r.at \in {"merge", "keep"} /\ r.live = task[t].live
        /\ task[t].at = "ask"
    BY <1>0, <1>1 DEF Tasks, AskCloud, IsAt
  <2> HIDE DEF r
  <2>3. Duty(r) /\ Checked(r, accepted') /\ r.at # "reloading" /\ ~Saver(r)
    BY <1>0, <2>2 DEF Duty, Checked, Saver, Waiting, FromCloud
  <2> QED BY <1>0, <2>1, <2>3 DEF Aside, r
<1>2. CASE Keep(t)
  <2> DEFINE r == [task[t] EXCEPT !.at = "merge"]
  <2>1. /\ r.op = task[t].op /\ r.at = "merge" /\ r.live = task[t].live
        /\ task[t].at = "keep" /\ Become(t, r)
    BY <1>0, <1>2 DEF Tasks, Keep, IsAt, Go
  <2> HIDE DEF r
  <2>2. Duty(r) /\ Checked(r, accepted') /\ r.at # "reloading" /\ ~Saver(r)
    BY <1>0, <2>1 DEF Duty, Checked, Saver, Waiting, FromCloud
  <2> QED BY <1>0, <2>1, <2>2 DEF Aside
<1>3. CASE FetchFails(t)
  BY <1>0, <1>3, ReloadingAside DEF FetchFails, Aside
<1>4. CASE ListAccount(t)
  <2>1. CASE Become(t, Ended)
    BY <1>0, <2>1, EndedAside DEF Aside
  <2>2. CASE ~Become(t, Ended)
    <3> DEFINE r == [task[t] EXCEPT
          !.got = [m \in Mac |-> [local |-> cloud[m], verify |-> 0]],
          !.at = "keys"]
    <3>1. /\ r.op = task[t].op /\ r.at = "keys" /\ r.live = task[t].live
          /\ r.todo = task[t].todo /\ task[t].at = "list" /\ Become(t, r)
      BY <1>0, <1>4, <2>2 DEF Tasks, ListAccount, IsAt
    <3> HIDE DEF r
    <3>2. Duty(r) /\ Checked(r, accepted') /\ r.at # "reloading" /\ ~Saver(r)
      BY <1>0, <3>1 DEF Duty, Checked, Saver, Waiting, FromCloud
    <3> QED BY <1>0, <3>1, <3>2 DEF Aside
  <2> QED BY <2>1, <2>2
<1> QED BY <1>1, <1>2, <1>3, <1>4

LEMMA ImportedAside ==
  ASSUME NEW r \in Tasks, Duty(r), r.at = "keys"
  PROVE  /\ Duty(Imported(r)) /\ \A acc : Checked(Imported(r), acc)
         /\ Imported(r).at # "reloading" /\ ~Saver(Imported(r))
<1> DEFINE told == {m \in Mac : r.copy[m] # NoKeys /\ r.got[m] # NoKeys}
<1>1. CASE r.op = "add"
  <2> DEFINE q == [r EXCEPT !.got = Nothing, !.at = "choose"]
  <2>1. /\ q.op = r.op /\ q.at = "choose" /\ q.live = r.live /\ q.todo = r.todo
        /\ Imported(r) = q
    BY <1>1 DEF Tasks, Imported
  <2> HIDE DEF q
  <2> QED BY <1>1, <2>1 DEF Duty, Checked, Saver, Waiting, FromCloud
<1>2. CASE r.op = "refreshAll" /\ told # {}
  <2> DEFINE q == [r EXCEPT !.todo = told, !.at = "merge"]
  <2>1. /\ q.op = r.op /\ q.at = "merge" /\ q.live = r.live
        /\ Imported(r) = q
    BY <1>2 DEF Tasks, Imported
  <2> HIDE DEF q
  <2> QED BY <1>2, <2>1 DEF Duty, Checked, Saver, Waiting, FromCloud
<1>3. CASE r.op = "refreshAll" /\ told = {}
  BY <1>3, ReloadingAside DEF Imported
<1>4. CASE r.op = "activate" /\ Complete(r.got[r.mac])
  <2> DEFINE q == [r EXCEPT !.seed = r.got[r.mac], !.at = "saveSeed"]
  <2>1. /\ q.op = r.op /\ q.at = "saveSeed" /\ q.live = r.live /\ q.todo = r.todo
        /\ Imported(r) = q
    BY <1>4 DEF Tasks, Imported
  <2> HIDE DEF q
  <2> QED BY <1>4, <2>1 DEF Duty, Checked, Saver, Waiting, FromCloud
<1>5. CASE /\ r.op \notin {"add", "refreshAll"}
           /\ ~(r.op = "activate" /\ Complete(r.got[r.mac]))
  BY <1>5, EndedAside DEF Imported
<1> QED BY <1>1, <1>2, <1>3, <1>4, <1>5

LEMMA ImportAccountAside ==
  ASSUME Types, SafeInv, NEW t \in Task, ImportAccount(t)
  PROVE  Aside(t) /\ Elsewhere
<1>0. /\ task[t] \in Tasks /\ Duty(task[t]) /\ task[t].at = "keys"
      /\ accepted' = accepted /\ Elsewhere
  BY Known DEF ImportAccount, IsAt, Elsewhere, ghost
<1>1. PICK answer \in [Mac -> {"all", "partial", "error"}] :
        Become(t, Imported([task[t] EXCEPT !.got =
          [m \in Mac |-> CASE answer[m] = "all"     -> Generation(cloud[m])
                           [] answer[m] = "partial" -> task[t].got[m]
                           [] answer[m] = "error"   -> NoKeys]]))
  BY DEF ImportAccount
<1> DEFINE got == [m \in Mac |-> CASE answer[m] = "all"     -> Generation(cloud[m])
                                   [] answer[m] = "partial" -> task[t].got[m]
                                   [] answer[m] = "error"   -> NoKeys]
<1>2. got \in [Mac -> Record]
  <2>1. ASSUME NEW m \in Mac PROVE got[m] \in Record
    <3>1. Generation(cloud[m]) \in Record /\ task[t].got[m] \in Record /\ NoKeys \in Record
      BY <1>0, RecordTypes DEF Types, WorldTypes, Tasks
    <3> QED BY <3>1
  <2> QED BY <2>1
<1> HIDE DEF got
<1> DEFINE r == [task[t] EXCEPT !.got = got]
<1>3. r \in Tasks /\ r.at = "keys" /\ r.op = task[t].op /\ r.todo = task[t].todo
      /\ r.live = task[t].live
  BY <1>0, <1>2 DEF Tasks
<1>4. Become(t, Imported(r))
  BY <1>1 DEF got
<1> HIDE DEF r
<1>5. Duty(r)
  BY <1>0, <1>3 DEF Duty, Waiting
<1> QED BY <1>0, <1>3, <1>4, <1>5, ImportedAside DEF Aside

LEMMA MergeAside ==
  ASSUME Types, SafeInv, NEW t \in Task, NEW m \in Mac, Merge(t, m)
  PROVE  Aside(t) /\ Elsewhere
<1>0. /\ task[t] \in Tasks /\ Duty(task[t]) /\ task[t].at = "merge"
      /\ accepted' = accepted /\ Elsewhere
  BY Known DEF Merge, IsAt, Elsewhere, ghost
<1> DEFINE r == [task[t] EXCEPT !.copy[m] = Merged(task[t].got[m], task[t].copy[m]),
                                !.todo = @ \ {m}, !.at = "save"]
<1>1. /\ r.op = task[t].op /\ r.at = "save" /\ r.live = task[t].live /\ Become(t, r)
  BY <1>0 DEF Tasks, Merge
<1> HIDE DEF r
<1>2. Duty(r) /\ Checked(r, accepted') /\ r.at # "reloading" /\ ~Saver(r)
  BY <1>0, <1>1 DEF Duty, Checked, Saver, Waiting, FromCloud
<1> QED BY <1>0, <1>1, <1>2 DEF Aside

LEMMA ConfirmingAside ==
  ASSUME NEW r \in Tasks, Duty(r), r.todo = {}, ~r.live
  PROVE  /\ Duty(Confirming(r)) /\ \A acc : Checked(Confirming(r), acc)
         /\ Confirming(r).at # "reloading" /\ ~Saver(Confirming(r))
<1>1. /\ Confirming(r).op = "confirm" /\ Confirming(r).at = "load"
      /\ Confirming(r).todo = r.todo /\ Confirming(r).live = r.live
  BY DEF Confirming, Tasks
<1> QED BY <1>1 DEF Duty, Checked, Saver, Waiting

LEMMA ChooseAside ==
  ASSUME Types, SafeInv, NEW t \in Task, Choose(t) PROVE Aside(t) /\ Elsewhere
<1>0. /\ task[t] \in Tasks /\ Duty(task[t]) /\ task[t].at = "choose"
      /\ accepted' = accepted /\ Elsewhere
  BY Known DEF Choose, IsAt, Elsewhere, ghost
<1>1. PICK k : \/ Become(t, [task[t] EXCEPT !.seed = k, !.at = "saveSeed"])
               \/ Become(t, Reloading(task[t]))
               \/ Become(t, Ended)
  BY DEF Choose
<1>2. CASE Become(t, [task[t] EXCEPT !.seed = k, !.at = "saveSeed"])
  <2> DEFINE r == [task[t] EXCEPT !.seed = k, !.at = "saveSeed"]
  <2>1. /\ r.op = task[t].op /\ r.at = "saveSeed" /\ r.live = task[t].live
        /\ r.todo = task[t].todo /\ Become(t, r)
    BY <1>0, <1>2 DEF Tasks
  <2> HIDE DEF r
  <2>2. Duty(r) /\ Checked(r, accepted') /\ r.at # "reloading" /\ ~Saver(r)
    BY <1>0, <2>1 DEF Duty, Checked, Saver, Waiting
  <2> QED BY <1>0, <2>1, <2>2 DEF Aside
<1>3. CASE Become(t, Reloading(task[t]))
  BY <1>0, <1>3, ReloadingAside DEF Aside
<1>4. CASE Become(t, Ended)
  BY <1>0, <1>4, EndedAside DEF Aside
<1> QED BY <1>1, <1>2, <1>3, <1>4

LEMMA SaveSeedAside ==
  ASSUME Types, SafeInv, NEW t \in Task, SaveSeed(t) PROVE Aside(t) /\ Elsewhere
<1>0. /\ task[t] \in Tasks /\ Duty(task[t]) /\ task[t].at = "saveSeed"
      /\ accepted' = accepted /\ Elsewhere
  BY Known DEF SaveSeed, IsAt, Elsewhere, ghost
<1>1. CASE task[t].op = "add"
  <2> DEFINE r == [task[t] EXCEPT !.at = "check"]
  <2>1. /\ r.op = task[t].op /\ r.at = "check" /\ r.live = task[t].live
        /\ r.todo = task[t].todo /\ Become(t, r)
    BY <1>0, <1>1 DEF Tasks, SaveSeed
  <2> HIDE DEF r
  <2>2. Duty(r) /\ Checked(r, accepted') /\ r.at # "reloading" /\ ~Saver(r)
    BY <1>0, <2>1 DEF Duty, Checked, Saver, Waiting
  <2> QED BY <1>0, <2>1, <2>2 DEF Aside
<1>2. CASE task[t].op # "add"
  <2>1. task[t].todo = {} /\ ~task[t].live /\ Become(t, Confirming(task[t]))
    BY <1>0, <1>2 DEF SaveSeed, Duty, FromCloud
  <2> QED BY <1>0, <2>1, ConfirmingAside DEF Aside
<1> QED BY <1>1, <1>2

LEMMA CheckBindingQuiet ==
  ASSUME Types, SafeInv, NEW t \in Task, CheckBinding(t)
  PROVE  /\ Aside(t) /\ Elsewhere
         /\ \A m \in Mac : accepted[m] \subseteq accepted'[m]
<1>0. /\ task[t] \in Tasks /\ Duty(task[t]) /\ task[t].at = "check"
      /\ task[t].mac \in Mac /\ Elsewhere /\ accepted \in [Mac -> SUBSET Record]
  BY Known DEF CheckBinding, IsAt, Elsewhere, files, Types, GhostTypes, Waiting
<1> DEFINE m == task[t].mac
<1>1. CASE /\ Go(t, "load")
           /\ accepted' = [accepted EXCEPT ![m] = @ \union {task[t].seed}]
  <2> DEFINE r == [task[t] EXCEPT !.at = "load"]
  <2>1. /\ r.op = task[t].op /\ r.at = "load" /\ r.live = task[t].live
        /\ r.todo = task[t].todo /\ r.mac = m /\ r.seed = task[t].seed /\ Become(t, r)
    BY <1>0, <1>1 DEF Tasks, Go
  <2>2. r.seed \in accepted'[r.mac]
    BY <1>0, <1>1, <2>1
  <2> HIDE DEF r
  <2>3. Duty(r) /\ Checked(r, accepted') /\ r.at # "reloading" /\ ~Saver(r)
    BY <1>0, <2>1, <2>2 DEF Duty, Checked, Saver, Waiting
  <2>4. \A x \in Mac : accepted[x] \subseteq accepted'[x]
    BY <1>0, <1>1
  <2> QED BY <1>0, <2>1, <2>3, <2>4 DEF Aside
<1>2. CASE Become(t, Reloading(task[t])) /\ UNCHANGED accepted
  BY <1>0, <1>2, ReloadingAside DEF Aside
<1>3. CASE Become(t, [task[t] EXCEPT !.op = "activate", !.at = "load"]) /\ UNCHANGED accepted
  <2> DEFINE r == [task[t] EXCEPT !.op = "activate", !.at = "load"]
  <2>1. /\ r.op = "activate" /\ r.at = "load" /\ r.live = task[t].live
        /\ r.todo = task[t].todo /\ Become(t, r)
    BY <1>0, <1>3 DEF Tasks
  <2> HIDE DEF r
  <2>2. Duty(r) /\ Checked(r, accepted') /\ r.at # "reloading" /\ ~Saver(r)
    BY <1>0, <2>1 DEF Duty, Checked, Saver, Waiting, FromCloud
  <2> QED BY <1>0, <1>3, <2>1, <2>2 DEF Aside
<1>4. CASE Become(t, Ended) /\ UNCHANGED accepted
  BY <1>0, <1>4, EndedAside DEF Aside
<1> QED BY <1>1, <1>2, <1>3, <1>4 DEF CheckBinding

LEMMA ReseedAside ==
  ASSUME Types, SafeInv, NEW t \in Task, Reseed(t) PROVE Aside(t) /\ Elsewhere
<1>0. /\ task[t] \in Tasks /\ Duty(task[t]) /\ task[t].at = "latest"
      /\ accepted' = accepted /\ Elsewhere /\ Checked(task[t], accepted)
  BY Known DEF Reseed, IsAt, Elsewhere, ghost
<1> DEFINE k == Latest(SeedHistory(task[t].mac))
           p == CASE ~Complete(k) -> "ended"
                  [] k # task[t].seed -> "check"
                  [] OTHER -> "enrol"
           r == [task[t] EXCEPT !.seed = k, !.at = p]
<1>1. /\ r.op = task[t].op /\ r.at = p /\ r.live = task[t].live /\ r.seed = k
      /\ r.todo = task[t].todo /\ r.mac = task[t].mac
      /\ Become(t, IF r.at = "ended" THEN Ended ELSE r)
  BY <1>0 DEF Tasks, Reseed, GoOn
<1>2. p = "ended" \/ p = "check" \/ (p = "enrol" /\ k = task[t].seed)
  OBVIOUS
<1> HIDE DEF k, p, r
<1>3. CASE p = "ended"
  BY <1>0, <1>1, <1>3, EndedAside DEF Aside
<1>4. CASE p = "check" \/ (p = "enrol" /\ k = task[t].seed)
  <2>1. Duty(r) /\ Checked(r, accepted') /\ r.at # "reloading" /\ ~Saver(r)
    BY <1>0, <1>1, <1>4 DEF Duty, Checked, Saver, Waiting
  <2> QED BY <1>0, <1>1, <1>4, <2>1 DEF Aside
<1> QED BY <1>2, <1>3, <1>4

LEMMA CandidatesAside ==
  ASSUME Types, SafeInv, NEW t \in Task, Candidates(t) PROVE Aside(t) /\ Elsewhere
<1>0. /\ task[t] \in Tasks /\ Duty(task[t]) /\ task[t].at = "candidates"
      /\ accepted' = accepted /\ Elsewhere /\ task[t].mac \in Mac
      /\ task[t].copy[task[t].mac] \in Record
      /\ Latest(SeedHistory(task[t].mac)) \in Record
  BY Known, HistoryTypes DEF Candidates, IsAt, Elsewhere, ghost, Types, Waiting, Tasks
<1> DEFINE mine == task[t].copy[task[t].mac]
           saved == Latest(SeedHistory(task[t].mac))
           r == [task[t] EXCEPT !.was = mine,
                                !.seed = IF Complete(mine) THEN mine ELSE saved]
<1>1. /\ r \in Tasks /\ r.op = task[t].op /\ r.at = "candidates" /\ r.live = task[t].live
      /\ r.todo = task[t].todo
      /\ Become(t, IF Complete(r.seed) THEN Confirming(r) ELSE [r EXCEPT !.at = "list"])
  BY <1>0 DEF Tasks, Candidates
<1> HIDE DEF r
<1>2. Duty(r) /\ r.todo = {} /\ ~r.live
  BY <1>0, <1>1 DEF Duty, Waiting, FromCloud
<1>3. CASE Complete(r.seed)
  BY <1>0, <1>1, <1>2, <1>3, ConfirmingAside DEF Aside
<1>4. CASE ~Complete(r.seed)
  <2> DEFINE q == [r EXCEPT !.at = "list"]
  <2>1. q.op = r.op /\ q.at = "list" /\ q.live = r.live /\ q.todo = r.todo /\ Become(t, q)
    BY <1>1, <1>4 DEF Tasks
  <2> HIDE DEF q
  <2>2. Duty(q) /\ Checked(q, accepted') /\ q.at # "reloading" /\ ~Saver(q)
    BY <1>0, <1>1, <1>2, <2>1 DEF Duty, Checked, Saver, Waiting
  <2> QED BY <1>0, <2>1, <2>2 DEF Aside
<1> QED BY <1>3, <1>4

LEMMA PairingAside ==
  ASSUME Types, SafeInv, NEW t \in Task, TakeLock(t) \/ Suspend(t) \/ PairLock(t)
  PROVE  Aside(t) /\ Elsewhere
<1>0. /\ task[t] \in Tasks /\ Duty(task[t]) /\ task[t].at \in {"lock", "suspend", "pair"}
      /\ accepted' = accepted /\ Elsewhere
  BY Known DEF TakeLock, Suspend, PairLock, IsAt, Elsewhere, files, ghost
<1>1. CASE TakeLock(t)
  <2> DEFINE r == [task[t] EXCEPT !.op = "persist", !.at = "suspend",
                                  !.copy = Nothing, !.was = NoKeys]
  <2>1. /\ r.op = "persist" /\ r.at = "suspend" /\ r.live = task[t].live
        /\ r.todo = task[t].todo /\ Become(t, r) /\ task[t].at = "lock"
    BY <1>0, <1>1 DEF Tasks, TakeLock, IsAt
  <2> HIDE DEF r
  <2>2. Duty(r) /\ Checked(r, accepted') /\ r.at # "reloading" /\ ~Saver(r)
    BY <1>0, <2>1 DEF Duty, Checked, Saver, Waiting, FromCloud
  <2> QED BY <1>0, <2>1, <2>2 DEF Aside
<1>2. CASE Suspend(t)
  <2> DEFINE r == [task[t] EXCEPT !.holds = runtime[task[t].mac] # NoKeys, !.at = "pair"]
  <2>1. /\ r.op = task[t].op /\ r.at = "pair" /\ r.live = task[t].live
        /\ r.todo = task[t].todo /\ Become(t, r) /\ task[t].at = "suspend"
    BY <1>0, <1>2 DEF Tasks, Suspend, IsAt
  <2> HIDE DEF r
  <2>2. Duty(r) /\ Checked(r, accepted') /\ r.at # "reloading" /\ ~Saver(r)
    BY <1>0, <2>1 DEF Duty, Checked, Saver, Waiting
  <2> QED BY <1>0, <2>1, <2>2 DEF Aside
<1>3. CASE PairLock(t)
  <2>1. CASE Go(t, "load")
    <3> DEFINE r == [task[t] EXCEPT !.at = "load"]
    <3>1. /\ r.op = task[t].op /\ r.at = "load" /\ r.live = task[t].live
          /\ r.todo = task[t].todo /\ Become(t, r) /\ task[t].at = "pair"
      BY <1>0, <1>3, <2>1 DEF Tasks, PairLock, IsAt, Go
    <3> HIDE DEF r
    <3>2. Duty(r) /\ Checked(r, accepted') /\ r.at # "reloading" /\ ~Saver(r)
      BY <1>0, <3>1 DEF Duty, Checked, Saver, Waiting
    <3> QED BY <1>0, <3>1, <3>2 DEF Aside
  <2>2. CASE Become(t, Ended)
    BY <1>0, <2>2, EndedAside DEF Aside
  <2> QED BY <1>3, <2>1, <2>2 DEF PairLock
<1> QED BY <1>1, <1>2, <1>3

LEMMA LoadSafe ==
  ASSUME Types, SafeInv, NEW t \in Task, Load(t) PROVE SafeInv'
<1>0. /\ task[t] \in Tasks /\ Duty(task[t]) /\ Checked(task[t], accepted)
      /\ task[t].at = "load" /\ task[t].mac \in Mac
      /\ accepted' = accepted /\ Elsewhere /\ devices \in [Mac -> Record]
  BY Known DEF Load, IsAt, Elsewhere, ghost, Waiting, Types, FileTypes
<1> DEFINE q == [task[t] EXCEPT !.copy = devices]
           p == AfterLoad(q)
           r == [q EXCEPT !.at = p]
<1>1. /\ q.op = task[t].op /\ q.mac = task[t].mac /\ q.copy = devices
      /\ r.op = task[t].op /\ r.at = p /\ r.live = task[t].live /\ r.seed = task[t].seed
      /\ r.todo = task[t].todo /\ r.mac = task[t].mac /\ r.copy = devices
      /\ Become(t, IF r.at = "ended" THEN Ended ELSE r)
      /\ task[t].op = "persist" => ~Persisting
  BY <1>0 DEF Tasks, Load, GoOn
<1> HIDE DEF q
<1>2. /\ p \in {"ended", "ask", "list", "enrol", "latest", "candidates", "lock"}
      /\ p = "ask" => task[t].op = "refresh"
      /\ p = "latest" => task[t].op = "add"
      /\ p = "candidates" => task[t].op = "activate"
      /\ p = "lock" => task[t].op = "confirm"
      /\ task[t].op = "persist" => p = "enrol"
  BY <1>1 DEF AfterLoad
<1> HIDE DEF p, r
<1>3. CASE p = "ended"
  BY <1>0, <1>1, <1>3, EndedAside, AsideStep DEF Aside
<1>4. CASE p # "ended"
  <2>1. Become(t, r) /\ r.at # "reloading" /\ Duty(r) /\ Checked(r, accepted')
    <3>1. Become(t, r) /\ r.at # "reloading"
      BY <1>1, <1>2, <1>4
    <3>2. Duty(r)
      BY <1>0, <1>1, <1>2, <1>4 DEF Duty, FromCloud, Waiting
    <3>3. Checked(r, accepted')
      BY <1>0, <1>1 DEF Checked
    <3> QED BY <3>1, <3>2, <3>3
  <2>2. Saver(r) => Keeps(r) /\ ~Persisting
    BY <1>1 DEF Saver, Keeps
  <2> QED BY <1>0, <2>1, <2>2, QuietStep DEF Elsewhere
<1> QED BY <1>3, <1>4

LEMMA EnrolSafe ==
  ASSUME Types, SafeInv, NEW t \in Task, Enrol(t) PROVE SafeInv'
<1>0. /\ task[t] \in Tasks /\ Duty(task[t]) /\ Checked(task[t], accepted)
      /\ task[t].at = "enrol" /\ task[t].mac \in Mac
      /\ accepted' = accepted /\ Elsewhere
      /\ Saver(task[t]) => Keeps(task[t])
  BY Known DEF Enrol, IsAt, Elsewhere, ghost, Waiting, SafeInv, TaskSafe
<1> DEFINE r == [task[t] EXCEPT !.copy = WithRecord(task[t]), !.at = "save"]
<1>1. /\ r.op = task[t].op /\ r.at = "save" /\ r.live = task[t].live /\ r.seed = task[t].seed
      /\ r.todo = task[t].todo /\ r.mac = task[t].mac /\ Become(t, r)
      /\ r.copy = [task[t].copy EXCEPT ![task[t].mac] = task[t].seed]
  BY <1>0 DEF Tasks, Enrol, WithRecord
<1>2. /\ r.copy[r.mac] = r.seed
      /\ \A m \in Mac \ {r.mac} : r.copy[m] = task[t].copy[m]
  BY <1>0, <1>1 DEF Tasks
<1> HIDE DEF r
<1>3. Duty(r) /\ Checked(r, accepted')
  BY <1>0, <1>1, <1>2 DEF Duty, Checked, Waiting
<1>4. Saver(r) => Keeps(r) /\ Saver(task[t])
  BY <1>0, <1>1, <1>2 DEF Saver, Keeps
<1> QED BY <1>0, <1>1, <1>3, <1>4, QuietStep DEF Elsewhere

LEMMA StorageFailsAside ==
  ASSUME Types, SafeInv, NEW t \in Task, StorageFails(t) PROVE Aside(t) /\ Elsewhere
<1>0. /\ task[t] \in Tasks /\ Duty(task[t])
      /\ accepted' = accepted /\ Elsewhere
  BY Known DEF StorageFails, Elsewhere, files, ghost
<1>1. CASE task[t].op = "persist" /\ task[t].tries < 2
  <2> DEFINE r == [task[t] EXCEPT !.tries = @ + 1, !.at = "load"]
  <2>1. /\ r.op = "persist" /\ r.at = "load" /\ r.live = task[t].live
        /\ r.todo = task[t].todo /\ Become(t, r)
    BY <1>0, <1>1 DEF Tasks, StorageFails
  <2> HIDE DEF r
  <2>2. Duty(r) /\ Checked(r, accepted') /\ r.at # "reloading" /\ ~Saver(r)
    BY <1>0, <1>1, <2>1 DEF Duty, Checked, Saver, Waiting
  <2> QED BY <1>0, <2>1, <2>2 DEF Aside
<1>2. CASE ~(task[t].op = "persist" /\ task[t].tries < 2)
  <2>1. Become(t, Ended)
    BY <1>2 DEF StorageFails
  <2> QED BY <1>0, <2>1, EndedAside DEF Aside
<1> QED BY <1>1, <1>2

LEMMA RouteAside ==
  ASSUME Types, SafeInv, NEW t \in Task, TakeRoute(t) \/ UpdateRoute(t)
  PROVE  Aside(t) /\ Elsewhere
<1>0. /\ task[t] \in Tasks /\ Duty(task[t]) /\ task[t].at \in {"wait", "route"}
      /\ accepted' = accepted /\ Elsewhere
  BY Known DEF TakeRoute, UpdateRoute, IsAt, Elsewhere, files, ghost
<1>1. task[t].op = "route"
  BY <1>0 DEF Duty
<1>2. CASE TakeRoute(t)
  <2> DEFINE r == [task[t] EXCEPT !.live = TRUE, !.holds = TRUE, !.at = "route"]
  <2>1. r.op = "route" /\ r.at = "route" /\ r.todo = task[t].todo /\ Become(t, r)
    BY <1>0, <1>1, <1>2 DEF Tasks, TakeRoute
  <2> HIDE DEF r
  <2>2. Duty(r) /\ Checked(r, accepted') /\ r.at # "reloading" /\ ~Saver(r)
    BY <1>0, <1>1, <2>1 DEF Duty, Checked, Saver, Waiting
  <2> QED BY <1>0, <2>1, <2>2 DEF Aside
<1>3. CASE UpdateRoute(t)
  <2>1. CASE Become(t, Ended)
    BY <1>0, <2>1, EndedAside DEF Aside
  <2>2. CASE Go(t, "save")
    <3> DEFINE r == [task[t] EXCEPT !.at = "save"]
    <3>1. r.op = "route" /\ r.at = "save" /\ r.todo = task[t].todo /\ Become(t, r)
      BY <1>0, <1>1, <2>2 DEF Tasks, Go
    <3> HIDE DEF r
    <3>2. Duty(r) /\ Checked(r, accepted') /\ r.at # "reloading" /\ ~Saver(r)
      BY <1>0, <1>1, <3>1 DEF Duty, Checked, Saver, Waiting
    <3> QED BY <1>0, <3>1, <3>2 DEF Aside
  <2> QED BY <1>3, <2>1, <2>2 DEF UpdateRoute
<1> QED BY <1>2, <1>3

LEMMA ReloadedAside ==
  ASSUME Types, SafeInv, NEW t \in Task, Reloaded(t) PROVE Aside(t) /\ Elsewhere
BY EndedAside DEF Reloaded, Aside, Elsewhere, files, ghost

\* A step that leaves the files alone, and of each task what its duties are.
Follows(q, r) == \/ r = Ended
                 \/ /\ r.op = q.op /\ r.at = q.at /\ r.todo = q.todo /\ r.mac = q.mac
                    /\ r.copy = q.copy \/ q.live
                    /\ r.seed = q.seed /\ (r.live => q.live)

LEMMA EntryStep ==
  ASSUME Types, SafeInv, UNCHANGED <<devices, writer, accepted>>,
         \A t \in Task : Follows(task[t], task'[t]) /\ (IsAt(t, "reloading")' => Taken(t)')
  PROVE  SafeInv'
<1>1. ASSUME NEW t \in Task PROVE TaskSafe(t)' /\ (Saver(task[t])' => Saver(task[t]))
  <2>1. CASE task'[t] = Ended
    <3>1. Duty(task[t])' /\ Checked(task[t], accepted)' /\ ~Saver(task[t])'
          /\ ~IsAt(t, "reloading")'
      BY <2>1, EndedAside DEF Duty, Checked, Saver, IsAt
    <3> QED BY <3>1 DEF TaskSafe
  <2>2. CASE task'[t] # Ended
    <3>1. /\ task'[t].op = task[t].op /\ task'[t].at = task[t].at
          /\ task'[t].todo = task[t].todo /\ task'[t].mac = task[t].mac
          /\ task'[t].copy = task[t].copy \/ task[t].op = "route"
          /\ task'[t].seed = task[t].seed /\ (task'[t].live => task[t].live)
      BY <2>2, Known DEF Follows, Duty
    <3>2. Duty(task[t])' /\ Checked(task[t], accepted)'
      BY <3>1, Known DEF Duty, Checked
    <3>3. Saver(task[t])' => Saver(task[t]) /\ Keeps(task[t])'
      BY <3>1 DEF SafeInv, TaskSafe, Saver, Keeps
    <3> QED BY <3>2, <3>3 DEF TaskSafe
  <2> QED BY <2>1, <2>2
<1>2. OneSaver'
  BY <1>1 DEF SafeInv, OneSaver
<1> QED BY <1>1, <1>2 DEF SafeInv

\* What a task saves: the whole file, and it has written what is different.
LEMMA SaveWrites ==
  ASSUME Types, NEW t \in Task, Save(t)
  PROVE  /\ devices' = Store(t)
         /\ \A m \in Mac : \/ writer'[m] = <<t, task[t].op>>
                           \/ devices'[m] = devices[m] /\ writer'[m] = writer[m]
BY DEF Save, Write

LEMMA SaveSafe ==
  ASSUME Types, SafeInv, NEW t \in Task, Save(t) PROVE SafeInv'
<1>0. /\ task[t] \in Tasks /\ Duty(task[t]) /\ task[t].at = "save"
      /\ UNCHANGED <<runtime, setup, fresh, accepted>>
      /\ task \in [Task -> Tasks]
  BY Known DEF Save, IsAt, entry, Types, TaskTypes
<1>1. PICK r : /\ Become(t, r) /\ Duty(r) /\ Checked(r, accepted') /\ ~Saver(r)
               /\ r.at # "reloading"
  <2>1. CASE task[t].op = "route"
    <3>1. Become(t, Ended)
      <4>1. task[t].todo = {}
        BY <1>0, <2>1 DEF Duty, FromCloud
      <4> QED BY <2>1, <4>1 DEF Save
    <3>2. /\ Duty(Ended) /\ Checked(Ended, accepted')
          /\ Ended.at # "reloading" /\ ~Saver(Ended)
      BY EndedAside
    <3> QED BY <3>1, <3>2
  <2>2. CASE task[t].op # "route" /\ task[t].todo # {}
    <3> DEFINE r == [task[t] EXCEPT !.at = "merge"]
    <3>1. /\ r.op = task[t].op /\ r.at = "merge" /\ r.live = task[t].live /\ Become(t, r)
      BY <1>0, <2>2 DEF Tasks, Save
    <3> HIDE DEF r
    <3>2. Duty(r) /\ Checked(r, accepted') /\ r.at # "reloading" /\ ~Saver(r)
      BY <1>0, <2>2, <3>1 DEF Duty, Checked, Saver, Waiting, FromCloud
    <3> QED BY <3>1, <3>2
  <2>3. CASE task[t].op # "route" /\ task[t].todo = {}
    <3>1. Become(t, Reloading(task[t]))
      BY <2>3 DEF Save
    <3>2. /\ Duty(Reloading(task[t])) /\ Checked(Reloading(task[t]), accepted')
          /\ Reloading(task[t]).at # "reloading" /\ ~Saver(Reloading(task[t]))
      BY <1>0, ReloadingAside
    <3> QED BY <3>1, <3>2
  <2> QED BY <2>1, <2>2, <2>3
<1>2. task'[t] = r /\ \A s \in Task \ {t} : task'[s] = task[s]
  BY <1>0, <1>1 DEF Become
<1>3. ASSUME NEW s \in Task \ {t} PROVE TaskSafe(s)'
  <2>1. task'[s] = task[s] /\ TaskSafe(s)
    BY <1>2 DEF SafeInv
  <2>2. Saver(task[s])' => Keeps(task[s])'
    <3>1. Saver(task[s]) => task[t].op # "persist"
      BY <1>0 DEF SafeInv, OneSaver, Saver
    <3>2. task[t].op # "persist" =>
            \A m \in Mac : writer'[m][2] = "persist" =>
              devices'[m] = devices[m] /\ writer'[m] = writer[m]
      BY SaveWrites
    <3> QED BY <2>1, <3>1, <3>2 DEF TaskSafe, Saver, Keeps
  <2>3. IsAt(s, "reloading")' => Taken(s)'
    <3>1. \A m \in Mac : writer'[m] = <<s, task[s].op>> =>
            devices'[m] = devices[m] /\ writer'[m] = writer[m]
      BY SaveWrites
    <3> QED BY <1>0, <2>1, <3>1 DEF TaskSafe, IsAt, Taken
  <2> QED BY <1>0, <2>1, <2>2, <2>3 DEF TaskSafe, Duty, Checked
<1>4. TaskSafe(t)'
  BY <1>1, <1>2 DEF TaskSafe, Duty, Checked, IsAt, Saver
<1>5. OneSaver'
  BY <1>1, <1>2 DEF SafeInv, OneSaver, Saver
<1> QED BY <1>3, <1>4, <1>5 DEF SafeInv

LEMMA ReloadSafe ==
  ASSUME Types, SafeInv, NEW t \in Task, Reload(t) PROVE SafeInv'
<1>0. /\ task[t] \in Tasks /\ Duty(task[t]) /\ task[t].at = "reload"
      /\ UNCHANGED <<devices, writer, accepted>> /\ setup' = "reading"
      /\ task \in [Task -> Tasks]
  BY Known DEF Reload, IsAt, files, ghost, Types, TaskTypes
<1> DEFINE r == [task[t] EXCEPT !.at = "reloading"]
<1>1. /\ r.op = task[t].op /\ r.at = "reloading" /\ r.live = task[t].live
      /\ r.todo = task[t].todo /\ Become(t, r)
  BY <1>0 DEF Tasks, Reload, Go
<1> HIDE DEF r
<1>2. task'[t] = r /\ \A s \in Task \ {t} : task'[s] = task[s]
  BY <1>0, <1>1 DEF Become
<1>3. Duty(r) /\ Checked(r, accepted') /\ ~Saver(r)
  BY <1>0, <1>1 DEF Duty, Checked, Saver, Waiting
<1>4. \A s \in Task : Taken(s)'
  BY <1>0 DEF Taken
<1>5. ASSUME NEW s \in Task \ {t} PROVE TaskSafe(s)'
  <2>1. task'[s] = task[s] /\ TaskSafe(s)
    BY <1>2 DEF SafeInv
  <2> QED BY <1>0, <1>4, <2>1 DEF TaskSafe, Duty, Checked, Saver, Keeps
<1>6. TaskSafe(t)'
  BY <1>2, <1>3, <1>4 DEF TaskSafe, Duty, Checked, Saver
<1>7. OneSaver'
  BY <1>2, <1>3 DEF SafeInv, OneSaver, Saver
<1> QED BY <1>5, <1>6, <1>7 DEF SafeInv

LEMMA SetupSafe ==
  ASSUME Types, SafeInv, SetupReads \/ SetupNotes \/ SetupEnds \/ SetupFails
  PROVE  SafeInv'
<1>1. UNCHANGED <<devices, writer, accepted>>
  BY DEF SetupReads, SetupNotes, SetupEnds, SetupFails, files, ghost
<1>2. ASSUME NEW t \in Task PROVE Follows(task[t], task'[t])
  <2>1. CASE task' = task
    BY <2>1 DEF Follows
  <2>2. CASE SetupEnds
    <3> DEFINE c == IF task[t].live THEN runtime ELSE task[t].copy
    <3>1. task[t] \in Tasks
          /\ task'[t] = [task[t] EXCEPT !.holds = FALSE, !.live = FALSE, !.copy = c]
      BY <2>2, Known DEF SetupEnds
    <3> QED BY <3>1 DEF Follows, Tasks
  <2> QED BY <2>1, <2>2 DEF SetupReads, SetupNotes, SetupFails
<1>3. ASSUME NEW t \in Task, IsAt(t, "reloading")' PROVE Taken(t)'
  <2>1. IsAt(t, "reloading") /\ task'[t].op = task[t].op /\ Taken(t)
    <3>1. task'[t] # Ended
      BY <1>3 DEF IsAt, Ended, At
    <3>2. IsAt(t, "reloading") /\ task'[t].op = task[t].op
      BY <1>2, <1>3, <3>1 DEF Follows, IsAt
    <3> QED BY <3>2 DEF SafeInv, TaskSafe
  <2>2. CASE SetupReads
    BY <1>1, <2>2 DEF SetupReads, Taken
  <2>3. CASE SetupNotes
    BY <1>1, <2>1, <2>3 DEF SetupNotes, Taken
  <2>4. CASE SetupEnds
    BY <1>1, <2>1, <2>4 DEF SetupEnds, Taken
  <2>5. CASE SetupFails
    BY <2>5 DEF SetupFails, Taken
  <2> QED BY <2>2, <2>3, <2>4, <2>5
<1> QED BY <1>1, <1>2, <1>3, EntryStep

LEMMA RemoveDeviceSafe ==
  ASSUME Types, SafeInv, NEW m \in Mac, RemoveDevice(m) PROVE SafeInv'
<1>0. /\ UNCHANGED <<task, accepted, setup, fresh>> /\ setup = "up"
      /\ \A x \in Mac \ {m} : runtime'[x] = runtime[x]
      /\ writer \in [Mac -> Writers]
  BY DEF RemoveDevice, Types, EntryTypes, GhostTypes
<1>1. \A x \in Mac : \/ writer'[x] = <<NoTask, "remove">>
                     \/ devices'[x] = devices[x] /\ writer'[x] = writer[x]
  <2>1. CASE Write(runtime', <<NoTask, "remove">>)
    BY <2>1 DEF Write
  <2>2. CASE devices' = devices /\ writer' = [writer EXCEPT ![m] = <<NoTask, "remove">>]
    BY <1>0, <2>2
  <2> QED BY <2>1, <2>2 DEF RemoveDevice
<1>2. \A t \in Task : Taken(t) => Taken(t)'
  <2>1. CASE Write(runtime', <<NoTask, "remove">>)
    BY <1>0, <2>1 DEF Write, Taken
  <2>2. CASE devices' = devices /\ writer' = [writer EXCEPT ![m] = <<NoTask, "remove">>]
    <3>1. \A t \in Task : writer'[m] # <<t, task[t].op>>
      BY <1>0, <2>2, NoneAssumption
    <3> QED BY <1>0, <1>1, <2>2, <3>1, NoneAssumption DEF Taken
  <2> QED BY <2>1, <2>2 DEF RemoveDevice
<1>3. ASSUME NEW t \in Task PROVE TaskSafe(t)'
  <2>1. Saver(task[t])' => Keeps(task[t])'
    <3>1. \A x \in Mac : writer'[x][2] = "persist" =>
            devices'[x] = devices[x] /\ writer'[x] = writer[x]
      BY <1>1
    <3> QED BY <1>0, <3>1 DEF SafeInv, TaskSafe, Saver, Keeps
  <2> QED BY <1>0, <1>2, <2>1 DEF SafeInv, TaskSafe, Duty, Checked, IsAt
<1> QED BY <1>0, <1>3 DEF SafeInv, OneSaver, Saver

LEMMA WorldSafe ==
  ASSUME Types, SafeInv, World PROVE SafeInv'
<1>1. CASE Crash
  <2>1. UNCHANGED <<devices, writer, accepted>>
    BY <1>1 DEF Crash, files, ghost
  <2>2. ASSUME NEW t \in Task
        PROVE  Follows(task[t], task'[t]) /\ ~IsAt(t, "reloading")'
    <3>1. IF IsAt(t, "idle") THEN task'[t] = task[t] ELSE task'[t] = Ended
      BY <1>1 DEF Crash
    <3> QED BY <3>1 DEF Follows, IsAt, Ended, At
  <2> QED BY <2>1, <2>2, EntryStep
<1>2. CASE ~Crash
  <2>1. UNCHANGED <<devices, writer, accepted, task, runtime, setup, fresh>>
    BY <1>2 DEF World, AppPairs, ResetLock, files, ghost, entry
  <2>2. \A t \in Task : Taken(t) => Taken(t)'
    BY <2>1 DEF Taken
  <2> QED BY <2>1, <2>2, EntryStep DEF Follows, SafeInv, TaskSafe, IsAt
<1> QED BY <1>1, <1>2

LEMMA FlowSafe == ASSUME Types, SafeInv, NEW t \in Task, Flow(t) PROVE SafeInv'
<1>1. CASE CheckBinding(t)
  BY <1>1, CheckBindingQuiet, AsideStep
<1>2. CASE ~CheckBinding(t)
  <2>1. Aside(t) /\ Elsewhere
    BY <1>2, ChooseAside, SaveSeedAside, ReseedAside, CandidatesAside, PairingAside DEF Flow
  <2>2. accepted' = accepted
    BY <1>2 DEF Flow, Choose, SaveSeed, Reseed, Candidates, TakeLock, Suspend, PairLock, ghost
  <2> QED BY <2>1, <2>2, AsideStep
<1> QED BY <1>1, <1>2

LEMMA CloudSafe == ASSUME Types, SafeInv, NEW t \in Task, Cloud(t) PROVE SafeInv'
<1>1. Aside(t) /\ Elsewhere
  BY CloudAside, ImportAccountAside, MergeAside DEF Cloud
<1>2. accepted' = accepted
  BY DEF Cloud, AskCloud, Keep, FetchFails, ListAccount, ImportAccount, Merge, ghost
<1> QED BY <1>1, <1>2, AsideStep

LEMMA StorageSafe == ASSUME Types, SafeInv, NEW t \in Task, Storage(t) PROVE SafeInv'
<1>1. CASE Load(t) \/ Enrol(t) \/ Save(t) \/ Reload(t)
  BY <1>1, LoadSafe, EnrolSafe, SaveSafe, ReloadSafe
<1>2. CASE StorageFails(t) \/ TakeRoute(t) \/ UpdateRoute(t) \/ Reloaded(t)
  <2>1. Aside(t) /\ Elsewhere
    BY <1>2, StorageFailsAside, RouteAside, ReloadedAside
  <2>2. accepted' = accepted
    BY <1>2 DEF StorageFails, TakeRoute, UpdateRoute, Reloaded, ghost
  <2> QED BY <2>1, <2>2, AsideStep
<1> QED BY <1>1, <1>2 DEF Storage

LEMMA InitSafe == Init => SafeInv
<1> SUFFICES ASSUME Init PROVE SafeInv
  OBVIOUS
<1>1. \A t \in Task : /\ task[t].op = "none" /\ task[t].at = "idle"
                      /\ task[t].todo = {} /\ ~task[t].live
  BY DEF Init, At
<1> QED BY <1>1 DEF SafeInv, TaskSafe, OneSaver, Duty, Checked, Saver, IsAt, Waiting

LEMMA NextSafe == Types /\ SafeInv /\ [Next]_vars => SafeInv'
<1> SUFFICES ASSUME Types, SafeInv, [Next]_vars PROVE SafeInv'
  OBVIOUS
<1>1. ASSUME NEW t \in Task, Starts(t) PROVE SafeInv'
  <2>1. accepted' = accepted
    BY <1>1 DEF Starts, PressRefresh, Reconfigure, SyncCloud, SelectSaved, Discovered,
                SelectRoute, ImportLocal, Begin, ghost
  <2> QED BY <1>1, <2>1, StartsAside, AsideStep
<1>2. CASE UNCHANGED vars
  <2>1. UNCHANGED <<devices, writer, accepted, task, runtime, setup, fresh>>
    BY <1>2 DEF vars
  <2>2. \A t \in Task : Taken(t) => Taken(t)'
    BY <2>1 DEF Taken
  <2> QED BY <2>1, <2>2, EntryStep DEF Follows, SafeInv, TaskSafe, IsAt
<1>3. CASE Entry
  BY <1>3, SetupSafe, RemoveDeviceSafe DEF Entry
<1> QED BY <1>1, <1>2, <1>3, CloudSafe, FlowSafe, StorageSafe, WorldSafe DEF Next, Over

LEMMA AlwaysSafe == Spec => [](Types /\ SafeInv)
BY InitTypes, InitSafe, NextTypes, NextSafe, PTL DEF Spec

\* Only a save and the removal of a device write the file of devices.
LEMMA OnlyTheseWrite ==
  ASSUME [Next]_vars
  PROVE  \/ devices' = devices
         \/ \E s \in Task : Save(s)
         \/ \E m \in Mac : RemoveDevice(m)
<1>1. ASSUME NEW t \in Task, Starts(t) \/ Cloud(t) \/ Flow(t) PROVE devices' = devices
  BY <1>1 DEF Starts, PressRefresh, Reconfigure, SyncCloud, SelectSaved, Discovered,
              SelectRoute, ImportLocal, Begin, Cloud, AskCloud, Keep, FetchFails, ListAccount,
              ImportAccount, Merge, Flow, Choose, SaveSeed, CheckBinding, Reseed, Candidates,
              TakeLock, Suspend, PairLock, files
<1>2. ASSUME NEW t \in Task, Storage(t), ~Save(t) PROVE devices' = devices
  BY <1>2 DEF Storage, Load, Enrol, StorageFails, TakeRoute, UpdateRoute, Reload, Reloaded, files
<1>3. CASE World \/ Over \/ UNCHANGED vars
  BY <1>3 DEF World, Crash, AppPairs, ResetLock, Over, vars, files
<1>4. CASE Entry /\ ~\E m \in Mac : RemoveDevice(m)
  BY <1>4 DEF Entry, SetupReads, SetupNotes, SetupEnds, SetupFails, files
<1> QED BY <1>1, <1>2, <1>3, <1>4 DEF Next

\* Whatever a task does is a step of its own record.
LEMMA MovesBecome ==
  ASSUME NEW s \in Task, Starts(s) \/ Cloud(s) \/ Flow(s) \/ Storage(s)
  PROVE  \E r : Become(s, r)
<1>1. Starts(s) => \E r : Become(s, r)
  BY DEF Starts, PressRefresh, Reconfigure, SyncCloud, SelectSaved, Discovered,
         SelectRoute, ImportLocal, Begin
<1>2. Cloud(s) => \E r : Become(s, r)
  BY DEF Cloud, AskCloud, Keep, FetchFails, ListAccount, ImportAccount, Merge, Go
<1>3. Flow(s) => \E r : Become(s, r)
  BY DEF Flow, Choose, SaveSeed, CheckBinding, Reseed, Candidates,
         TakeLock, Suspend, PairLock, Go, GoOn
<1>4. Storage(s) => \E r : Become(s, r)
  BY DEF Storage, Load, Enrol, Save, StorageFails, TakeRoute, UpdateRoute, Reload, Reloaded,
         Go, GoOn
<1> QED BY <1>1, <1>2, <1>3, <1>4

\* A task that is about to save goes on to the reload by saving only.
LEMMA ReloadsAfterSave ==
  ASSUME Types, [Next]_vars, NEW t \in Task, task[t].at = "save", task'[t].at = "reload"
  PROVE  Save(t)
<1>1. ASSUME NEW s \in Task \ {t}, NEW r, Become(s, r) PROVE FALSE
  BY <1>1 DEF Become, Types, TaskTypes
<1>2. ~Starts(t) /\ ~Cloud(t) /\ ~Flow(t)
  BY DEF Starts, PressRefresh, Reconfigure, SyncCloud, SelectSaved, Discovered,
         SelectRoute, ImportLocal, Begin, Cloud, AskCloud, Keep, FetchFails, ListAccount,
         ImportAccount, Merge, Flow, Choose, SaveSeed, CheckBinding, Reseed, Candidates,
         TakeLock, Suspend, PairLock, IsAt
<1>3. ASSUME NEW s \in Task, s # t, Starts(s) \/ Cloud(s) \/ Flow(s) \/ Storage(s)
      PROVE  FALSE
  <2>1. \E r : Become(s, r)
    BY <1>3, MovesBecome
  <2> QED BY <1>1, <1>3, <2>1
<1>4. Storage(t) => Save(t)
  <2>1. ~StorageFails(t)
    <3>1. CASE Become(t, Ended)
      BY <3>1 DEF Become, Ended, At, Types, TaskTypes
    <3>2. CASE Become(t, [task[t] EXCEPT !.tries = @ + 1, !.at = "load"])
      BY <3>2 DEF Become, Types, TaskTypes, Tasks
    <3> QED BY <3>1, <3>2 DEF StorageFails
  <2> QED BY <2>1 DEF Storage, Load, Enrol, TakeRoute, UpdateRoute, Reload, Reloaded, IsAt
<1>5. task' # task
  OBVIOUS
<1>6. ~Entry
  <2>1. ~SetupEnds
    <3> DEFINE c == IF task[t].live THEN runtime ELSE task[t].copy
    <3>1. SetupEnds => task'[t] = [task[t] EXCEPT !.holds = FALSE, !.live = FALSE, !.copy = c]
      BY DEF SetupEnds
    <3>2. [task[t] EXCEPT !.holds = FALSE, !.live = FALSE, !.copy = c].at = task[t].at
      BY DEF Types, TaskTypes, Tasks
    <3> QED BY <3>1, <3>2
  <2> QED BY <1>5, <2>1 DEF Entry, SetupReads, SetupNotes, SetupFails, RemoveDevice
<1>7. ~World
  BY <1>5 DEF World, Crash, AppPairs, ResetLock, Ended, At, IsAt
<1> QED BY <1>2, <1>3, <1>4, <1>5, <1>6, <1>7 DEF Next, Over, vars

(* An activation that saves the whole file of devices leaves the records    *)
(* that other activations wrote as they are: from its load to its save it   *)
(* holds the lock that all activations share, and whoever else writes a     *)
(* record meanwhile makes it his own (activation.py:164-167).               *)
THEOREM ActivationsSurviveHolds == Spec => ActivationsSurvive
<1> DEFINE A == \A t \in Task :
       task[t].op = "persist" /\ task[t].at = "save" /\ task'[t].at = "reload"
       => \A m \in Mac \ {task[t].mac} :
            writer[m][2] = "persist" => devices'[m] = devices[m]
<1>1. Types /\ SafeInv /\ [Next]_vars => A
  <2> SUFFICES ASSUME Types, SafeInv, [Next]_vars,
                      NEW t \in Task, task[t].op = "persist", task[t].at = "save",
                      task'[t].at = "reload", NEW m \in Mac \ {task[t].mac},
                      writer[m][2] = "persist"
               PROVE  devices'[m] = devices[m]
    OBVIOUS
  <2>1. CASE devices' = devices
    BY <2>1
  <2>2. CASE \E s \in Task : Save(s)
    <3> PICK s \in Task : Save(s)
      BY <2>2
    <3>1. s = t
      <4>1. s # t => task'[t] = task[t]
        BY DEF Save, Become, Types, TaskTypes
      <4> QED BY <4>1
    <3>2. Store(t) = task[t].copy
      BY Known DEF Store, Duty
    <3> QED BY <3>1, <3>2, SaveWrites DEF SafeInv, TaskSafe, Saver, Keeps
  <2>3. CASE \E x \in Mac : RemoveDevice(x)
    BY <2>3 DEF RemoveDevice
  <2> QED BY <2>1, <2>2, <2>3, OnlyTheseWrite
<1> QED BY <1>1, AlwaysSafe, PTL DEF ActivationsSurvive, Spec

(* A lock is added with keys it has accepted: whatever came to be the       *)
(* latest between the check and the save is checked before it is used       *)
(* (config_flow.py:408-413).                                                *)
THEOREM ImportsWereCheckedHolds == Spec => ImportsWereChecked
<1> DEFINE A == \A t \in Task :
       task[t].op = "add" /\ task[t].at = "save" /\ task'[t].at = "reload"
       => devices'[task[t].mac] \in accepted'[task[t].mac]
<1>1. Types /\ SafeInv /\ [Next]_vars => A
  <2> SUFFICES ASSUME Types, SafeInv, [Next]_vars,
                      NEW t \in Task, task[t].op = "add", task[t].at = "save",
                      task'[t].at = "reload"
               PROVE  devices'[task[t].mac] \in accepted'[task[t].mac]
    OBVIOUS
  <2>1. Save(t)
    BY ReloadsAfterSave
  <2>2. Store(t) = task[t].copy /\ task[t].copy[task[t].mac] = task[t].seed
        /\ task[t].seed \in accepted[task[t].mac]
    BY Known DEF Store, Duty, Checked
  <2> QED BY <2>1, <2>2, SaveWrites DEF Save
<1> QED BY <1>1, AlwaysSafe, PTL DEF ImportsWereChecked, Spec

(* Whoever has reloaded the entry finds in use what he has written, unless  *)
(* someone else wrote that record since: a set-up that had read the file    *)
(* before is waited for, and another one begun (activation.py:176-183,      *)
(* config_flow.py:444).                                                     *)
THEOREM ReloadedIsInUseHolds == Spec => ReloadedIsInUse
<1> DEFINE A == \A t \in Task :
       task[t].at = "reloading" /\ task'[t].at = "ended" /\ setup = "up"
       => \A m \in Mac : writer[m] = <<t, task[t].op>>
                           => runtime[m] = devices[m]
<1>1. SafeInv => A
  BY DEF SafeInv, TaskSafe, IsAt, Taken
<1> QED BY <1>1, AlwaysSafe, PTL DEF ReloadedIsInUse

=============================================================================
