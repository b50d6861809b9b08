----------------------------- MODULE DeviceKeys -----------------------------
(***************************************************************************)
(* The keys of the locks: the file of active devices (DeviceStore), the    *)
(* append-only history of keys (DeviceKeyRegistry) and the activation      *)
(* seeds (ActivationSeedStore) of device_store.py, and everybody who       *)
(* writes them: set-up and removal (__init__.py), the refreshes of         *)
(* tuya_cloud.py, the flows of config_flow.py, the activation of           *)
(* activation.py, and the route change of coordinator.py.                  *)
(*                                                                         *)
(* A DeviceStore holds the whole file: whoever saves writes back the       *)
(* records of all locks as read when its copy was loaded. Only the         *)
(* running integration keeps its store; the others load a copy of their    *)
(* own and reload the entry when they are done.                            *)
(***************************************************************************)
EXTENDS Naturals, Sequences, SequencesExt

CONSTANTS Mac,         \* the locks, by address
          Task,        \* flows, buttons and services, each running once
          NoMac, NoTask,  \* none of these
          Ops,         \* what each task may run
          MaxGen,      \* bound: generations of keys of a lock
          MaxMishaps   \* bound: new pairings, resets, removals and stops

ASSUME GenAssumption == MaxGen \in Nat \ {0}
ASSUME MishapAssumption == MaxMishaps \in Nat
ASSUME NoneAssumption == NoMac \notin Mac /\ NoTask \notin Task
ASSUME OpsAssumption ==
  Ops \in [Task -> SUBSET {"refresh", "refreshAll", "sync", "add", "activate",
                           "import", "route"}]

(***************************************************************************)
(* A record of a lock is abstracted to the generations of two of its       *)
(* keys: the local key, which every record has and every session uses, and *)
(* the verify key, which the cloud may withhold and without which a record *)
(* cannot be used to pair. 0 is a missing key.                             *)
(***************************************************************************)
Record == [local : 0..MaxGen, verify : 0..MaxGen]
NoKeys == [local |-> 0, verify |-> 0]
Generation(g) == [local |-> g, verify |-> g]

\* validate_activation_seed
Complete(k) == k.local # 0 /\ k.verify # 0

VARIABLES
  devices,     \* the file of active devices
  history,     \* the file of key histories
  seeds,       \* the file of activation seeds
  runtime,     \* entry.runtime_data.device_store, also hass.data's device_store
  setup,       \* the config entry: "none", "off", "reading", "noting",
               \* "wiring" or "up"
  fresh,       \* the store that a set-up has loaded
  bound,       \* the keys each lock is bound with
  cloud,       \* the generation of each lock's keys in the account
  task,        \* the running tasks
  mishaps,     \* new pairings, resets, removals and stops so far
  paired,      \* the keys we have paired each lock with
  accepted,    \* the keys that a connection check has found to be the lock's
  writer       \* who wrote the record of each lock last

vars == <<devices, history, seeds, runtime, setup, fresh, bound, cloud, task,
          mishaps, paired, accepted, writer>>

files == <<devices, history, seeds>>
entry == <<runtime, setup, fresh>>
world == <<bound, cloud, mishaps>>
ghost == <<paired, accepted, writer>>

Nothing == [m \in Mac |-> NoKeys]

Waiting == {"idle", "ended"}
Asking  == {"list", "keys", "ask", "keep", "merge"}
Adding  == {"choose", "saveSeed", "check", "latest", "enrol", "save"}
Pairing == {"candidates", "lock", "suspend", "pair"}
Others  == {"wait", "route", "reload", "reloading"}
Place   == {"load"} \union UNION {Waiting, Asking, Adding, Pairing, Others}
Kind    == {"none", "refresh", "refreshAll", "sync", "add", "activate",
            "confirm", "persist", "import", "route"}

(***************************************************************************)
(* A task: what it runs (an activation becomes "confirm" when the user     *)
(* confirms it and "persist" when it holds the lock's activation lock), for *)
(* which lock, its copy of the devices, what the cloud answered, the locks  *)
(* yet to ask or update, the keys chosen to pair or add, the active record  *)
(* found when it was prepared, whether its store is the running one,        *)
(* whether it holds the coordinator's _op_lock, and failed attempts.        *)
(***************************************************************************)
Tasks == [op : Kind, at : Place, mac : Mac \union {NoMac}, copy : [Mac -> Record],
          got : [Mac -> Record], todo : SUBSET Mac, seed : Record,
          was : Record, live : BOOLEAN, holds : BOOLEAN, tries : 0..2]

At(p) == [op |-> "none", at |-> p, mac |-> NoMac,
          copy |-> Nothing, got |-> Nothing, todo |-> {}, seed |-> NoKeys,
          was |-> NoKeys, live |-> FALSE, holds |-> FALSE, tries |-> 0]
Ended == At("ended")

\* What is left of a task that waits for the reload of the entry.
Reloading(r) == [At("reload") EXCEPT !.op = r.op, !.mac = r.mac, !.holds = r.holds]

\* Writers are tasks with what they run, or the removal of a device.
Nobody == <<NoTask, "none">>

Become(t, r) == task' = [task EXCEPT ![t] = r]
Go(t, p) == Become(t, [task[t] EXCEPT !.at = p])
IsAt(t, p) == task[t].at = p

(***************************************************************************)
(* The history of keys                                                     *)
(***************************************************************************)
Latest(h) == IF h = <<>> THEN NoKeys ELSE h[Len(h)]

\* DeviceKeyRegistry.async_remember: equal to the last entry, only last_seen.
Remembered(h, k) == IF k = Latest(h) THEN h ELSE Append(h, k)

Remember(m, k) == history' = [history EXCEPT ![m] = Remembered(@, k)]

\* async_remember(only_if_missing=True) for the locks of a loaded file.
RememberMissing(f) ==
  history' = [m \in Mac |-> IF history[m] = <<>>
                            THEN Remembered(history[m], f[m]) ELSE history[m]]

\* ActivationSeedStore.async_get_seed
SeedHistory(m) == IF history[m] = <<>> THEN Remembered(history[m], seeds[m])
                                       ELSE history[m]

(***************************************************************************)
(* Initially: a fresh installation without entry, or an upgrade to the     *)
(* version with a key history. Tasks start once set-up has filled it.      *)
(***************************************************************************)
Init ==
  /\ setup \in {"none", "off"}
  /\ devices \in [Mac -> {NoKeys, Generation(1)}]
  /\ seeds \in [Mac -> {NoKeys, Generation(1)}]
  /\ setup = "none" => devices = Nothing /\ seeds = Nothing
  /\ history = [m \in Mac |-> <<>>]
  /\ runtime = Nothing /\ fresh = Nothing
  /\ \A m \in Mac : NoKeys \in {devices[m], seeds[m]}
  /\ bound = [m \in Mac |-> IF devices[m] = NoKeys THEN seeds[m] ELSE devices[m]]
  /\ cloud = [m \in Mac |-> 1]
  /\ task = [t \in Task |-> At("idle")]
  /\ mishaps = 0
  /\ paired = [m \in Mac |-> {}] /\ accepted = [m \in Mac |-> {}]
  /\ writer = [m \in Mac |-> Nobody]

(***************************************************************************)
(* Locks taken                                                             *)
(***************************************************************************)
\* The activation lock of m is held until the entry has been reloaded.
Activating(m) == \E t \in Task : task[t].mac = m /\ task[t].op = "persist"

\* activation_persistence_lock is held for one attempt to save.
(* Mutant: only the save is under the lock, not the load before it.        *)
PersistingSaves == \E t \in Task : task[t].op = "persist" /\ IsAt(t, "save")

Persisting == \E t \in Task : /\ task[t].op = "persist"
                              /\ task[t].at \in {"enrol", "save"}

Held(m) == \E t \in Task : task[t].mac = m /\ task[t].holds

\* async_check_lock_connection waits for both and opens a session of its own.
Free(m) == ~Activating(m) /\ ~Held(m)

(***************************************************************************)
(* The lock, asked over a new connection for its device info               *)
(***************************************************************************)
Unbound(m) == bound[m] = NoKeys

\* async_check_binding: the lock knows its local key, and no other.
Accepts(m, k) == ~Unbound(m) /\ bound[m].local = k.local

(***************************************************************************)
(* Starting: buttons and the route need a lock that is set up, a local     *)
(* import needs that there is no entry yet.                                *)
(***************************************************************************)
Begin(t, o, m, p) ==
  /\ IsAt(t, "idle") /\ o \in Ops[t]
  /\ Become(t, [task[t] EXCEPT !.op = o, !.mac = m, !.at = p])
  /\ UNCHANGED <<files, entry, world, ghost>>

PressRefresh(t, m) ==
  setup = "up" /\ runtime[m] # NoKeys /\ Begin(t, "refresh", m, "load")

Reconfigure(t, m) == setup = "up" /\ Begin(t, "refreshAll", m, "load")

SyncCloud(t, m) == setup = "up" /\ Begin(t, "sync", m, "list")

\* Saved locks are offered at once, the first time after the account has been
\* imported.
SelectSaved(t, m) == \/ setup = "up" /\ Begin(t, "add", m, "choose")
                     \/ setup = "none" /\ Begin(t, "add", m, "list")

Discovered(t, m) == setup = "up" /\ Begin(t, "activate", m, "load")

SelectRoute(t, m) ==
  setup = "up" /\ runtime[m] # NoKeys /\ Begin(t, "route", m, "wait")

ImportLocal(t, m) ==
  /\ setup = "none" /\ "import" \in Ops[t] /\ IsAt(t, "idle")
  /\ \E g \in 1..MaxGen :
       Become(t, [task[t] EXCEPT !.op = "import", !.mac = m, !.at = "load",
                                 !.seed = Generation(g)])
  /\ UNCHANGED <<files, entry, world, ghost>>

(***************************************************************************)
(* Loading a store of one's own (DeviceStore.async_load): the file is      *)
(* read, then the records whose locks have no history are remembered. Once *)
(* a set-up has done so there are none, so that the two are one step here. *)
(***************************************************************************)
AfterLoad(r) ==
  LET active == r.copy[r.mac] IN
  CASE r.op = "refresh" /\ active = NoKeys -> "ended"
    [] r.op = "refresh" /\ active # NoKeys -> "ask"
    [] r.op = "refreshAll"                 -> "list"
    [] r.op = "add" /\ setup = "none"      -> "enrol"
    [] r.op = "add" /\ setup # "none"      -> IF active = NoKeys THEN "latest"
                                              ELSE "ended"
    [] r.op = "activate"                   -> "candidates"
    [] r.op = "confirm"                    -> IF active \in {NoKeys, r.was}
                                              THEN "lock" ELSE "ended"
    [] OTHER                               -> "enrol"

\* A task that is over forgets everything.
GoOn(t, r) == Become(t, IF r.at = "ended" THEN Ended ELSE r)

Load(t) ==
  LET r == [task[t] EXCEPT !.copy = devices] IN
  /\ IsAt(t, "load")
  /\ r.op = "persist" => ~Persisting
  /\ RememberMissing(devices)
  /\ GoOn(t, [r EXCEPT !.at = AfterLoad(r)])
  /\ UNCHANGED <<devices, seeds, entry, world, ghost>>

(***************************************************************************)
(* The cloud: one lock (async_refresh_one_device)                          *)
(***************************************************************************)
Answers(m, g) == {Generation(g), [local |-> g, verify |-> 0]}

\* The lock's keys, without the verify key when that request is refused, or
\* none when the account does not have the lock.
AskCloud(t) ==
  LET m == task[t].mac IN
  /\ IsAt(t, "ask")
  /\ \E k \in Answers(m, cloud[m]) \union {NoKeys} :
       Become(t, [task[t] EXCEPT !.got[m] = k, !.todo = {m},
                                 !.at = IF k = NoKeys THEN "merge" ELSE "keep"])
  /\ UNCHANGED <<files, entry, world, ghost>>

Keep(t) ==
  /\ IsAt(t, "keep")
  /\ Remember(task[t].mac, task[t].got[task[t].mac])
  /\ Go(t, "merge")
  /\ UNCHANGED <<devices, seeds, entry, world, ghost>>

\* A fetch that fails is no error of the button: it reloads all the same.
FetchFails(t) ==
  /\ task[t].at \in {"ask", "keep"}
  /\ Become(t, Reloading(task[t]))
  /\ UNCHANGED <<files, entry, world, ghost>>

(***************************************************************************)
(* The cloud: the account (async_sync_cloud_inventory)                     *)
(***************************************************************************)
ListAccount(t) ==
  /\ IsAt(t, "list")
  /\ \/ Become(t, Ended)
     \/ Become(t, [task[t] EXCEPT
          !.got = [m \in Mac |-> [local |-> cloud[m], verify |-> 0]],
          !.at = "keys"])
  /\ UNCHANGED <<files, entry, world, ghost>>

\* What an import of the account leads to.
Imported(r) ==
  LET told == {m \in Mac : r.copy[m] # NoKeys /\ r.got[m] # NoKeys} IN
  CASE r.op = "add" -> [r EXCEPT !.got = Nothing, !.at = "choose"]
    [] r.op = "refreshAll" /\ told # {} ->
         [r EXCEPT !.todo = told, !.at = "merge"]
    [] r.op = "refreshAll" /\ told = {} -> Reloading(r)
    [] r.op = "activate" /\ Complete(r.got[r.mac]) ->
         [r EXCEPT !.seed = r.got[r.mac], !.at = "saveSeed"]
    [] OTHER -> Ended

\* The listed record of a lock is remembered, then what the keys request
\* adds; a lock whose keys cannot be had is marked and left alone. The locks,
\* which are asked one by one, are one step here: all it does is remember.
ImportAccount(t) ==
  LET listed == task[t].got IN
  /\ IsAt(t, "keys")
  /\ \E answer \in [Mac -> {"all", "partial", "error"}] :
       LET got == [m \in Mac |-> CASE answer[m] = "all"     -> Generation(cloud[m])
                                  [] answer[m] = "partial" -> listed[m]
                                  [] answer[m] = "error"   -> NoKeys]
           h(m) == Remembered(history[m], listed[m])
       IN /\ history' = [m \in Mac |-> IF got[m] = NoKeys THEN h(m)
                                        ELSE Remembered(h(m), got[m])]
          /\ Become(t, Imported([task[t] EXCEPT !.got = got]))
  /\ UNCHANGED <<devices, seeds, entry, world, ghost>>

\* _refresh_one: what the cloud did not tell stays as it was.
Merged(new, old) ==
  [local  |-> IF new.local # 0 THEN new.local ELSE old.local,
   verify |-> IF new.verify # 0 THEN new.verify ELSE old.verify]

(* Mutant: the merged record is saved and not remembered.                  *)
MergeUnremembered(t, m) ==
  LET k == Merged(task[t].got[m], task[t].copy[m]) IN
  /\ IsAt(t, "merge") /\ m \in task[t].todo
  /\ Become(t, [task[t] EXCEPT !.copy[m] = k, !.todo = @ \ {m}, !.at = "save"])
  /\ UNCHANGED <<files, entry, world, ghost>>

\* DeviceStore.async_update_device remembers before it changes the copy.
Merge(t, m) ==
  LET k == Merged(task[t].got[m], task[t].copy[m]) IN
  /\ IsAt(t, "merge") /\ m \in task[t].todo
  /\ Remember(m, k)
  /\ Become(t, [task[t] EXCEPT !.copy[m] = k, !.todo = @ \ {m}, !.at = "save"])
  /\ UNCHANGED <<devices, seeds, entry, world, ghost>>

(***************************************************************************)
(* DeviceStore.async_save of the whole copy, or of the running store. The  *)
(* others then reload the entry, or create it.                             *)
(***************************************************************************)
Store(t) == IF task[t].live THEN runtime ELSE task[t].copy

Write(f, w) ==
  /\ devices' = f
  /\ writer' = [m \in Mac |-> IF f[m] # devices[m] THEN w ELSE writer[m]]

Save(t) ==
  LET r == task[t] IN
  /\ IsAt(t, "save")
  /\ Write(Store(t), <<t, r.op>>)
  /\ Become(t, CASE r.op = "route" -> Ended
                 [] r.todo # {}    -> [r EXCEPT !.at = "merge"]
                 [] OTHER          -> Reloading(r))
  /\ UNCHANGED <<history, seeds, entry, world, paired, accepted>>

\* The devices with the lock's record made of the keys that were chosen.
WithRecord(r) == [r.copy EXCEPT ![r.mac] = r.seed]

\* DeviceStore.async_add_device
Enrol(t) ==
  LET r == task[t] IN
  /\ IsAt(t, "enrol")
  /\ Remember(r.mac, r.seed)
  /\ Become(t, [r EXCEPT !.copy = WithRecord(r), !.at = "save"])
  /\ UNCHANGED <<devices, seeds, entry, world, ghost>>

(***************************************************************************)
(* Adding a saved lock (async_step_saved_locks, async_step_connection_     *)
(* check, _async_auto_add_device): its latest keys are checked with the    *)
(* lock, and checked again if they are no longer the latest when added.    *)
(***************************************************************************)
\* async_inventory also takes up the seeds of before the history. Loading the
\* active devices besides only reads (see Load).
Choose(t) ==
  LET m == task[t].mac
      h == [x \in Mac |-> SeedHistory(x)]
  IN /\ IsAt(t, "choose")
     /\ history' = h
     /\ Become(t,
          CASE devices[m] = NoKeys /\ Complete(Latest(h[m])) ->
                 [task[t] EXCEPT !.seed = Latest(h[m]), !.at = "saveSeed"]
            [] setup = "none" /\ ~Complete(Latest(h[m])) -> Reloading(task[t])
            [] OTHER -> Ended)
     /\ UNCHANGED <<devices, seeds, entry, world, ghost>>

\* The user confirms an activation that is prepared: the devices are loaded
\* again, and it ends if the active record of the lock is no longer the same.
Confirming(r) == [r EXCEPT !.op = "confirm", !.at = "load", !.got = Nothing]

\* ActivationSeedStore.async_save_seed
SaveSeed(t) ==
  LET r == task[t] IN
  /\ IsAt(t, "saveSeed")
  /\ Remember(r.mac, r.seed)
  /\ seeds' = [seeds EXCEPT ![r.mac] = r.seed]
  /\ Become(t, IF r.op = "add" THEN [r EXCEPT !.at = "check"] ELSE Confirming(r))
  /\ UNCHANGED <<devices, entry, world, ghost>>

\* async_step_connection_check
CheckBinding(t) ==
  LET r == task[t]  m == task[t].mac IN
  /\ IsAt(t, "check") /\ Free(m)
  /\ \/ /\ Accepts(m, r.seed)
        /\ Go(t, "load")
        /\ accepted' = [accepted EXCEPT ![m] = @ \union {r.seed}]
     \/ /\ Unbound(m)
        /\ Become(t, IF setup = "none" THEN Reloading(r)
                     ELSE [r EXCEPT !.op = "activate", !.at = "load"])
        /\ UNCHANGED accepted
     \/ Become(t, Ended) /\ UNCHANGED accepted
  /\ UNCHANGED <<files, entry, world, paired, writer>>

(* Mutant: the latest keys are added, whichever were checked.              *)
ReseedUnchecked(t) ==
  LET m == task[t].mac
      k == Latest(SeedHistory(m))
  IN /\ IsAt(t, "latest")
     /\ history' = [history EXCEPT ![m] = SeedHistory(m)]
     /\ GoOn(t, [task[t] EXCEPT !.seed = k,
                  !.at = IF Complete(k) THEN "enrol" ELSE "ended"])
     /\ UNCHANGED <<devices, seeds, entry, world, ghost>>

\* async_get_seed, and the comparison with what was checked.
Reseed(t) ==
  LET m == task[t].mac
      k == Latest(SeedHistory(m))
  IN /\ IsAt(t, "latest")
     /\ history' = [history EXCEPT ![m] = SeedHistory(m)]
     /\ GoOn(t, [task[t] EXCEPT !.seed = k,
                  !.at = CASE ~Complete(k)       -> "ended"
                           [] k # task[t].seed   -> "check"
                           [] OTHER              -> "enrol"])
     /\ UNCHANGED <<devices, seeds, entry, world, ghost>>

(***************************************************************************)
(* Activation (_async_prepare_activation, async_step_confirm_new_device,   *)
(* async_activate_lock): keys at hand, of the active record first, else    *)
(* from the cloud; the user confirms; the lock is paired; the record saved.*)
(***************************************************************************)
Candidates(t) ==
  LET m == task[t].mac
      mine == task[t].copy[m]
      saved == Latest(SeedHistory(m))
  IN /\ IsAt(t, "candidates")
     /\ history' = [history EXCEPT ![m] = SeedHistory(m)]
     /\ Become(t, LET r == [task[t] EXCEPT !.was = mine,
                               !.seed = IF Complete(mine) THEN mine ELSE saved]
                  IN IF Complete(r.seed) THEN Confirming(r)
                                         ELSE [r EXCEPT !.at = "list"])
     /\ UNCHANGED <<devices, seeds, entry, world, ghost>>

\* The activation lock, then the check that the files can be read.
TakeLock(t) ==
  /\ IsAt(t, "lock") /\ ~Activating(task[t].mac)
  /\ Become(t, [task[t] EXCEPT !.op = "persist", !.at = "suspend",
                               !.copy = Nothing, !.was = NoKeys])
  /\ UNCHANGED <<files, entry, world, ghost>>

\* The coordinator, if there is one, is suspended until the entry is reloaded.
Suspend(t) ==
  LET m == task[t].mac IN
  /\ IsAt(t, "suspend") /\ ~Persisting /\ ~Held(m)
  /\ Become(t, [task[t] EXCEPT !.holds = runtime[m] # NoKeys, !.at = "pair"])
  /\ UNCHANGED <<files, entry, world, ghost>>

\* PAIR, sent to a lock that says it is unbound, then reading back whether it
\* is bound. It may have bound itself and the reading fail.
PairLock(t) ==
  LET m == task[t].mac IN
  /\ IsAt(t, "pair")
  /\ \/ /\ Unbound(m)
        /\ bound' = [bound EXCEPT ![m] = task[t].seed]
        /\ paired' = [paired EXCEPT ![m] = @ \union {task[t].seed}]
        /\ \/ Go(t, "load")
           \/ Become(t, Ended)
     \/ Become(t, Ended) /\ UNCHANGED <<bound, paired>>
  /\ UNCHANGED <<files, entry, cloud, mishaps, accepted, writer>>

(***************************************************************************)
(* A file cannot be read or written: the task gives up, an activation      *)
(* whose lock is paired after three attempts.                              *)
(***************************************************************************)
Storing == {"load", "keys", "candidates", "merge", "enrol", "save", "saveSeed",
            "choose", "latest", "route"}

(* Mutant: one attempt too many.                                           *)
StorageFailsOnceMore(t) ==
  LET r == task[t] IN
  /\ r.at \in Storing
  /\ Become(t, IF r.op = "persist" /\ r.tries < 3
               THEN [r EXCEPT !.tries = @ + 1, !.at = "load"] ELSE Ended)
  /\ UNCHANGED <<files, entry, world, ghost>>

StorageFails(t) ==
  LET r == task[t] IN
  /\ r.at \in Storing
  /\ Become(t, IF r.op = "persist" /\ r.tries < 2
               THEN [r EXCEPT !.tries = @ + 1, !.at = "load"] ELSE Ended)
  /\ UNCHANGED <<files, entry, world, ghost>>

(***************************************************************************)
(* The route of a lock: async_set_bluetooth_source updates the record in   *)
(* the running store. A set-up that ends meanwhile leaves it with a store  *)
(* that nobody else uses any more.                                         *)
(***************************************************************************)
TakeRoute(t) ==
  /\ IsAt(t, "wait") /\ setup = "up" /\ ~Held(task[t].mac)
  /\ Become(t, [task[t] EXCEPT !.live = TRUE, !.holds = TRUE, !.at = "route"])
  /\ UNCHANGED <<files, entry, world, ghost>>

UpdateRoute(t) ==
  LET m == task[t].mac  k == Store(t)[m] IN
  /\ IsAt(t, "route")
  /\ IF k = NoKeys THEN Become(t, Ended) /\ UNCHANGED history
                   ELSE Go(t, "save") /\ Remember(m, k)
  /\ UNCHANGED <<devices, seeds, entry, world, ghost>>

(***************************************************************************)
(* Set-up, reload and removal                                              *)
(***************************************************************************)
(* Mutant: a set-up that is under way is taken for the task's own.         *)
ReloadJoins(t) ==
  /\ IsAt(t, "reload")
  /\ setup' = IF setup \in {"none", "off", "up"} THEN "reading" ELSE setup
  /\ Go(t, "reloading")
  /\ UNCHANGED <<files, runtime, fresh, world, ghost>>

\* async_reload waits for a set-up that is under way, then starts its own.
Reload(t) ==
  /\ IsAt(t, "reload") /\ setup \in {"none", "off", "up"}
  /\ setup' = "reading"
  /\ Go(t, "reloading")
  /\ UNCHANGED <<files, runtime, fresh, world, ghost>>

Reloaded(t) ==
  /\ IsAt(t, "reloading") /\ setup \in {"off", "up"}
  /\ Become(t, Ended)
  /\ UNCHANGED <<files, entry, world, ghost>>

SetupReads ==
  /\ setup \in {"off", "reading"}
  /\ fresh' = devices /\ setup' = "noting"
  /\ UNCHANGED <<files, runtime, world, task, ghost>>

SetupNotes ==
  /\ setup = "noting"
  /\ RememberMissing(fresh) /\ setup' = "wiring"
  /\ UNCHANGED <<devices, seeds, runtime, fresh, world, task, ghost>>

\* New coordinators have new locks; the store of the old ones is left to them.
SetupEnds ==
  /\ setup = "wiring"
  /\ runtime' = fresh /\ setup' = "up" /\ fresh' = Nothing
  /\ task' = [t \in Task |->
               [task[t] EXCEPT !.holds = FALSE, !.live = FALSE,
                  !.copy = IF task[t].live THEN runtime ELSE task[t].copy]]
  /\ UNCHANGED <<files, world, ghost>>

SetupFails ==
  /\ setup \in {"noting", "wiring"}
  /\ setup' = "off" /\ fresh' = Nothing
  /\ UNCHANGED <<files, runtime, world, task, ghost>>

Mishap == mishaps < MaxMishaps /\ mishaps' = mishaps + 1

\* async_remove_config_entry_device, whose save may fail.
RemoveDevice(m) ==
  /\ setup = "up" /\ runtime[m] # NoKeys
  /\ runtime' = [runtime EXCEPT ![m] = NoKeys]
  /\ \/ Write(runtime', <<NoTask, "remove">>)
     \/ /\ devices' = devices
        /\ writer' = [writer EXCEPT ![m] = <<NoTask, "remove">>]
  /\ Mishap
  /\ UNCHANGED <<history, seeds, setup, fresh, bound, cloud, task, paired, accepted>>

(***************************************************************************)
(* Outside: the app pairs a lock anew, a lock is reset, Home Assistant     *)
(* stops.                                                                  *)
(***************************************************************************)
AppPairs(m) ==
  /\ cloud[m] < MaxGen
  /\ cloud' = [cloud EXCEPT ![m] = @ + 1]
  /\ bound' = [bound EXCEPT ![m] = Generation(cloud[m] + 1)]
  /\ Mishap
  /\ UNCHANGED <<files, entry, task, ghost>>

ResetLock(m) ==
  /\ bound[m] # NoKeys
  /\ bound' = [bound EXCEPT ![m] = NoKeys]
  /\ Mishap
  /\ UNCHANGED <<files, entry, cloud, task, ghost>>

Crash ==
  /\ Mishap
  /\ task' = [t \in Task |-> IF IsAt(t, "idle") THEN task[t] ELSE Ended]
  /\ setup' = IF setup = "none" THEN "none" ELSE "off"
  /\ runtime' = Nothing /\ fresh' = Nothing
  /\ UNCHANGED <<files, bound, cloud, ghost>>

\* No task is under way: the only reason why nothing happens any more.
Over == (\A t \in Task : task[t].at \in Waiting) /\ UNCHANGED vars

Starts(t) == \E m \in Mac : \/ PressRefresh(t, m) \/ Reconfigure(t, m) \/ SyncCloud(t, m)
                            \/ SelectSaved(t, m) \/ Discovered(t, m)
                            \/ SelectRoute(t, m) \/ ImportLocal(t, m)

Cloud(t) == \/ AskCloud(t) \/ Keep(t) \/ FetchFails(t) \/ ListAccount(t)
            \/ ImportAccount(t) \/ (\E m \in Mac : Merge(t, m))

Flow(t) == \/ Choose(t) \/ SaveSeed(t) \/ CheckBinding(t) \/ Reseed(t)
           \/ Candidates(t) \/ TakeLock(t) \/ Suspend(t) \/ PairLock(t)

Storage(t) == \/ Load(t) \/ Enrol(t) \/ Save(t) \/ StorageFails(t)
              \/ TakeRoute(t) \/ UpdateRoute(t) \/ Reload(t) \/ Reloaded(t)

Entry == \/ SetupReads \/ SetupNotes \/ SetupEnds \/ SetupFails
         \/ (\E m \in Mac : RemoveDevice(m))

World == Crash \/ (\E m \in Mac : AppPairs(m) \/ ResetLock(m))

Next == \/ \E t \in Task : Starts(t) \/ Cloud(t) \/ Flow(t) \/ Storage(t)
        \/ Entry \/ World \/ Over

Spec == Init /\ [][Next]_vars

(***************************************************************************)
(* Properties                                                              *)
(***************************************************************************)

\* Every file, store and task holds what it should; an activation tries to
\* save at most three times (activation.py:161-173).
KeysTypeOK ==
  /\ devices \in [Mac -> Record] /\ seeds \in [Mac -> Record]
  /\ history \in [Mac -> Seq(Record)]
  /\ runtime \in [Mac -> Record] /\ fresh \in [Mac -> Record]
  /\ setup \in {"none", "off", "reading", "noting", "wiring", "up"}
  /\ bound \in [Mac -> Record] /\ cloud \in [Mac -> 0..MaxGen]
  /\ task \in [Task -> Tasks]
  /\ mishaps \in 0..MaxMishaps
  /\ paired \in [Mac -> SUBSET Record] /\ accepted \in [Mac -> SUBSET Record]
  /\ writer \in [Mac -> (Task \union {NoTask}) \X (Kind \union {"remove"})]

\* The ledger of docs/integration.md: no lock is paired with keys, and no keys
\* are in use, that the history does not have, and the history only grows
\* (device_store.py:86-93, 103-122).
Ledger == INSTANCE KeyLedger WITH
            Keys <- Record, known <- history, inUse <- runtime
LedgerKept == Ledger!Spec

\* An activation that saves its record leaves those of other activations
\* alone, although it writes them all: it loads and saves under the lock that
\* all activations share (activation.py:164-167).
ActivationsSurvive ==
  [][\A t \in Task :
       task[t].op = "persist" /\ task[t].at = "save" /\ task'[t].at = "reload"
       => \A m \in Mac \ {task[t].mac} :
            writer[m][2] = "persist" => devices'[m] = devices[m]]_vars

\* A saved lock is added with keys that the lock itself has accepted, not with
\* keys that came to be the latest meanwhile (config_flow.py:408-413).
ImportsWereChecked ==
  [][\A t \in Task :
       task[t].op = "add" /\ task[t].at = "save" /\ task'[t].at = "reload"
       => devices'[task[t].mac] \in accepted'[task[t].mac]]_vars

\* When a task has reloaded the entry, the integration uses the record it has
\* written, unless another one has written a record of that lock since
\* (activation.py:176-183, config_flow.py:444).
ReloadedIsInUse ==
  [][\A t \in Task :
       task[t].at = "reloading" /\ task'[t].at = "ended" /\ setup = "up"
       => \A m \in Mac : writer[m] = <<t, task[t].op>>
                           => runtime[m] = devices[m]]_vars
=============================================================================
