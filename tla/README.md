# Verification of Tuya BLE Access

TLA+ models of the Home Assistant integration `tuya_ble_access`, which drives
Tuya Bluetooth locks without their cloud, with TLC model checks and TLAPS proofs.
Paths below are relative to `src/custom_components/tuya_ble_access/`.

## The system

All code runs in one asyncio event loop. Between two awaits a task is atomic;
at every await any other task may run. What is hard here is therefore not
parallelism but *what changes during an await*: the other coordinators share one
credential store, services and the coordinator share one Bluetooth session, and
the lock acts on its own, repeats its reports and loses its replies.

| Component | State | Operations | What makes it correct |
|---|---|---|---|
| Temporary PINs (`credential_store.py`, `temp_password_cleanup.py`, `temp_password_pause.py`, parts of `services.py`) | records with `superseded_at`, `removed_at`, `pause_state`; the store file | create, pause, resume, clean-up of expired PINs on every connection, archive, factory-reset report | the archive and the pause state are true of the lock; clean-up never deletes a valid PIN; expired PINs are archived eventually |
| Unlock reports (`coordinator.py` `_process_dp_reports`, `unlock_attribution.py`, `sensor.py`) | duplicate filter, motor evidence, open commands, last-unlock fields, history | motor values, event records, unlock commands, restart with a restored baseline | one announcement, the right identity, the newest owner |
| Members, credentials, credential pause (`credential_store.py`, `credential_pause.py`, `services.py`) | member and credential records | enrol, register, delete, clear, report a reset, pause, resume | one record for each slot, of a member that exists; what was reported as enrolled stays recorded; the pause state is true; nothing is forgotten that the lock still has |
| BLE session (`ble_session.py`) | client, keys, notification buffer, `is_connected` | connect (pair, key exchange), request and reply, collect, disconnect, shut down | no link after shutdown, replies go to their request, no report lost |
| Coordinator (`coordinator.py`) | `_op_lock`, idle timer, listener, keep-alive, cool-downs | operations, polling, idle disconnect, stop | operations end, an operation is not cut off by a timer |
| Event flag (`event_flag.py`, `event_collect.py`) | last level, last trigger | update per advertisement, drain | what the lock has recorded is fetched |
| Device keys (`device_store.py`, `activation.py`, `tuya_cloud.py`, `config_flow.py`, `__init__.py`) | the file of devices, the histories of keys, the activation seeds, the running store | import, add, refresh, activate, remove, reload | keys are never lost once a lock was paired with them; a saved lock is added with keys it has accepted |
| Protocol, crypto, commands (`ble_protocol.py`, `ble_crypto.py`, `ble_commands.py`) | none | frames, fragments, KLV | reassembly inverts splitting |
| Times and schedules (`credential_time.py`, `credential_schedule.py`) | none | conversion of local times | folds and gaps are refused |
| Migration (`migration.py`), entities, forms | wiring and views | | |

Interactions: services hold the global lock `credential_operations` and talk to
the session of one coordinator; those for temporary PINs also take `_op_lock`
and `_temp_password_lock`, the others bypass them and hang up at the end. Every
connection of a coordinator runs the clean-up. The session hands datapoint
reports to `_process_dp_reports` synchronously; whoever waits for a reply, the
handshake and the listener all take from one notification buffer. Flows, buttons
and services load copies of the device file of their own, save them whole and
reload the entry.

## Modules

| Module | Content |
|---|---|
| `TempPasswords` | temporary PINs, store, clean-up, services, slots of the locks |
| `MCTempPasswords` | its small instances (symmetry) |
| `TempPasswordsProofs`, `TempPasswordsIssued`, `TempPasswordsPause` | its theorems (types and the archive; issued PINs; slots and pauses), each extending the one before |
| `UnlockReports` | unlock records, motor values, commands, restarts |
| `MCUnlockReports` | its small instances |
| `UnlockReportsProofs` | its theorems |
| `LockLink` | the Bluetooth link of one lock: who connects, hangs up, waits, is cancelled |
| `MCLockLink` | its small instances |
| `LockLinkProofs` | its theorems |
| `ReportDelivery` | the notification buffer of a session: operations, services, handshakes and the listener that share it, acknowledgements |
| `MCReportDelivery`, `ReportDeliveryProofs` | its small instance, its theorems |
| `KeyLedger` | abstract: what is promised of the keys of locks |
| `DeviceKeys` | the files of keys and everybody who writes them; implements `KeyLedger` |
| `MCDeviceKeys`, `DeviceKeysProofs` | its small instance, its theorems with the refinement |
| `Credentials` | members, credentials, pause; the slots of the locks |
| `MCCredentials`, `CredentialsProofs` | its small instances, its theorems |

### TempPasswords

`mem` and `disk` are the dict of temporary passwords and the file; a save is a
step of its own, may fail before or after the file was replaced, and may be cut
off by a restart (`mem' = disk`). `svc` is the credential service call in
progress with its position between two awaits, `cln[l]` the clean-up of a lock,
`opLock`, `tempLock` the two asyncio locks, `link` and `cool` the connection and
the 60 s cool-down. `grant`, `onLock`, `suspended` are the lock: which PIN is in
which slot until when, and whether the no-weekdays schedule applies to it. The
lock frees a slot only by a deletion, by forgetting an expired PIN or by a
physical reset, and never gives an occupied slot to a new PIN. `issued`, `void`
and `used` are ghosts.

An action is one stretch of code between two awaits: `PersistIntent` is
`async_set_paused` up to the first save, `PauseConfirmed` from the reply to the
second save, and so on. A create and a reset put the *whole* dict back when
their save fails; a pause and an archive only their own record. This difference
is modelled (`CallSaveFailed`, `ArchiveSaveFailed`), down to whether the archived
record object is still the one in the dict: `copied` says whether rollbacks have
replaced it never, once or more often.

### UnlockReports

`_process_dp_reports` has no await, so each datapoint is one action:
`RecordArrives` (a duplicate, or a new record with everything it changes) and
`MotorArrives`. The lock holds its records and sends each any number of times in
any order while connected; motor values arrive in order and are lost with the
link. `requests` is the list of `UnlockAttribution`, `keys` the duplicate filter
with its eviction, `last` the record behind the `last_unlock_*` fields. A restart
saves what the sensor shows and `Seed` puts it back some time later: connections
start before the sensor is added. A record may overtake the motor value of its own
unlock, and may be so late that it is history (older than `LiveAge`, and no motor run
waits for a record). The ghost `burst` holds the live records since a motor run was
last given its record: what `NewestOwnsFields` compares the fields with.

Invalid identities (user 0), alarm records, names and the remaining datapoints
are left out, as is a wrong lock clock: records bear the time of the unlock, and
only their delay makes them old.

### LockLink

The tasks are `Operation` (whatever runs under `_op_lock`: sweep, status, lock and
unlock commands, the session for an event flag, temporary PINs), the keep-alive
among them, `Service` (credential services, which do not take `_op_lock`),
`Suspender` (activation, connection check, change of the route), the idle timer and
the unloading of the entry. `pc[t]` is the await a task is in, `connLock` and
`opLock` the two asyncio locks, `client` and `connected` are `_client` and
`is_connected`, `open` the links that really exist. `async_disconnect` takes no lock
and reads `_client` anew after its first await: `StopNotified` and `Disconnected` are
its two ends, `at[t]` the client it acts on, and `open` may keep a link that `client`
has forgotten. An attempt is `Attempt`, `Established`, `Notified`, `Greeted`,
`Paired`, each of which may fail into `Retry`. `cancelled` are the tasks whose await
raises `CancelledError` (`Unwind`), `awaited` those `async_shutdown` gathers. A new
client gets a name nothing refers to any more; which one makes no difference.
Requests and reports on the link, keys, and the session that an activation makes
for itself are left out, the listener as well: `ReportDelivery` has it.

### ReportDelivery

Three tasks share `buf`, the notification buffer: an operation of the coordinator
(`op`, under `_op_lock`), a credential service (`service`, which does not take it)
and the listener. `task[t].at` is the await a task is in, `queue` the fair
`asyncio.Lock` that `_send_recv`, `_collect` and the listener take, `due` what the
lock still has to answer. Taking frames (`Takes`), answering the time requests and
acknowledgements among them (`Answer`) and passing them on (`Dispatch`) are steps
of their own with awaits in between, as in `_handle_time_requests`. A part of a
call (`Part`) is a datapoint with its reply, a status query, a collection, the
window of an event session (`drain`) or a long transfer, and `Continues` says what
comes after it; an event session goes through `drain`, `query` and `collect`.
`Fails` is a write that raises, on every path that has one, whether the link has
gone or `is_connected` still says that it is there: `_fetch_status` catches it and
goes on to its collection, a service hangs up, every other operation and the
listener end without `_reset_idle_timer` and `_start_listener`. The ghost `deaf` marks
a link that such a failure has left without a listener. Lock and unlock commands
are no kind of their own: they write without waiting for a reply and go on with the
status (`query`); when the write raises they clear `is_connected` and connect again.

Frames are whole and decoded with the keys of their link. The lock holds back the
next record until the one before is acknowledged and repeats that one about every
six seconds, so that a copy that was taken is answered before the next one comes.
Retries of a connection are in
`LockLink`, the clean-up after it in `TempPasswords`. `lost` are records that were
acknowledged and then dropped by design or by a failed write: the ghost states
exactly the exceptions of `AcknowledgedIsKept`.

### DeviceKeys and KeyLedger

`devices`, `history` and `seeds` are the files of `DeviceStore`,
`DeviceKeyRegistry` and `ActivationSeedStore`; `runtime` is the store of the
running integration. A record is abstracted to the generations of two of its keys,
the local one and the verify key that the cloud may withhold: enough to tell
complete from incomplete, old from new and mixed records. `bound` is what a lock is
really bound with, `cloud` what the account knows.

A task runs one of the flows, `at` the await it is in: refresh of a lock or all of
them, account synchronisation, addition of a saved lock (`choose`, `saveSeed`,
`check`, `latest`, `enrol`, `save`), activation (`candidates`, then *prepared*,
confirmed, `lock`, `suspend`, `pair`, `enrol`, `save`), import of local keys, change
of the route. `copy` is its own copy of the whole file, and `Save` writes all of it
(`Write`). Storage may fail at every load and save (`StorageFails`); an activation
then repeats its save up to three times. A set-up is `SetupReads`, `SetupNotes`,
`SetupEnds`, with awaits between. The environment pairs a lock anew in the app,
resets it, or stops Home Assistant (`Crash`).

`KeyLedger` is the abstract promise of `docs/integration.md:66-84`: histories are
only added to; a lock is paired with, and the integration runs on, keys of the
history only. `DeviceKeys` maps `history`, `runtime` and `paired` to it.

### Credentials

`mem`, `disk`, `slot` are the store, its file and the slots of the locks; `call` is
the credential service in progress: `credential_operations` lets one run at a time,
but it interleaves at each request and save with what happens at the locks
(`EnrolAtLock`, `RemoveAtLock`, `FactoryReset`), with saves of the same file by
others (`OthersSave`: `update_access`, temporary PINs and their clean-up) and with
a stop. `prev` is what a failing save puts back. Factory-reset report and the two
saves of a pause restore, the others do not: `RollsBack`. A request may raise
before or after the lock has acted (`Raises`). A record's `of` is a ghost: the
credential it was made for.

`add_pin`'s list of devices is refused by its schema, so that a call has one lock.
Labels, persons, remembered PINs and the calendar of a permanent validity are left
out. `_async_read_fingerprint_records` takes any frame of datapoint 54 for an
answer; `CutShort` says whether a link can be lost between the summary and the list.

## Runs

| Run | Shows | Bounds |
|---|---|---|
| `temp_restart` | `TypeOK`, `ArchivedIsGone`, `PauseStateTrue`, `IssuedPinStays` | one lock and slot, two PINs after each other, one tick, one restart: an expiry, a reuse of the slot and a crash between any two steps |
| `temp_two_locks` | `IssuedIsKnown`, `OneCurrentPerSlot` | two locks share the store, two PINs: a failed save on one during the clean-up of the other |
| `temp_live` | `ExpiredIsArchived` | one lock and slot, two PINs that expire at once |
| `reports_events` | `AnnouncedOnceEach`, `NoStaleIdentity`, `OneReportPerCommand`, `FailedStaysOut`, `ConfirmedOnce` | two unlocks by phone or command, two commands that may overlap, four ticks; a motor run may wait for one tick, a command counts for one and expires after two, a record is live for two |
| `reports_order` | `ReportsTypeOK`, `NewestOwnsFields` | three unlocks, a filter of one key, three ticks, a record is live for one: live and history records mixed, before or after their motor values |
| `reports_restart` | `SeededStaysQuiet` | two unlocks, by phone or fingerprint, one restart, four ticks, a record is live for two |
| `link_safe` | `TypeOK`, `ConnectedIsBacked`, `NothingAfterShutdown` | an operation, a service for several credentials, a suspension, the idle timer and the unloading; two attempts, three clients |
| `link_live` | `ServicesEnd`, `PersistentReturns` | the keep-alive and a service, switched on and off once, one attempt, two clients |
| `delivery` | `TypeOK`, `AcknowledgedIsKept`, `SomeoneListens`, `RepliesStay`, `RecordsArrive` | one record; an operation that sends a datapoint or drains, queries and collects; a service with long transfers; the link drops at every step, a write fails at every one, on a link that stays or not |
| `keys` | `KeysTypeOK`, `LedgerKept`, `ActivationsSurvive`, `ImportsWereChecked`, `ReloadedIsInUse` | two locks that are alike, two generations of keys, a flow (add, activate, import) beside one that activates, refreshes, synchronises or changes the route; one mishap (new pairing, reset, removal or stop); a set-up that is first or reads a file of an earlier version |
| `credentials` | `TypeOK`, `RecordsAreSound`, `CredentialPauseTrue`, `EnrolledIsRecorded`, `GoneBeforeForgotten` | one lock, fingerprints, two slots, two names for one member number, two ids, two changes at the lock, one stop |
| `credentials_summary` | `GoneBeforeForgotten` is *violated* when a link may be lost after the summary of a list | as `credentials` |

The bounds are the number of locks, slots, PINs, unlocks and commands,
`MaxTime`, `MaxCrashes`, `MaxRestarts` and `MaxPush` (motor values in flight).
Two PINs in one slot are enough for every hazard about slot reuse; a third would
only repeat the second. The time windows of the reports are in the order they have
in the source (1, 5, 20, 30 and 300 s), though some coincide: with one tick or two
each, shorter than the run of three or four, so that a report may be in time for one
or too late for all of them, and the live window is left in every run.

Larger instances were run outside the set of runs, for longer than it allows, and
hold: `credentials` with two locks (371,000 states), two kinds (467,000), three ids
(200,000), two names and two members (2.5 million); `delivery` with two records
(4.7 and 5.8 million). In `keys` loading a file and importing an account are atomic.
`ActivationsSurvive` and `ReloadedIsInUse` need two writers, which the two tasks are;
a third one is one more of them.

### Fairness

`temp_live` assumes weak fairness of the tasks (the event loop runs them) and of
the end of the cool-down, and strong fairness of a coordinator connecting (the
hourly sweep), of a deletion being answered while connected, and of a save
succeeding: a disk that never accepts a write or a lock that never answers would
keep the code pending for ever, and rightly so. Nothing is assumed about links:
they may drop at every step.

`link_live` assumes that every await ends (each has a timeout in the code or in the
library), that asyncio locks are fair, that the lock ends a link by itself (the
comment in `_keepalive_loop` says so), that timers fire and that the keep-alive
loop looks at `is_connected` again and again. Nobody has to call a service, to
connect successfully or to unload. `PersistentReturns` has the premise `InReach`:
from some time on attempts succeed, links stay up during the handshake and no more
services are called; without the last one, services that always come at the wrong
moment keep the link down for ever.

`delivery` assumes of the lock that, connected and not answered, it sends its
record again, and of the listener that its timer fires and its writes end.
Only the steps that succeed are fair: a write of the listener may also raise.
`RecordsArrive` has the premise `Quiet`, that from some time on the link stays, no
call runs, and no failed write has left the link without a listener (`deaf`): the
interesting case is the record that arrives after the last call. Before that, calls
may begin, hang or fail, and links come and go, in any order; a call that fails on a
link that stays is made good by the next operation that is completed. Without the
last part of the premise it does not hold, see the next section.

### What does not hold

`credentials_summary` shows a disagreement with the comment at `services.py:1160-1161`,
"a slot is deleted only if it is genuinely gone afterwards", and with
`docs/credential-management.md:18`, "HA keeps the record until the lock confirms": when the link is lost between the
summary frame and the list, `_async_read_fingerprint_records` takes the summary for
an empty list, and fingerprints that the lock has refused to erase are forgotten.

The models have these behaviours as the code has them; the properties are stated
so that they hold, and the hazards say what they leave out:

* A failed save of a creation restores the dict of temporary PINs of all locks and
  forgets what another lock's clean-up archived meanwhile. The record reappears as
  expired and is cleaned up again (`ExpiredIsArchived`), so the effect is transient.
* With the record before the motor value, which the code expects for Bluetooth
  unlocks, two `tuya_ble_access_unlock` events are fired for one unlock. Only a report
  matched with a command is preserved then (`coordinator.py:515`): the identity of a
  phone or a fingerprint is cleared by its own motor value, and the fields show nobody
  until the record is repeated within 20 s or the next one comes. `NewestOwnsFields` has
  this case.
* While a motor run waits for its record, any record, a repeat or one days old
  included, is taken for it and owns the fields (`coordinator.py:236`, `381`).
  `NewestOwnsFields` begins anew with it.
* After a write that raises while `is_connected` stays set, an operation or the listener
  ends without `_reset_idle_timer` and `_start_listener` (`coordinator.py:600`, `680`, `878`,
  `914`, `1049`): until the next operation is completed the link has no listener and
  no idle timer, and a record that comes meanwhile waits in the buffer, although the listener
  is to "Periodically drain notification buffer while BLE is connected"
  (`coordinator.py:574`). `SomeoneListens` and `RecordsArrive` except it by `deaf`.
* The user id is not restored into the coordinator's state, so a second restart has
  no key to seed and announces the old record again; and the sensor, when it is added
  in the middle of a motor run, puts the unlocker before back, whom
  `NoStaleIdentity` therefore excepts.
* An activation suspends the coordinator by `_op_lock`, which the services for PINs,
  fingerprints and cards do not take; they may connect with the old session
  meanwhile, and their requests may take frames that the listener or they need.
* A refresh saves a whole copy of the device file that it loaded before it asked the
  cloud, over whatever was written meanwhile; only activations are safe from each
  other. An answer without some keys is merged with the stored record, so that the
  record may mix two generations.
* A registration of the slot of a paused credential replaces its record by one that
  cannot be resumed.

With a third change of the switch (off during the handshake, after the link went
unnoticed while `start_notify` returned, and on again) `PersistentReturns` does not
hold either: `is_connected` stays set with no link behind it, and nobody clears it.
`link_live` has two changes, and `ConnectedIsBacked` excepts persistent connections.
Without that switch the invariant shows that the failure of an attempt, or else
the idle timer, clears a stale `is_connected`.

Two more are listed as hazards without a property: the record of an unlock at a time without connection is
absorbed by the motor run of another one within 20 s (`coordinator.py:440`), and
an ambiguous report turns unambiguous when the older of two commands expires
(`unlock_attribution.py:57`).

## Proofs

All for arbitrary sets of locks, slots, PINs, unlocks, commands, tasks and keys and
arbitrary bounds and windows, from the assumptions in the modules (naturals, and
`None` is no element of the sets). Every invariant and every action property that a
passing run checks is a theorem; further hypotheses are named below.

`TempPasswords`

* `TypeCorrect`; `ArchivedIsGoneHolds`. Inductive invariant `GoneInv`: types, both
  copies and every dict that a failed save may put back mark a PIN as removed only
  when it is gone (`StoresSound`), every PIN on a lock has a grant and stays gone
  once it is (`PinsKnown`), and a positive DP52 reply of a clean-up means that the
  slot of its candidate is empty of it (`CleanupKnown`). The rollback dict must be
  part of the invariant, else a failed save could bring back a claim that was not true.
* `IssuedPinStaysHolds` and `IssuedIsKnownHolds`. `IssuedInv`: in addition who holds
  which lock (`LocksHeld`), that a candidate whose deletion is under way is alone in
  its slot or its slot holds no issued, unexpired PIN (`CandidatesAlone`), that every
  issued PIN still on its lock is current in memory, on disk and in the dict to be
  put back (`LiveKnown`), and what a creation in progress knows (`CreationSound`).
* `OneCurrentPerSlotHolds`. `SlotInv`: memory, file and rollback dict have one current
  record per slot (`StoresOnce`); memory and rollback dict disagree on no slot but
  that of the new PIN (`RollbackAlone`), so that a mixture of both, which an archive
  and a rollback make together, is sound; a record that is being archived, which its
  failed save puts back, is alone in its slot in both (`ArchivedAlone`); so is the PIN
  of a pause (`PausedAlone`).
* `PauseStateTrueHolds`. `PauseInv`: the same copies say of a PIN that is paused or
  active only what the lock does; from the first save of a pause to its reply nothing
  is claimed of its PIN in any of them, and the reply is about the PIN whose record
  is changed then, for which `SlotInv` is needed.

`UnlockReports`

* `TypeCorrect`, with the bound of the duplicate filter.
* `OneReportPerCommandHolds`, `FailedStaysOutHolds`. `CommandInv`: a command that has
  its report is marked as claimed as long as it is in the list, and failed commands
  are not in the list. `ConfirmedOnceHolds`: with `ConfirmInv`, the report kept for the
  next motor run was attributed and named no run yet.
* `NoStaleIdentityHolds`: `FreshInv`, the property with the types of the clocks.
* `MotorOnceHolds`. `QueueInv`: no run is twice on its way, and one that goes on has
  sent nothing after its "on"; `MotorOnce`: while the motor state is "off", no value of an announced run is on its way. It holds across
  restarts.
* `AnnouncedOnceHolds`: until the first restart, if there are no more unlocks than the
  filter has room for (`Roomy`). `RecordInv`: the filter has no key twice and keys of
  unlocks only, so it evicts nothing, and a record that was announced is in it.
  `AnnouncedOnceEachHolds` is the same for `MaxRestarts = 0`, as the run has it. With more
  unlocks the filter evicts the oldest of its 128 keys, and a copy of that record that is late
  by so much is announced again.
* `SeededStaysQuietHolds`, for `Roomy` and `MaxRestarts <= 1`. `SeedInv`: what the sensor saved
  is a record with its own time and user, so that the key it puts back is that of the
  record. After a second restart this is false, see *What does not hold*.
* `NewestOwnsFieldsHolds`, for all windows, late records included and in either order of
  record and motor value. `OwnInv`: until a restart the record shown is one of the
  burst and no other of it is newer; when none is shown, the burst is empty or a motor
  run has not had its record; and a matched report that waits for its run is the one
  shown, so that keeping it (`Confirmed`) keeps an owner.

`LockLink`

* `TypeCorrect`; `NothingAfterShutdownHolds`. `ShutInv`: once the coordinator is stopping,
  every task that is past `_connect_lock` and may still open a link is among those
  `async_shutdown` awaits; when it goes on there are none. `Progress` says what a step
  of one task may do to this, so that each action is looked at once.
* `ConnectedIsBackedHolds`. `BackInv`: unless the entry is unloading, `is_connected` has a
  link, the idle timer, a persistent connection or a task behind it that is about to
  clear it (`Clearing`), and nobody but the keep-alive is cancelled: a cancelled task
  clears nothing. `KeepsBack` is the step of one task.

`ReportDelivery`

* `TypeCorrect`, `AcknowledgedIsKeptHolds`. `Inv`: of each task, that what it has to answer
  is in its hands or passed on (`TaskSound`), and that all records in frames were made.
* `SomeoneListensHolds`: a call that is completed leaves a listener or no link, one that
  fails on a link that stays makes it `deaf`, and only then may the listener be off.
* `RepliesStayHolds`. `OrderInv`: a call is in the queue for `_lock` once while it waits or
  holds, and at its head while it waits for frames or answers them (`Placed`); a
  listener in the queue is ahead of the operation (`Ahead`), as it joined when none was
  under way. So it is out of the queue before an operation can send. `Steps` is what a
  step of one call may do to this.

`DeviceKeys`

* `TypeCorrect`, and the refinement `KeepsTheLedger` (`Spec => Ledger!Spec`) with
  `LedgerSafe` and so `KeysAreNeverLost`. Inductive invariant `Kept`: the keys in use,
  those a lock was paired with, those of the file (once a set-up has noted what an
  earlier version left) and those that a task has in its copy or chosen are all in the
  histories, which only grow (`Grown`). Tasks must be part of it: a flow pairs or saves
  long after it has read.
* `ActivationsSurviveHolds`, `ImportsWereCheckedHolds`, `ReloadedIsInUseHolds`. `SafeInv`: one task
  at a time is between load and save of an activation (`OneSaver`), and its copy has
  what activations wrote before (`Keeps`); the keys that an addition is about to save
  have been accepted by the lock (`Checked`); a task that waits for a reload waits for
  a set-up that will read, or has read, the record it wrote (`Taken`).

`Credentials`

* `TypeCorrect` and `RecordsAreSoundHolds`. `SoundInv`: also the data that a failing save
  puts back are sound. `NextData` sorts the steps by what they do to the copies:
  nothing, a save, a change in memory, or going back.
* `EnrolledIsRecordedHolds`: `KeptInv`, what has been reported is also in the data to
  be put back, and what a save is about to report is in memory.
* `CredentialPauseTrueHolds`: `PauseInv`. All copies are right about the slots and
  name ids that were drawn (a slot can only take a credential no record knows of);
  from the save of "unknown" to the reply the record of the call says so in memory
  and, once saved, in the file; after the reply the slot is as it was asked. Only
  then may the step that changes a schedule be allowed to.
* `GoneBeforeForgottenHolds`, for `~CutShort`; `credentials_summary` shows the other case.
  `GoneInv`: a credential in its slot is of the member that its record names (`Owned`, of
  memory, file and rollback data), as the lock erases the slot
  of a member and may confirm what it does not have of that member (`Erases`); and what the lock has answered to an enrolment, a deletion or a
  clearance is still true of the slots when the record is changed (`Answered`).

Only model-checked, as liveness under fairness is beyond the prover:
`ExpiredIsArchived`, `ServicesEnd`, `PersistentReturns` and `RecordsArrive`.

## Not modelled

* Protocol, ciphers, payload layouts and fragments (`ble_protocol.py`,
  `ble_crypto.py`, most of `ble_commands.py`) and the conversion of local times
  (`credential_time.py`, `credential_schedule.py`): pure functions on data, without
  state, covered by unit tests.
* Forms, menus and HTTP of the configuration flow and the cloud client, entities and
  views other than the last-unlock sensor, diagnostics and their probes.
* The one-off migrations of the old domain and of the legacy file, which run before
  anything else.
* `sync_credentials`, which only reports, and `update_credential`, one more save that
  rolls back; writes without an answer.
* When an advertisement flag starts an event session: it may start at any time.
* A creation whose reply is lost leaves a PIN on the lock that no record knows; the
  code promises nothing for it, and neither does the model.

`PROJECT.json` lists every component and hazard.

## Plan

1. `EventFlag`: advertisements to event sessions, with lost advertisements and the
   minimum interval.
2. Migration: the copy from the old domain and the legacy file, with a stop between.
3. Fragments and credential times as functions against reference definitions.
4. Proofs: an abstract specification of what the records of a lock go through (made,
   read, acknowledged, passed on), with `ReportDelivery` implementing it; the safety part
   of the liveness properties, that what they wait for stays enabled.
