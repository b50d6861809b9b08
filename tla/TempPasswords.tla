--------------------------- MODULE TempPasswords ---------------------------
(***************************************************************************)
(* The life of temporary PINs: the credential store (credential_store.py), *)
(* the services that create, pause, resume and forget them (services.py,   *)
(* temp_password_pause.py), the clean-up of expired ones that runs         *)
(* whenever a coordinator connects (coordinator.py,                        *)
(* temp_password_cleanup.py), and the slots of the locks themselves.       *)
(*                                                                         *)
(* The tasks of the event loop interleave at every await: on the operation *)
(* lock and the temporary-password lock of a coordinator, on a datapoint   *)
(* written to a lock and on the save of the store file.  All credential    *)
(* services go through the lock credential_operations, so one call (svc)   *)
(* is in progress at a time; each coordinator runs at most one clean-up    *)
(* (cln), for that call or for an operation of its own.  Waiting for       *)
(* credential_operations or for _op_lock changes nothing: a call begins    *)
(* here when it has both and its coordinator is connected, and a call that *)
(* fails before that leaves no trace.                                      *)
(***************************************************************************)
EXTENDS Naturals, FiniteSets

CONSTANTS
  Lock,        \* the configured locks
  Slot,        \* hardware ids 0..254 that a lock gives to temporary PINs
  Id,          \* password_id values; each creation call draws a new one
  MaxTime,     \* bound: last tick of the clock
  MaxCrashes,  \* bound: number of restarts of Home Assistant
  None         \* no lock, no PIN

ASSUME TimeAssumption  == MaxTime \in Nat
ASSUME CrashAssumption == MaxCrashes \in Nat
ASSUME NoneAssumption  == None \notin Lock \cup Id

VARIABLES
  mem,        \* CredentialStore._data["temp_passwords"]: id -> record
  disk,       \* the store file, as last written
  grant,      \* what each PIN was created with; the immutable part of a record
  onLock,     \* PINs present in their slot on their lock
  suspended,  \* those of them to which the lock applies the no-weekdays schedule
  issued,     \* PINs whose creation call returned success
  void,       \* PINs lost in a physical reset or covered by a reset report
  used,       \* password ids drawn so far
  svc,        \* the credential service call in progress
  cln,        \* per lock: async_cleanup_expired_passwords in progress
  opLock,     \* per lock: who holds coordinator._op_lock
  tempLock,   \* per lock: who holds coordinator._temp_password_lock
  link,       \* per lock: session.is_connected
  cool,       \* per lock: _temp_cleanup_retry_at lies in the future
  now,        \* UTC clock of Home Assistant and of the locks
  crashes     \* restarts so far

storeVars == <<mem, disk>>
lockVars  == <<grant, onLock, suspended>>
taskVars  == <<svc, cln, opLock, tempLock>>
ghostVars == <<issued, void, used>>
envVars   == <<now, crashes>>
vars == <<mem, disk, grant, onLock, suspended, issued, void, used, svc, cln,
          opLock, tempLock, link, cool, now, crashes>>

-----------------------------------------------------------------------------
(* Types.                                                                  *)

Time   == 0..MaxTime
Pause  == {"active", "paused", "unknown"}
Record == [superseded : BOOLEAN, removed : BOOLEAN, pause : Pause]
Grant  == [lock : Lock, slot : Slot, expiry : Time]
Dict(S, T) == UNION {[D -> T] : D \in SUBSET S}

Call == [op     : {"none", "create", "pause", "resume", "reset", "credential"},
         pc     : {"idle", "cleanup", "cleaning", "cleaned", "intent", "send",
                   "save"},
         lock   : Lock \cup {None},
         id     : Id \cup {None},
         expiry : Time,
         reply  : BOOLEAN,
         prev   : Dict(Id, Record)]   \* the dict a failed save puts back

(* How often a creation has replaced the record object that is archived by *)
(* a copy; a failed creation puts the object back only if that was once.   *)
Copies == {"never", "once", "often"}

Cleaner == [by     : {"nobody", "service", "coordinator"},
            pc     : {"idle", "next", "sent", "saving"},
            todo   : SUBSET Id,
            cur    : Id \cup {None},
            reply  : BOOLEAN,
            copied : Copies]

NoRecords == [i \in {} |-> None]
NewRecord == [superseded |-> FALSE, removed |-> FALSE, pause |-> "active"]
NoCall    == [op |-> "none", pc |-> "idle", lock |-> None, id |-> None,
              expiry |-> 0, reply |-> FALSE, prev |-> NoRecords]
NoCleaner == [by |-> "nobody", pc |-> "idle", todo |-> {}, cur |-> None,
              reply |-> FALSE, copied |-> "never"]

TypeOK ==
  /\ mem \in Dict(Id, Record)
  /\ disk \in Dict(Id, Record)
  /\ grant \in Dict(Id, Grant)
  /\ onLock \in SUBSET Id
  /\ suspended \in SUBSET Id
  /\ issued \in SUBSET Id
  /\ void \in SUBSET Id
  /\ used \in SUBSET Id
  /\ svc \in Call
  /\ cln \in [Lock -> Cleaner]
  /\ opLock \in [Lock -> {"free", "service", "coordinator"}]
  /\ tempLock \in [Lock -> {"free", "service", "cleanup"}]
  /\ link \in [Lock -> BOOLEAN]
  /\ cool \in [Lock -> BOOLEAN]
  /\ now \in Time
  /\ crashes \in 0..MaxCrashes

Init ==
  /\ mem = NoRecords /\ disk = NoRecords /\ grant = NoRecords
  /\ onLock = {} /\ suspended = {} /\ issued = {} /\ void = {}
  /\ used = {}
  /\ svc = NoCall
  /\ cln = [l \in Lock |-> NoCleaner]
  /\ opLock = [l \in Lock |-> "free"]
  /\ tempLock = [l \in Lock |-> "free"]
  /\ link = [l \in Lock |-> FALSE]
  /\ cool = [l \in Lock |-> FALSE]
  /\ now = 0 /\ crashes = 0

-----------------------------------------------------------------------------
(* The records of the store.                                               *)

SameSlot(i, j) == grant[i].lock = grant[j].lock /\ grant[i].slot = grant[j].slot

(* get_temp_passwords_for_lock: neither superseded nor removed.            *)
CurrentIn(m, i) == i \in DOMAIN m /\ ~m[i].superseded /\ ~m[i].removed

(* The hardware id of a record occurs once among the current ones.         *)
Unique(m, i) == \A j \in DOMAIN m : CurrentIn(m, j) /\ SameSlot(j, i) => j = i

(* Mutant: superseded records are candidates too.                          *)
ExpiredAnyGeneration(l) ==
  {i \in DOMAIN mem : ~mem[i].removed /\ grant[i].lock = l /\ grant[i].expiry <= now}

Expired(l) ==
  {i \in DOMAIN mem : /\ CurrentIn(mem, i) /\ grant[i].lock = l
                      /\ grant[i].expiry <= now
                      /\ Unique(mem, i)}

(* current_password: usable for pause and resume.                          *)
Usable(l, i) ==
  /\ CurrentIn(mem, i) /\ grant[i].lock = l /\ Unique(mem, i)
  /\ grant[i].expiry > now

(* Mutant: no record is superseded.                                        *)
WithNewKeepingOld(m, i) ==
  [j \in DOMAIN m \cup {i} |-> IF j = i THEN NewRecord ELSE m[j]]

(* async_add_temp_password: the new record supersedes every generation of  *)
(* its slot.                                                               *)
WithNew(m, i) ==
  [j \in DOMAIN m \cup {i} |->
     IF j = i THEN NewRecord
     ELSE IF SameSlot(j, i) THEN [m[j] EXCEPT !.superseded = TRUE] ELSE m[j]]

(* Mutant: every lock's records are forgotten.                             *)
WithoutAny(m, l) == NoRecords

(* async_report_factory_reset: forget one lock's records.                  *)
WithoutLock(m, l) == [j \in {k \in DOMAIN m : grant[k].lock # l} |-> m[j]]

WithPause(m, i, p) == [m EXCEPT ![i].pause = p]

PinsOf(l) == {i \in DOMAIN grant : grant[i].lock = l}

(* PINs in the slot that PIN i was given.                                  *)
Occupants(i) == {j \in onLock : SameSlot(j, i)}

-----------------------------------------------------------------------------
(* Clean-up, for a service call or for an operation of the coordinator.    *)

Due(l) == ~cool[l] /\ Expired(l) # {}
Eligible(l) == link[l] /\ Due(l)

StartCleanup(l, by) ==
  /\ tempLock' = [tempLock EXCEPT ![l] = "cleanup"]
  /\ cool' = [cool EXCEPT ![l] = TRUE]
  /\ cln' = [cln EXCEPT ![l] = [NoCleaner EXCEPT !.by = by, !.pc = "next",
                                                 !.todo = Expired(l)]]

(* _async_ensure_connected in a service call.                              *)
ServiceCleans ==
  LET l == svc.lock IN
  /\ svc.pc = "cleanup" /\ tempLock[l] = "free" /\ Eligible(l)
  /\ StartCleanup(l, "service")
  /\ svc' = [svc EXCEPT !.pc = "cleaning"]
  /\ UNCHANGED <<storeVars, lockVars, ghostVars, opLock, link, envVars>>

(* The same in an operation of the coordinator, which takes _op_lock and   *)
(* connects first.  What else the operation does is outside this module.   *)
CoordinatorCleans(l) ==
  /\ opLock[l] = "free" /\ tempLock[l] = "free" /\ Due(l)
  /\ opLock' = [opLock EXCEPT ![l] = "coordinator"]
  /\ link' = [link EXCEPT ![l] = TRUE]
  /\ StartCleanup(l, "coordinator")
  /\ UNCHANGED <<storeVars, lockVars, ghostVars, svc, envVars>>

(* The end of the clean-up: its caller goes on.                            *)
EndCleanup(l) ==
  /\ cln' = [cln EXCEPT ![l] = NoCleaner]
  /\ tempLock' = [tempLock EXCEPT ![l] = "free"]
  /\ svc' = IF cln[l].by = "service" THEN [svc EXCEPT !.pc = "cleaned"] ELSE svc
  /\ opLock' = IF cln[l].by = "coordinator"
               THEN [opLock EXCEPT ![l] = "free"] ELSE opLock

(* The loop over the candidates, each looked up again before DP52 is sent. *)
NextCandidate(l, i) ==
  /\ cln[l].pc = "next" /\ i \in cln[l].todo /\ link[l]
  /\ cln' = [cln EXCEPT ![l] =
               IF i \in Expired(l)
               THEN [cln[l] EXCEPT !.pc = "sent", !.cur = i]
               ELSE [cln[l] EXCEPT !.todo = cln[l].todo \ {i}]]
  /\ UNCHANGED <<storeVars, lockVars, ghostVars, svc, opLock, tempLock, link,
                 cool, envVars>>

CleanupDone(l) ==
  /\ cln[l].pc = "next"
  /\ cln[l].todo = {} \/ ~link[l]
  /\ EndCleanup(l)
  /\ UNCHANGED <<storeVars, lockVars, ghostVars, link, cool, envVars>>

(* No matching reply, or an exception: break, the record stays pending.    *)
CleanupUnconfirmed(l) ==
  /\ cln[l].pc = "sent"
  /\ EndCleanup(l)
  /\ UNCHANGED <<storeVars, lockVars, ghostVars, link, cool, envVars>>

NextAfter(l) ==
  LET c == cln[l] IN
  [cln EXCEPT ![l] = [c EXCEPT !.pc = "next", !.reply = FALSE, !.cur = None,
                               !.todo = c.todo \ {c.cur}]]

(* The lock refuses: continue with the next candidate.                     *)
CleanupRejected(l) ==
  /\ cln[l].pc = "sent" /\ ~cln[l].reply /\ link[l]
  /\ cln' = NextAfter(l)
  /\ UNCHANGED <<storeVars, lockVars, ghostVars, svc, opLock, tempLock, link,
                 cool, envVars>>

(* Mutant: archived as soon as DP52 is written.                            *)
ArchiveUnconfirmed(l) ==
  /\ cln[l].pc = "sent" /\ CurrentIn(mem, cln[l].cur)
  /\ mem' = [mem EXCEPT ![cln[l].cur].removed = TRUE]
  /\ cln' = [cln EXCEPT ![l] = [cln[l] EXCEPT !.pc = "saving", !.copied = "never"]]
  /\ UNCHANGED <<disk, lockVars, ghostVars, svc, opLock, tempLock, link, cool,
                 envVars>>

(* Deleted or already absent: async_archive_temp_password.                 *)
Archive(l) ==
  LET i == cln[l].cur IN
  /\ cln[l].pc = "sent" /\ cln[l].reply
  /\ IF CurrentIn(mem, i)
     THEN /\ mem' = [mem EXCEPT ![i].removed = TRUE]
          /\ cln' = [cln EXCEPT ![l] = [cln[l] EXCEPT !.pc = "saving",
                                                      !.copied = "never"]]
     ELSE mem' = mem /\ cln' = NextAfter(l)
  /\ UNCHANGED <<disk, lockVars, ghostVars, svc, opLock, tempLock, link, cool,
                 envVars>>

ArchiveSaved(l) ==
  /\ cln[l].pc = "saving"
  /\ disk' = mem
  /\ cln' = NextAfter(l)
  /\ UNCHANGED <<mem, lockVars, ghostVars, svc, opLock, tempLock, link, cool,
                 envVars>>

(* The save raised: the archived record is taken back if it is still the   *)
(* object in the dict; then break.                                         *)
ArchiveSaveFailed(l) ==
  LET i == cln[l].cur IN
  /\ cln[l].pc = "saving"
  /\ disk' \in {disk, mem}
  /\ mem' = IF i \in DOMAIN mem /\ cln[l].copied = "never"
            THEN [mem EXCEPT ![i].removed = FALSE] ELSE mem
  /\ EndCleanup(l)
  /\ UNCHANGED <<lockVars, ghostVars, link, cool, envVars>>

-----------------------------------------------------------------------------
(* Credential service calls.  A call holds credential_operations and, but  *)
(* for CallCredential and CallReset, the coordinator's _op_lock.           *)

Begin(op, l, i, e) ==
  /\ svc = NoCall
  /\ svc' = [NoCall EXCEPT !.op = op, !.pc = "cleanup", !.lock = l, !.id = i,
                           !.expiry = e]
  /\ link' = [link EXCEPT ![l] = TRUE]

TakeOpLock(l) ==
  opLock[l] = "free" /\ opLock' = [opLock EXCEPT ![l] = "service"]

(* The call returns or raises: the locks are released; hangup where a      *)
(* finally clause disconnects.                                             *)
EndCall(hangup) ==
  LET l == svc.lock IN
  /\ svc' = NoCall
  /\ opLock' = [opLock EXCEPT ![l] = IF @ = "service" THEN "free" ELSE @]
  /\ tempLock' = [tempLock EXCEPT ![l] = IF @ = "service" THEN "free" ELSE @]
  /\ link' = IF hangup THEN [link EXCEPT ![l] = FALSE] ELSE link

(* create_temp_password.                                                   *)
CallCreate(l, i, e) ==
  /\ i \notin used
  /\ used' = used \cup {i}
  /\ Begin("create", l, i, e)
  /\ TakeOpLock(l)
  /\ UNCHANGED <<storeVars, lockVars, issued, void, cln, tempLock, cool, envVars>>

(* pause_temp_password, resume_temp_password: validated before connecting. *)
CallPause(l, i, op) ==
  /\ Usable(l, i)
  /\ Begin(op, l, i, 0)
  /\ TakeOpLock(l)
  /\ UNCHANGED <<storeVars, lockVars, ghostVars, cln, tempLock, cool, envVars>>

(* A service for ordinary credentials: it connects, clean-up included, and *)
(* disconnects, without taking _op_lock.                                   *)
CallCredential(l) ==
  /\ Begin("credential", l, None, 0)
  /\ UNCHANGED <<storeVars, lockVars, ghostVars, cln, opLock, tempLock, cool,
                 envVars>>

(* report_factory_reset: drops the records and saves; no coordinator lock. *)
CallReset(l) ==
  /\ svc = NoCall
  /\ mem' = WithoutLock(mem, l)
  /\ svc' = [NoCall EXCEPT !.op = "reset", !.pc = "save", !.lock = l,
                           !.prev = mem]
  /\ void' = void \cup PinsOf(l)
  /\ UNCHANGED <<disk, lockVars, issued, used, cln, opLock, tempLock, link, cool,
                 envVars>>

(* _async_ensure_connected has returned.                                   *)
Ready ==
  /\ svc.pc = "cleaned" \/ (svc.pc = "cleanup" /\ ~Eligible(svc.lock))
  /\ tempLock[svc.lock] = "free"

CredentialDone ==
  /\ svc.op = "credential" /\ Ready
  /\ EndCall(TRUE)
  /\ UNCHANGED <<storeVars, lockVars, ghostVars, cln, cool, envVars>>

SendCreate ==
  /\ svc.op = "create" /\ Ready
  /\ tempLock' = [tempLock EXCEPT ![svc.lock] = "service"]
  /\ svc' = [svc EXCEPT !.pc = "send"]
  /\ UNCHANGED <<storeVars, lockVars, ghostVars, cln, opLock, link, cool, envVars>>

(* Mutant: nothing is stored before DP53 is sent.                          *)
PersistNothing ==
  LET l == svc.lock IN
  /\ svc.op \in {"pause", "resume"} /\ Ready /\ Usable(l, svc.id)
  /\ tempLock' = [tempLock EXCEPT ![l] = "service"]
  /\ svc' = [svc EXCEPT !.pc = "send"]
  /\ UNCHANGED <<storeVars, lockVars, ghostVars, cln, opLock, link, cool, envVars>>

(* async_set_paused: the state is set to unknown and saved before DP53.    *)
PersistIntent ==
  LET l == svc.lock IN
  /\ svc.op \in {"pause", "resume"} /\ Ready /\ Usable(l, svc.id)
  /\ tempLock' = [tempLock EXCEPT ![l] = "service"]
  /\ mem' = WithPause(mem, svc.id, "unknown")
  /\ svc' = [svc EXCEPT !.pc = "intent", !.prev = mem]
  /\ UNCHANGED <<disk, lockVars, ghostVars, cln, opLock, link, cool, envVars>>

(* Expired or cleaned up in the meantime.                                  *)
RefusePause ==
  /\ svc.op \in {"pause", "resume"} /\ Ready /\ ~Usable(svc.lock, svc.id)
  /\ EndCall(TRUE)
  /\ UNCHANGED <<storeVars, lockVars, ghostVars, cln, cool, envVars>>

IntentSaved ==
  /\ svc.pc = "intent"
  /\ disk' = mem
  /\ svc' = [svc EXCEPT !.pc = "send", !.prev = NoRecords]
  /\ UNCHANGED <<mem, lockVars, ghostVars, cln, opLock, tempLock, link, cool,
                 envVars>>

(* No reply, a malformed one, a rejection, or - for a pause - a record that *)
(* is no longer usable: nothing further is stored.                         *)
CallUnconfirmed ==
  /\ svc.pc = "send"
  /\ EndCall(TRUE)
  /\ UNCHANGED <<storeVars, lockVars, ghostVars, cln, cool, envVars>>

OneMore(c) == IF c.pc # "saving" THEN "never"
              ELSE IF c.copied = "never" THEN "once" ELSE "often"
OneLess(c) == IF c.copied = "once" THEN "never" ELSE c.copied

(* async_add_temp_password after a confirmed DP51; every record is copied. *)
CreateConfirmed ==
  /\ svc.op = "create" /\ svc.pc = "send" /\ svc.reply
  /\ mem' = WithNew(mem, svc.id)
  /\ svc' = [svc EXCEPT !.pc = "save", !.prev = mem]
  /\ cln' = [l \in Lock |-> [cln[l] EXCEPT !.copied = OneMore(cln[l])]]
  /\ UNCHANGED <<disk, lockVars, ghostVars, opLock, tempLock, link,
                 cool, envVars>>

(* Mutant: the name of the service is stored as the state.                 *)
PauseMisnamed ==
  /\ svc.op \in {"pause", "resume"} /\ svc.pc = "send" /\ svc.reply
  /\ Usable(svc.lock, svc.id)
  /\ mem' = WithPause(mem, svc.id, svc.op)
  /\ svc' = [svc EXCEPT !.pc = "save", !.prev = mem]
  /\ UNCHANGED <<disk, lockVars, ghostVars, cln, opLock, tempLock, link,
                 cool, envVars>>

PauseConfirmed ==
  /\ svc.op \in {"pause", "resume"} /\ svc.pc = "send" /\ svc.reply
  /\ Usable(svc.lock, svc.id)
  /\ mem' = WithPause(mem, svc.id, IF svc.op = "pause" THEN "paused"
                                                       ELSE "active")
  /\ svc' = [svc EXCEPT !.pc = "save", !.prev = mem]
  /\ UNCHANGED <<disk, lockVars, ghostVars, cln, opLock, tempLock, link,
                 cool, envVars>>

(* The save returned; the call returns success.                            *)
CallSaved ==
  /\ svc.pc = "save"
  /\ disk' = mem
  /\ issued' = IF svc.op = "create" THEN issued \cup {svc.id} ELSE issued
  /\ EndCall(svc.op # "reset")
  /\ UNCHANGED <<mem, lockVars, void, used, cln, cool, envVars>>

(* The save raised, before or after the file was replaced.  Creation and   *)
(* reset put the whole previous dict back, a pause only its own record.    *)
CallSaveFailed ==
  LET i == svc.id IN
  /\ svc.pc \in {"save", "intent"}
  /\ disk' \in {disk, mem}
  /\ mem' = IF svc.op \in {"create", "reset"} THEN svc.prev
            ELSE [j \in DOMAIN mem |-> IF j = i THEN svc.prev[i] ELSE mem[j]]
  /\ cln' = IF svc.op = "create"
            THEN [l \in Lock |-> [cln[l] EXCEPT !.copied = OneLess(cln[l])]]
            ELSE cln
  /\ EndCall(svc.op # "reset")
  /\ UNCHANGED <<lockVars, ghostVars, cool, envVars>>

-----------------------------------------------------------------------------
(* The lock: it answers DP51, DP53 and DP52 while connected.  A reply that *)
(* is on its way may still be lost (CallUnconfirmed, CleanupUnconfirmed).  *)

Erase(pins) == onLock' = onLock \ pins /\ suspended' = suspended \ pins

LockCreates(s) ==
  LET i == svc.id
      g == [lock |-> svc.lock, slot |-> s, expiry |-> svc.expiry] IN
  /\ svc.op = "create" /\ svc.pc = "send" /\ ~svc.reply
  /\ link[svc.lock]
  /\ \A j \in onLock : ~(grant[j].lock = svc.lock /\ grant[j].slot = s)
  /\ grant' = [j \in DOMAIN grant \cup {i} |-> IF j = i THEN g ELSE grant[j]]
  /\ onLock' = onLock \cup {i}
  /\ svc' = [svc EXCEPT !.reply = TRUE, !.expiry = 0]
  /\ UNCHANGED <<storeVars, suspended, ghostVars, cln, opLock, tempLock,
                 link, cool, envVars>>

LockReschedules ==
  LET pins == Occupants(svc.id) IN
  /\ svc.op \in {"pause", "resume"} /\ svc.pc = "send" /\ ~svc.reply
  /\ link[svc.lock] /\ pins # {}
  /\ suspended' = IF svc.op = "pause" THEN suspended \cup pins
                                      ELSE suspended \ pins
  /\ svc' = [svc EXCEPT !.reply = TRUE]
  /\ UNCHANGED <<storeVars, grant, onLock, ghostVars, cln, opLock,
                 tempLock, link, cool, envVars>>

(* The slot is free afterwards, whatever PIN was in it.                    *)
LockDeletes(l) ==
  /\ cln[l].pc = "sent" /\ ~cln[l].reply /\ link[l]
  /\ Erase(Occupants(cln[l].cur))
  /\ cln' = [cln EXCEPT ![l].reply = TRUE]
  /\ UNCHANGED <<storeVars, grant, ghostVars, svc, opLock,
                 tempLock, link, cool, envVars>>

(* The lock frees the slot of an expired PIN by itself.                    *)
LockForgets(i) ==
  /\ i \in onLock /\ grant[i].expiry <= now
  /\ Erase({i})
  /\ UNCHANGED <<storeVars, grant, ghostVars, taskVars, link, cool,
                 envVars>>

(* Somebody resets the lock; what was issued on it is void.                *)
PhysicalReset(l) ==
  /\ onLock \cap PinsOf(l) # {}
  /\ Erase(PinsOf(l))
  /\ void' = void \cup (onLock \cap PinsOf(l))
  /\ UNCHANGED <<storeVars, grant, issued, used, taskVars, link, cool,
                 envVars>>

-----------------------------------------------------------------------------
(* Link loss (idle timer, range, another task's disconnect), time, restart.*)

LinkDrops(l) ==
  /\ link[l]
  /\ link' = [link EXCEPT ![l] = FALSE]
  /\ UNCHANGED <<storeVars, lockVars, ghostVars, taskVars, cool, envVars>>

CooldownOver(l) ==
  /\ cool[l]
  /\ cool' = [cool EXCEPT ![l] = FALSE]
  /\ UNCHANGED <<storeVars, lockVars, ghostVars, taskVars, link, envVars>>

Tick ==
  /\ now < MaxTime
  /\ now' = now + 1
  /\ UNCHANGED <<storeVars, lockVars, ghostVars, taskVars, link, cool, crashes>>

Restart ==
  /\ crashes < MaxCrashes
  /\ crashes' = crashes + 1
  /\ mem' = disk
  /\ svc' = NoCall
  /\ cln' = [l \in Lock |-> NoCleaner]
  /\ opLock' = [l \in Lock |-> "free"]
  /\ tempLock' = [l \in Lock |-> "free"]
  /\ link' = [l \in Lock |-> FALSE]
  /\ cool' = [l \in Lock |-> FALSE]
  /\ UNCHANGED <<disk, lockVars, ghostVars, now>>

-----------------------------------------------------------------------------

ServiceStep ==
  \/ ServiceCleans \/ CredentialDone \/ SendCreate \/ PersistIntent
  \/ RefusePause \/ IntentSaved \/ CallUnconfirmed \/ CreateConfirmed
  \/ PauseConfirmed \/ CallSaved \/ CallSaveFailed

CleanupStep(l) ==
  \/ \E i \in Id : NextCandidate(l, i)
  \/ CleanupDone(l) \/ CleanupUnconfirmed(l) \/ CleanupRejected(l)
  \/ Archive(l) \/ ArchiveSaved(l) \/ ArchiveSaveFailed(l)

NewCall(l) ==
  \/ \E i \in Id, e \in Time : CallCreate(l, i, e)
  \/ \E i \in Id, op \in {"pause", "resume"} : CallPause(l, i, op)
  \/ CallCredential(l) \/ CallReset(l)

LockStep ==
  \/ \E s \in Slot : LockCreates(s)
  \/ LockReschedules
  \/ \E l \in Lock : LockDeletes(l) \/ PhysicalReset(l)
  \/ \E i \in Id : LockForgets(i)

Environment ==
  \/ \E l \in Lock : LinkDrops(l) \/ CooldownOver(l)
  \/ Tick \/ Restart

Next ==
  \/ ServiceStep
  \/ \E l \in Lock : NewCall(l) \/ CoordinatorCleans(l) \/ CleanupStep(l)
  \/ LockStep
  \/ Environment

Spec == Init /\ [][Next]_vars

-----------------------------------------------------------------------------
(* Safety.                                                                 *)

(* A record is archived as removed, in memory or on disk, only when its    *)
(* PIN is really gone from the lock: lost replies, rejections, failed      *)
(* saves and restarts included (temp_password_cleanup.py: confirmed or     *)
(* already absent).                                                        *)
ArchivedIsGone ==
  \A m \in {mem, disk} : \A i \in DOMAIN m : m[i].removed => i \notin onLock

(* What the store says of a pause, in memory or after a restart, is what   *)
(* the lock does; whenever that is not certain the state is "unknown"      *)
(* (async_set_paused persists unknown before the write).                   *)
PauseStateTrue ==
  \A m \in {mem, disk} : \A i \in DOMAIN m \cap onLock :
    /\ m[i].pause = "paused" => i \in suspended
    /\ m[i].pause = "active" => i \notin suspended

(* A PIN whose creation was reported as successful stays on the lock until *)
(* it expires: no clean-up of an older PIN of the same slot deletes it,    *)
(* whatever failed, raced or restarted meanwhile, unless somebody reset    *)
(* the lock or reported a reset.                                           *)
IssuedPinStays ==
  \A i \in issued \ void : grant[i].expiry > now => i \in onLock

(* As long as such a PIN is on the lock it has a current record, in memory *)
(* and on disk: it can be paused, and will be cleaned up.                  *)
IssuedIsKnown ==
  \A i \in (issued \ void) \cap onLock : CurrentIn(mem, i) /\ CurrentIn(disk, i)

(* A hardware id has one current record, in memory and on disk, so that it *)
(* never stops being eligible for clean-up or pause by ambiguity.          *)
OneCurrentPerSlot ==
  \A m \in {mem, disk} : \A i, j \in DOMAIN m :
    CurrentIn(m, i) /\ CurrentIn(m, j) /\ SameSlot(i, j) => i = j

-----------------------------------------------------------------------------
(* Liveness.  The tasks of the event loop run on (weak fairness); the      *)
(* hourly sweep and daily use of a lock keep its coordinator connecting,   *)
(* and a lock that is connected and asked again and again answers, and the *)
(* disk accepts a write, some time (strong fairness).                      *)

Fairness ==
  /\ WF_vars(ServiceStep)
  /\ \A l \in Lock :
       /\ WF_vars(CleanupStep(l))
       /\ WF_vars(CooldownOver(l))
       /\ SF_vars(CoordinatorCleans(l))
       /\ SF_vars(\E i \in Id : NextCandidate(l, i))
       /\ SF_vars(LockDeletes(l))
       /\ SF_vars(Archive(l))
       /\ SF_vars(ArchiveSaved(l))

FairSpec == Spec /\ Fairness

(* An expired code does not stay in the list of current codes for ever:    *)
(* after lost replies, refusals, failed saves and disconnects another      *)
(* clean-up, at least the cool-down later, archives it.                    *)
ExpiredIsArchived ==
  \A i \in Id : (CurrentIn(mem, i) /\ grant[i].expiry <= now)
                  ~> ~CurrentIn(mem, i)

=============================================================================
