------------------------- MODULE TempPasswordsPause -------------------------
(***************************************************************************)
(* What the records say of a slot, proved for any number of locks, slots   *)
(* and password ids: a slot has one current record, and what that record   *)
(* says of a pause is what the lock does.                                  *)
(***************************************************************************)
EXTENDS TempPasswordsIssued

-----------------------------------------------------------------------------
(* The inductive invariant behind OneCurrentPerSlot.  An archived record   *)
(* may be put back, in the present dict or in the one that a failed        *)
(* creation or reset report restores, so the slot of a record being        *)
(* archived must hold no other current one in either; and the PIN that a   *)
(* call pauses stays alone in its slot while the call holds the            *)
(* temporary-password lock.                                                *)

OneCurrent(m) ==
  \A i, j \in DOMAIN m : CurrentIn(m, i) /\ CurrentIn(m, j) /\ SameSlot(i, j) => i = j

(* Whatever is on a lock and has a record has a current one.               *)
PresentCurrent(m) == \A i \in DOMAIN m \cap onLock : CurrentIn(m, i)

StoresOnce == \A m \in {mem, disk, svc.prev} : OneCurrent(m) /\ PresentCurrent(m)

PutsBackAll == svc.pc = "save" /\ svc.op \in {"create", "reset"}

(* The old dict and the present one disagree on no slot but the new one.   *)
RollbackAlone ==
  PutsBackAll =>
    \A i \in DOMAIN mem, j \in DOMAIN svc.prev :
      /\ CurrentIn(mem, i) /\ CurrentIn(svc.prev, j) /\ SameSlot(j, i)
      /\ svc.op = "create" => i # svc.id
      => j = i

ArchivedAlone ==
  \A l \in Lock : cln[l].pc = "saving" =>
    /\ Unique(mem, cln[l].cur)
    /\ PutsBackAll => Unique(svc.prev, cln[l].cur)

Pausing == svc.op \in {"pause", "resume"} /\ svc.pc \in {"intent", "send", "save"}

PausedAlone ==
  Pausing =>
    /\ svc.id \in DOMAIN grant /\ grant[svc.id].lock = svc.lock
    /\ Unique(mem, svc.id)
    /\ svc.pc = "send" => Unique(disk, svc.id)

SlotInv == StoresOnce /\ RollbackAlone /\ ArchivedAlone /\ PausedAlone

LEMMA InitSlotInv == Init => SlotInv
<1>. SUFFICES ASSUME Init PROVE SlotInv
  OBVIOUS
<1>1. DOMAIN NoRecords = {}
  BY DEF NoRecords
<1>2. QED
  BY <1>1 DEF Init, SlotInv, StoresOnce, OneCurrent, PresentCurrent, RollbackAlone,
              PutsBackAll, ArchivedAlone, PausedAlone, Pausing, NoCall, NoCleaner

(* Which records are current after each operation on the store.            *)
LEMMA CurrentPaused ==
  ASSUME NEW m \in Dict(Id, Record), NEW i, NEW p
  PROVE  \A j : CurrentIn(WithPause(m, i, p), j) <=> CurrentIn(m, j)
<1>1. m \in [DOMAIN m -> Record]
  BY DictElim
<1>2. QED
  BY <1>1 DEF CurrentIn, WithPause, Record

LEMMA CurrentNew ==
  ASSUME NEW m \in Dict(Id, Record), NEW i
  PROVE  \A j : CurrentIn(WithNew(m, i), j)
                  <=> j = i \/ (CurrentIn(m, j) /\ ~SameSlot(j, i))
<1>1. m \in [DOMAIN m -> Record]
  BY DictElim
<1>2. QED
  BY <1>1 DEF CurrentIn, WithNew, NewRecord, Record

LEMMA CurrentWithout ==
  ASSUME NEW m \in Dict(Id, Record), NEW l
  PROVE  \A j : CurrentIn(WithoutLock(m, l), j)
                  <=> CurrentIn(m, j) /\ grant[j].lock # l
BY DEF CurrentIn, WithoutLock

LEMMA CurrentArchived ==
  ASSUME NEW m \in Dict(Id, Record), NEW i
  PROVE  \A j : CurrentIn([m EXCEPT ![i].removed = TRUE], j)
                  <=> CurrentIn(m, j) /\ j # i
<1>1. m \in [DOMAIN m -> Record]
  BY DictElim
<1>2. QED
  BY <1>1 DEF CurrentIn, Record

LEMMA CurrentPutBack ==
  ASSUME NEW m \in Dict(Id, Record), NEW i
  PROVE  \A j : /\ CurrentIn(m, j) => CurrentIn([m EXCEPT ![i].removed = FALSE], j)
                /\ CurrentIn([m EXCEPT ![i].removed = FALSE], j)
                     => CurrentIn(m, j) \/ j = i
<1>1. m \in [DOMAIN m -> Record]
  BY DictElim
<1>2. QED
  BY <1>1 DEF CurrentIn, Record

(* Their keys.                                                             *)
LEMMA KeyUpdates ==
  ASSUME NEW m
  PROVE  /\ \A i, p : DOMAIN WithPause(m, i, p) = DOMAIN m
         /\ \A i : DOMAIN WithNew(m, i) = DOMAIN m \cup {i}
         /\ \A l : DOMAIN WithoutLock(m, l) = {k \in DOMAIN m : grant[k].lock # l}
         /\ \A i, b : DOMAIN [m EXCEPT ![i].removed = b] = DOMAIN m
BY DEF WithPause, WithNew, WithoutLock

(* A step that changes no record, takes PINs from locks at most and begins *)
(* no save and no pause.                                                   *)
LEMMA SlotFrame ==
  ASSUME SlotInv, UNCHANGED <<mem, disk, grant>>, onLock' \subseteq onLock,
         svc'.prev \in {svc.prev, NoRecords},
         PutsBackAll' => PutsBackAll /\ svc' = svc,
         Pausing' => Pausing /\ svc'.id = svc.id /\ svc'.lock = svc.lock
                             /\ svc'.pc = svc.pc,
         \A l \in Lock : cln'[l].pc = "saving" =>
                           cln[l].pc = "saving" /\ cln'[l].cur = cln[l].cur
  PROVE  SlotInv'
<1>1. DOMAIN NoRecords = {}
  BY DEF NoRecords
<1>2. StoresOnce'
  BY <1>1 DEF SlotInv, StoresOnce, OneCurrent, PresentCurrent, CurrentIn, SameSlot
<1>3. RollbackAlone'
  BY DEF SlotInv, RollbackAlone, CurrentIn, SameSlot
<1>4. ArchivedAlone'
  BY DEF SlotInv, ArchivedAlone, Unique, CurrentIn, SameSlot
<1>5. PausedAlone'
  BY DEF SlotInv, PausedAlone, Unique, CurrentIn, SameSlot
<1>6. QED
  BY <1>2, <1>3, <1>4, <1>5 DEF SlotInv

(* A step that changes the present dict, or copies one to disk or for a    *)
(* rollback.                                                               *)
LEMMA StoresOnceStep ==
  ASSUME StoresOnce, OneCurrent(mem)', PresentCurrent(mem)', UNCHANGED grant,
         onLock' \subseteq onLock, disk' \in {disk, mem, mem'},
         svc'.prev \in {svc.prev, mem, NoRecords}
  PROVE  StoresOnce'
<1>1. DOMAIN NoRecords = {}
  BY DEF NoRecords
<1>2. \A m \in {mem, disk, svc.prev} :
        OneCurrent(m) /\ PresentCurrent(m)
  BY DEF StoresOnce
<1>3. OneCurrent(disk)' /\ PresentCurrent(disk)'
  BY <1>2 DEF OneCurrent, PresentCurrent, SameSlot, CurrentIn
<1>4. OneCurrent(svc.prev)' /\ PresentCurrent(svc.prev)'
  BY <1>1, <1>2 DEF OneCurrent, PresentCurrent, SameSlot, CurrentIn
<1>5. QED
  BY <1>3, <1>4 DEF StoresOnce, OneCurrent, PresentCurrent, SameSlot, CurrentIn

(* While a record of a slot is being archived, no call works on a PIN of   *)
(* that lock: both would hold the temporary-password lock.                 *)
LEMMA ApartFromCall ==
  ASSUME IssuedInv, NEW l \in Lock, cln[l].pc \in {"sent", "saving"},
         svc.op \in {"create", "pause", "resume"}, svc.pc \in {"intent", "send", "save"},
         svc.id \in DOMAIN grant, grant[svc.id].lock = svc.lock
  PROVE  svc.lock # l /\ ~SameSlot(svc.id, cln[l].cur) /\ ~SameSlot(cln[l].cur, svc.id)
<1>1. tempLock[l] = "cleanup" /\ tempLock[svc.lock] = "service"
  BY DEF IssuedInv, LocksHeld
<1>2. grant[cln[l].cur].lock = l
  BY DEF IssuedInv, GoneInv, CleanupKnown, CleanerKnown
<1>3. QED
  BY <1>1, <1>2 DEF SameSlot

(* What the other lemmas use of IssuedInv.                                 *)
LEMMA SlotFacts ==
  ASSUME IssuedInv
  PROVE  /\ mem \in Dict(Id, Record) /\ disk \in Dict(Id, Record)
         /\ svc \in Call /\ svc.prev \in Dict(Id, Record)
         /\ cln \in [Lock -> Cleaner]
         /\ DOMAIN mem \subseteq DOMAIN grant /\ DOMAIN disk \subseteq DOMAIN grant
         /\ DOMAIN svc.prev \subseteq DOMAIN grant
         /\ \A l \in Lock : cln[l].pc = "saving" =>
              /\ cln[l].cur \in DOMAIN grant /\ grant[cln[l].cur].lock = l
              /\ cln[l].cur \notin onLock
         /\ svc.op = "create" /\ svc.pc = "save" =>
              svc.id \in DOMAIN grant /\ grant[svc.id].lock = svc.lock
BY DEF IssuedInv, GoneInv, TypeInv, TypeOK, StoresSound, Sound, CleanupKnown,
       CleanerKnown, CallKnown, Call

(* Archiving keeps it: the only record put back is alone in its slot.      *)
LEMMA CleanupSlot ==
  ASSUME SlotInv, IssuedInv, NEW l \in Lock, CoordinatorCleans(l) \/ CleanupStep(l)
  PROVE  SlotInv'
<1>. USE DEF storeVars, lockVars, ghostVars, taskVars, envVars
<1>. DEFINE c == cln[l].cur
<1>0. /\ mem \in Dict(Id, Record) /\ svc \in Call /\ cln \in [Lock -> Cleaner]
      /\ cln[l] \in Cleaner /\ CleanerKnown(l, cln[l]) /\ CallOK
  BY DEF IssuedInv, GoneInv, TypeInv, TypeOK, CleanupKnown
<1>a. UNCHANGED <<grant, onLock>>
  BY DEF CleanupStep, CoordinatorCleans, NextCandidate, CleanupDone,
         CleanupUnconfirmed, CleanupRejected, Archive, ArchiveSaved,
         ArchiveSaveFailed
<1>b. ASSUME NEW d, cln' = [cln EXCEPT ![l] = d], d.pc # "saving", UNCHANGED <<mem, disk>>,
             svc' = svc \/ (svc.pc = "cleaning" /\ svc' = [svc EXCEPT !.pc = "cleaned"])
      PROVE  SlotInv'
  <2>1. /\ svc'.prev = svc.prev /\ svc'.id = svc.id /\ svc'.lock = svc.lock
        /\ svc' = svc \/ (svc'.pc = "cleaned" /\ svc.pc = "cleaning")
    BY <1>0, <1>b DEF Call
  <2>2. PutsBackAll' => PutsBackAll /\ svc' = svc
    BY <2>1 DEF PutsBackAll
  <2>3. Pausing' => Pausing /\ svc'.pc = svc.pc
    BY <2>1 DEF Pausing
  <2>4. \A k \in Lock : cln'[k].pc = "saving" =>
                          cln[k].pc = "saving" /\ cln'[k].cur = cln[k].cur
    BY <1>0, <1>b
  <2>5. QED
    BY <1>a, <1>b, <2>1, <2>2, <2>3, <2>4, SlotFrame
<1>c. NoCleaner.pc = "idle" /\ ToNext(cln[l]).pc = "next"
      /\ NextAfter(l) = [cln EXCEPT ![l] = ToNext(cln[l])]
  BY <1>0 DEF NoCleaner, ToNext, NextAfter, Cleaner
<1>d. ASSUME EndCleanup(l)
      PROVE  /\ cln' = [cln EXCEPT ![l] = NoCleaner]
             /\ svc' = svc \/ (svc.pc = "cleaning" /\ svc' = [svc EXCEPT !.pc = "cleaned"])
  BY <1>0, <1>d DEF EndCleanup, CallOK
<1>1. CASE CoordinatorCleans(l)
  <2>. DEFINE t == Expired(l)
              d == [NoCleaner EXCEPT !.by = "coordinator", !.pc = "next", !.todo = t]
  <2>1. cln' = [cln EXCEPT ![l] = d]
    BY <1>1 DEF CoordinatorCleans, StartCleanup
  <2>2. d.pc = "next"
    <3>. HIDE DEF t
    <3>1. QED
      BY DEF NoCleaner
  <2>. HIDE DEF d
  <2>3. QED
    BY <1>1, <1>b, <2>1, <2>2 DEF CoordinatorCleans
<1>2. ASSUME NEW i \in Id, NextCandidate(l, i)
      PROVE  SlotInv'
  <2>. DEFINE d == IF i \in Expired(l) THEN ToSent(cln[l], i) ELSE Drop(cln[l], i)
  <2>1. cln' = [cln EXCEPT ![l] = d] /\ d.pc \in {"next", "sent"}
    BY <1>0, <1>2 DEF NextCandidate, ToSent, Drop, Cleaner
  <2>. HIDE DEF d
  <2>2. QED
    BY <1>2, <1>b, <2>1 DEF NextCandidate
<1>3. CASE CleanupDone(l) \/ CleanupUnconfirmed(l)
  BY <1>3, <1>b, <1>c, <1>d DEF CleanupDone, CleanupUnconfirmed
<1>4. CASE CleanupRejected(l)
  BY <1>4, <1>b, <1>c DEF CleanupRejected
<1>5. CASE Archive(l)
  <2>1. CASE ~CurrentIn(mem, c)
    BY <1>5, <1>b, <1>c, <2>1 DEF Archive
  <2>2. CASE CurrentIn(mem, c)
    <3>1. /\ mem' = [mem EXCEPT ![c].removed = TRUE]
          /\ cln' = [cln EXCEPT ![l] = ToSaving(cln[l])]
          /\ UNCHANGED <<disk, svc>> /\ cln[l].pc = "sent" /\ c \notin onLock
      BY <1>0, <1>5, <2>2 DEF Archive, ToSaving, CleanerKnown
    <3>2. /\ \A k \in Lock : k # l => cln'[k] = cln[k]
          /\ cln'[l].pc = "saving" /\ cln'[l].cur = c
      BY <1>0, <3>1 DEF ToSaving, Cleaner
    <3>3. \A j : CurrentIn(mem, j)' <=> CurrentIn(mem, j) /\ j # c
      <4>1. \A j : CurrentIn([mem EXCEPT ![c].removed = TRUE], j)
                    <=> CurrentIn(mem, j) /\ j # c
        <5>. HIDE DEF c
        <5>1. QED
          BY <1>0, CurrentArchived
      <4>2. QED
        BY <3>1, <4>1 DEF CurrentIn
    <3>4. DOMAIN mem' = DOMAIN mem
      BY <3>1, KeyUpdates
    <3>5. StoresOnce'
      <4>1. OneCurrent(mem) /\ PresentCurrent(mem)
        BY DEF SlotInv, StoresOnce
      <4>2. OneCurrent(mem)' /\ PresentCurrent(mem)'
        BY <1>a, <3>1, <3>3, <3>4, <4>1 DEF OneCurrent, PresentCurrent, SameSlot
      <4>3. QED
        BY <1>a, <3>1, <4>2, StoresOnceStep DEF SlotInv
    <3>6. RollbackAlone'
      BY <1>a, <3>1, <3>3, <3>4
         DEF SlotInv, RollbackAlone, PutsBackAll, SameSlot, CurrentIn
    <3>7. ArchivedAlone'
      <4>1. Unique(mem, c)
        BY <2>2 DEF SlotInv, StoresOnce, OneCurrent, Unique, CurrentIn
      <4>2. PutsBackAll => Unique(svc.prev, c)
        <5>1. svc.op = "create" /\ svc.pc = "save" => c # svc.id
          BY <3>1, ApartFromCall, SlotFacts DEF SameSlot
        <5>2. QED
          BY <2>2, <5>1 DEF SlotInv, RollbackAlone, PutsBackAll, Unique, CurrentIn
      <4>3. QED
        BY <1>a, <3>1, <3>2, <3>3, <3>4, <4>1, <4>2
           DEF SlotInv, ArchivedAlone, Unique, PutsBackAll, SameSlot, CurrentIn
    <3>8. PausedAlone'
      BY <1>a, <3>1, <3>3, <3>4
         DEF SlotInv, PausedAlone, Pausing, Unique, SameSlot, CurrentIn
    <3>9. QED
      BY <3>5, <3>6, <3>7, <3>8 DEF SlotInv
  <2>3. QED
    BY <2>1, <2>2
<1>6. CASE ArchiveSaved(l)
  <2>1. /\ disk' = mem /\ UNCHANGED <<mem, svc>>
        /\ cln' = [cln EXCEPT ![l] = ToNext(cln[l])]
    BY <1>6, <1>c DEF ArchiveSaved
  <2>2. \A k \in Lock : cln'[k].pc = "saving" => cln'[k] = cln[k]
    BY <1>0, <1>c, <2>1
  <2>3. StoresOnce' /\ RollbackAlone'
    BY <1>a, <2>1
       DEF SlotInv, StoresOnce, OneCurrent, PresentCurrent, SameSlot, CurrentIn,
           RollbackAlone, PutsBackAll
  <2>4. ArchivedAlone' /\ PausedAlone'
    BY <1>a, <2>1, <2>2
       DEF SlotInv, ArchivedAlone, PausedAlone, PutsBackAll, Pausing, Unique,
           SameSlot, CurrentIn
  <2>5. QED
    BY <2>3, <2>4 DEF SlotInv
<1>7. CASE ArchiveSaveFailed(l)
  <2>1. /\ disk' \in {disk, mem} /\ cln[l].pc = "saving"
        /\ mem' \in {mem, [mem EXCEPT ![c].removed = FALSE]}
        /\ cln' = [cln EXCEPT ![l] = NoCleaner]
    BY <1>7, <1>d DEF ArchiveSaveFailed
  <2>2. /\ \A k \in Lock : cln'[k].pc = "saving" => cln'[k] = cln[k] /\ k # l
    BY <1>0, <1>c, <2>1
  <2>3. /\ svc'.prev = svc.prev /\ svc'.id = svc.id /\ svc'.lock = svc.lock
        /\ svc'.op = svc.op
        /\ svc'.pc = svc.pc \/ (svc'.pc = "cleaned" /\ svc.pc = "cleaning")
    BY <1>0, <1>7, <1>d DEF ArchiveSaveFailed, Call
  <2>4. (PutsBackAll' <=> PutsBackAll) /\ (Pausing' <=> Pausing)
    BY <2>3 DEF PutsBackAll, Pausing
  <2>5. /\ \A j : CurrentIn(mem, j) => CurrentIn(mem, j)'
        /\ \A j : CurrentIn(mem, j)' => CurrentIn(mem, j) \/ j = c
    <3>. DEFINE m == [mem EXCEPT ![c].removed = FALSE]
    <3>1. /\ \A j : CurrentIn(mem, j) => CurrentIn(m, j)
          /\ \A j : CurrentIn(m, j) => CurrentIn(mem, j) \/ j = c
      <4>. HIDE DEF c
      <4>1. QED
        BY <1>0, CurrentPutBack
    <3>2. mem' = mem \/ mem' = m
      BY <2>1
    <3>. HIDE DEF m
    <3>3. QED
      BY <3>1, <3>2 DEF CurrentIn
  <2>6. DOMAIN mem' = DOMAIN mem
    BY <2>1, KeyUpdates
  <2>7. Unique(mem, c) /\ (PutsBackAll => Unique(svc.prev, c))
    BY <2>1 DEF SlotInv, ArchivedAlone
  <2>8. StoresOnce'
    <3>1. OneCurrent(mem)' /\ PresentCurrent(mem)'
      BY <1>a, <2>5, <2>6, <2>7
         DEF SlotInv, StoresOnce, OneCurrent, PresentCurrent, Unique, SameSlot
    <3>2. QED
      BY <1>a, <2>1, <2>3, <3>1, StoresOnceStep DEF SlotInv
  <2>9. RollbackAlone'
    <3>1. ASSUME PutsBackAll', NEW i \in DOMAIN mem, NEW j \in DOMAIN svc.prev,
                 CurrentIn(mem, i)', CurrentIn(svc.prev, j), SameSlot(j, i),
                 svc.op = "create" => i # svc.id
          PROVE  j = i
      <4>1. CASE i = c
        BY <2>4, <2>7, <3>1, <4>1 DEF Unique
      <4>2. CASE i # c
        BY <2>4, <2>5, <3>1, <4>2 DEF SlotInv, RollbackAlone
      <4>3. QED
        BY <4>1, <4>2
    <3>2. QED
      BY <1>a, <2>3, <2>6, <3>1 DEF RollbackAlone, SameSlot, CurrentIn
  <2>10. ArchivedAlone'
    <3>1. ASSUME NEW k \in Lock, cln'[k].pc = "saving"
          PROVE  Unique(mem, cln[k].cur)' /\ (PutsBackAll' => Unique(svc.prev, cln[k].cur)')
      <4>1. /\ cln[k].pc = "saving" /\ k # l /\ cln'[k] = cln[k]
        BY <2>2, <3>1
      <4>2. ~SameSlot(c, cln[k].cur)
        BY <2>1, <4>1, SlotFacts DEF SameSlot
      <4>3. QED
        BY <1>a, <2>3, <2>4, <2>5, <2>6, <4>1, <4>2
           DEF SlotInv, ArchivedAlone, Unique, SameSlot, CurrentIn
    <3>2. QED
      BY <3>1 DEF ArchivedAlone
  <2>11. PausedAlone'
    <3>1. Pausing => ~SameSlot(c, svc.id)
      BY <2>1, ApartFromCall DEF SlotInv, PausedAlone, Pausing
    <3>2. ASSUME Pausing
          PROVE  Unique(mem, svc.id)'
      BY <1>a, <2>3, <2>5, <2>6, <3>1, <3>2
         DEF SlotInv, PausedAlone, Unique, SameSlot
    <3>3. ASSUME Pausing, svc'.pc = "send"
          PROVE  Unique(disk, svc.id)'
      BY <1>a, <2>1, <2>3, <3>3
         DEF SlotInv, PausedAlone, Unique, SameSlot, CurrentIn
    <3>4. QED
      BY <1>a, <2>3, <2>4, <3>2, <3>3 DEF SlotInv, PausedAlone
  <2>12. QED
    BY <2>8, <2>9, <2>10, <2>11 DEF SlotInv
<1>8. QED
  BY <1>1, <1>2, <1>3, <1>4, <1>5, <1>6, <1>7 DEF CleanupStep

(* A step of a call that stores nothing, or the end of one.                *)
LEMMA ServiceFrame ==
  ASSUME SlotInv, IssuedInv, UNCHANGED <<mem, disk, grant, onLock>>,
         svc'.prev \in {svc.prev, NoRecords},
         svc'.pc \notin {"intent", "save"},
         svc'.pc = "send" => svc'.op = "create",
         \A l \in Lock : cln'[l].pc = "saving" => cln'[l] = cln[l]
  PROVE  SlotInv'
<1>1. ~PutsBackAll' /\ ~Pausing'
  BY DEF PutsBackAll, Pausing
<1>2. QED
  BY <1>1, SlotFrame

(* A call keeps it: a new record is alone in the slot it supersedes, what  *)
(* a failed save puts back is alone in its slots, and a call that pauses a *)
(* PIN does so while the PIN is alone in its slot.                         *)
LEMMA ServiceSlot ==
  ASSUME SlotInv, IssuedInv, ServiceStep
  PROVE  SlotInv'
<1>. USE DEF storeVars, lockVars, ghostVars, taskVars, envVars
<1>0. /\ mem \in Dict(Id, Record) /\ svc \in Call /\ cln \in [Lock -> Cleaner]
      /\ CallOK /\ NoCall.prev = NoRecords /\ NoCall.pc = "idle"
      /\ DOMAIN NoRecords = {}
  BY DEF IssuedInv, GoneInv, TypeInv, TypeOK, NoCall, NoRecords
<1>a. UNCHANGED <<grant, onLock>>
  BY DEF ServiceStep, ServiceCleans, CredentialDone, SendCreate, PersistIntent,
         RefusePause, IntentSaved, CallUnconfirmed, CreateConfirmed,
         PauseConfirmed, CallSaved, CallSaveFailed
<1>b. ASSUME NEW hangup \in BOOLEAN, EndCall(hangup), UNCHANGED <<mem, disk, cln>>
      PROVE  SlotInv'
  BY <1>0, <1>a, <1>b, ServiceFrame DEF EndCall
<1>1. CASE ServiceCleans
  <2>. DEFINE t == Expired(svc.lock)
              d == [NoCleaner EXCEPT !.by = "service", !.pc = "next", !.todo = t]
  <2>1. cln' = [cln EXCEPT ![svc.lock] = d]
    BY <1>1 DEF ServiceCleans, StartCleanup
  <2>2. d.pc = "next"
    <3>. HIDE DEF t
    <3>1. QED
      BY DEF NoCleaner
  <2>. HIDE DEF d
  <2>3. \A l \in Lock : cln'[l].pc = "saving" => cln'[l] = cln[l]
    BY <1>0, <2>1, <2>2
  <2>4. svc'.prev = svc.prev /\ svc'.pc = "cleaning"
    BY <1>0, <1>1 DEF ServiceCleans, Call
  <2>5. QED
    BY <1>1, <1>a, <2>3, <2>4, ServiceFrame DEF ServiceCleans
<1>2. CASE CredentialDone \/ RefusePause \/ CallUnconfirmed
  BY <1>2, <1>b DEF CredentialDone, RefusePause, CallUnconfirmed
<1>3. CASE SendCreate
  <2>1. svc'.prev = svc.prev /\ svc'.pc = "send" /\ svc'.op = "create"
    BY <1>0, <1>3 DEF SendCreate, Call
  <2>2. QED
    BY <1>3, <1>a, <2>1, ServiceFrame DEF SendCreate
<1>c. ASSUME NEW p, mem' = WithPause(mem, svc.id, p)
      PROVE  /\ \A j : CurrentIn(mem, j)' <=> CurrentIn(mem, j)
             /\ DOMAIN mem' = DOMAIN mem
             /\ OneCurrent(mem)' /\ PresentCurrent(mem)'
  <2>1. \A j : CurrentIn(mem, j)' <=> CurrentIn(mem, j)
    <3>1. \A j : CurrentIn(WithPause(mem, svc.id, p), j) <=> CurrentIn(mem, j)
      BY <1>0, CurrentPaused
    <3>2. QED
      BY <1>c, <3>1 DEF CurrentIn
  <2>2. DOMAIN mem' = DOMAIN mem
    BY <1>c, KeyUpdates
  <2>3. OneCurrent(mem) /\ PresentCurrent(mem)
    BY DEF SlotInv, StoresOnce
  <2>4. OneCurrent(mem)' /\ PresentCurrent(mem)'
    BY <1>a, <2>1, <2>2, <2>3 DEF OneCurrent, PresentCurrent, SameSlot
  <2>5. QED
    BY <2>1, <2>2, <2>4
<1>d. ASSUME NEW p, mem' = WithPause(mem, svc.id, p), svc'.prev = mem,
             UNCHANGED <<disk, cln>>, svc'.op \notin {"create", "reset"},
             svc'.pc # "send", svc'.id = svc.id, svc'.lock = svc.lock,
             Usable(svc.lock, svc.id)
      PROVE  SlotInv'
  <2>1. StoresOnce'
    BY <1>a, <1>c, <1>d, StoresOnceStep DEF SlotInv
  <2>2. RollbackAlone'
    BY <1>d DEF RollbackAlone, PutsBackAll
  <2>3. ArchivedAlone'
    BY <1>a, <1>c, <1>d
       DEF SlotInv, ArchivedAlone, PutsBackAll, Unique, SameSlot
  <2>4. PausedAlone'
    <3>1. /\ svc.id \in DOMAIN grant /\ grant[svc.id].lock = svc.lock
          /\ Unique(mem, svc.id)
      BY <1>d, SlotFacts DEF Usable, CurrentIn
    <3>2. QED
      BY <1>a, <1>c, <1>d, <3>1 DEF PausedAlone, Unique, SameSlot
  <2>5. QED
    BY <2>1, <2>2, <2>3, <2>4 DEF SlotInv
<1>4. CASE PersistIntent
  <2>1. /\ svc'.prev = mem /\ svc'.op = svc.op /\ svc'.pc = "intent"
        /\ svc'.id = svc.id /\ svc'.lock = svc.lock
    BY <1>0, <1>4 DEF PersistIntent, Call
  <2>2. QED
    BY <1>4, <1>d, <2>1 DEF PersistIntent
<1>5. CASE IntentSaved
  <2>1. /\ svc'.prev = NoRecords /\ svc'.op = svc.op /\ svc'.pc = "send"
        /\ svc'.id = svc.id /\ svc'.lock = svc.lock
        /\ disk' = mem /\ UNCHANGED <<mem, cln>> /\ svc.pc = "intent"
    BY <1>0, <1>5 DEF IntentSaved, Call
  <2>2. OneCurrent(mem)' /\ PresentCurrent(mem)'
    BY <1>a, <2>1
       DEF SlotInv, StoresOnce, OneCurrent, PresentCurrent, SameSlot, CurrentIn
  <2>3. StoresOnce'
    BY <1>a, <2>1, <2>2, StoresOnceStep DEF SlotInv
  <2>4. RollbackAlone' /\ ArchivedAlone'
    BY <1>a, <2>1
       DEF SlotInv, RollbackAlone, ArchivedAlone, PutsBackAll, Unique, SameSlot,
           CurrentIn
  <2>5. PausedAlone'
    BY <1>a, <2>1
       DEF SlotInv, PausedAlone, Pausing, Unique, SameSlot, CurrentIn
  <2>6. QED
    BY <2>3, <2>4, <2>5 DEF SlotInv
<1>6. CASE CreateConfirmed
  <2>1. /\ svc'.prev = mem /\ svc'.op = "create" /\ svc'.pc = "save"
        /\ svc'.id = svc.id /\ mem' = WithNew(mem, svc.id) /\ disk' = disk
        /\ svc.op = "create" /\ svc.pc = "send" /\ svc.reply
    BY <1>0, <1>6 DEF CreateConfirmed, Call
  <2>2. \A l \in Lock : cln'[l].pc = cln[l].pc /\ cln'[l].cur = cln[l].cur
    <3>. DEFINE b == [l \in Lock |-> OneMore(cln[l])]
    <3>1. b \in [Lock -> Copies] /\ TypeInv
      BY CopiesType DEF IssuedInv, GoneInv
    <3>2. cln' = [l \in Lock |-> [cln[l] EXCEPT !.copied = b[l]]]
      BY <1>6 DEF CreateConfirmed
    <3>. HIDE DEF b
    <3>3. QED
      BY <3>1, <3>2, CopiedFields
  <2>3. \A j : CurrentIn(mem, j)'
                 <=> j = svc.id \/ (CurrentIn(mem, j) /\ ~SameSlot(j, svc.id))
    <3>1. \A j : CurrentIn(WithNew(mem, svc.id), j)
                   <=> j = svc.id \/ (CurrentIn(mem, j) /\ ~SameSlot(j, svc.id))
      BY <1>0, CurrentNew
    <3>2. QED
      BY <2>1, <3>1 DEF CurrentIn
  <2>4. DOMAIN mem' = DOMAIN mem \cup {svc.id}
    BY <2>1, KeyUpdates
  <2>5. OneCurrent(mem) /\ PresentCurrent(mem)
    BY DEF SlotInv, StoresOnce
  <2>6. OneCurrent(mem)'
    BY <1>a, <2>3, <2>4, <2>5 DEF OneCurrent, SameSlot
  <2>7. PresentCurrent(mem)'
    <3>1. \A j \in onLock : SameSlot(j, svc.id) => j = svc.id
      BY <2>1 DEF IssuedInv, CreationSound, Occupants
    <3>2. QED
      BY <1>a, <2>3, <2>4, <2>5, <3>1 DEF PresentCurrent
  <2>8. StoresOnce'
    BY <1>a, <2>1, <2>6, <2>7, StoresOnceStep DEF SlotInv
  <2>9. RollbackAlone'
    BY <1>a, <2>1, <2>3, <2>4, <2>5
       DEF RollbackAlone, PutsBackAll, OneCurrent, SameSlot, CurrentIn
  <2>10. ArchivedAlone'
    <3>1. ASSUME NEW l \in Lock, cln'[l].pc = "saving"
          PROVE  Unique(mem, cln[l].cur)' /\ Unique(svc.prev, cln[l].cur)'
      <4>1. Unique(mem, cln[l].cur) /\ cln'[l].cur = cln[l].cur
        BY <2>2, <3>1 DEF SlotInv, ArchivedAlone
      <4>2. ~SameSlot(svc.id, cln[l].cur)
        <5>1. svc.id \in DOMAIN grant /\ grant[svc.id].lock = svc.lock
          BY <2>1 DEF IssuedInv, GoneInv, CallKnown
        <5>2. QED
          BY <2>1, <2>2, <3>1, <5>1, ApartFromCall
      <4>3. QED
        BY <1>a, <2>1, <2>3, <2>4, <4>1, <4>2 DEF Unique, SameSlot, CurrentIn
    <3>2. QED
      BY <3>1 DEF ArchivedAlone
  <2>11. PausedAlone'
    BY <2>1 DEF PausedAlone, Pausing
  <2>12. QED
    BY <2>8, <2>9, <2>10, <2>11 DEF SlotInv
<1>7. CASE PauseConfirmed
  <2>. DEFINE p == IF svc.op = "pause" THEN "paused" ELSE "active"
  <2>1. /\ svc'.prev = mem /\ svc'.op = svc.op /\ svc'.pc = "save"
        /\ svc'.id = svc.id /\ svc'.lock = svc.lock
    BY <1>0, <1>7 DEF PauseConfirmed, Call
  <2>2. mem' = WithPause(mem, svc.id, p)
    BY <1>7 DEF PauseConfirmed
  <2>. HIDE DEF p
  <2>3. QED
    BY <1>7, <1>d, <2>1, <2>2 DEF PauseConfirmed
<1>8. CASE CallSaved
  <2>1. svc' = NoCall /\ disk' = mem /\ UNCHANGED <<mem, cln>>
    BY <1>8 DEF CallSaved, EndCall
  <2>2. OneCurrent(mem)' /\ PresentCurrent(mem)'
    BY <1>a, <2>1
       DEF SlotInv, StoresOnce, OneCurrent, PresentCurrent, SameSlot, CurrentIn
  <2>3. StoresOnce'
    BY <1>0, <1>a, <2>1, <2>2, StoresOnceStep DEF SlotInv
  <2>4. ~PutsBackAll' /\ ~Pausing'
    BY <1>0, <2>1 DEF PutsBackAll, Pausing
  <2>5. RollbackAlone' /\ ArchivedAlone' /\ PausedAlone'
    BY <1>a, <2>1, <2>4
       DEF SlotInv, RollbackAlone, ArchivedAlone, PausedAlone, Unique, SameSlot,
           CurrentIn
  <2>6. QED
    BY <2>3, <2>5 DEF SlotInv
<1>9. CASE CallSaveFailed
  <2>1. svc' = NoCall /\ disk' \in {disk, mem} /\ svc.pc \in {"save", "intent"}
    BY <1>9 DEF CallSaveFailed, EndCall
  <2>2. ~PutsBackAll' /\ ~Pausing'
    BY <1>0, <2>1 DEF PutsBackAll, Pausing
  <2>3. \A l \in Lock : cln'[l].pc = cln[l].pc /\ cln'[l].cur = cln[l].cur
    <3>1. CASE svc.op = "create"
      <4>. DEFINE b == [l \in Lock |-> OneLess(cln[l])]
      <4>1. b \in [Lock -> Copies] /\ TypeInv
        BY CopiesType DEF IssuedInv, GoneInv
      <4>2. cln' = [l \in Lock |-> [cln[l] EXCEPT !.copied = b[l]]]
        BY <1>9, <3>1 DEF CallSaveFailed
      <4>. HIDE DEF b
      <4>3. QED
        BY <4>1, <4>2, CopiedFields
    <3>2. CASE svc.op # "create"
      BY <1>9, <3>2 DEF CallSaveFailed
    <3>3. QED
      BY <3>1, <3>2
  <2>4. /\ OneCurrent(mem)' /\ PresentCurrent(mem)'
        /\ \A l \in Lock : cln'[l].pc = "saving" => Unique(mem, cln[l].cur)'
    <3>1. CASE svc.op \in {"create", "reset"}
      <4>1. mem' = svc.prev /\ OneCurrent(svc.prev) /\ PresentCurrent(svc.prev)
        BY <1>9, <3>1 DEF CallSaveFailed, SlotInv, StoresOnce
      <4>2. PutsBackAll
        BY <1>0, <2>1, <3>1 DEF PutsBackAll, CallOK
      <4>3. OneCurrent(mem)' /\ PresentCurrent(mem)'
        BY <1>a, <4>1 DEF OneCurrent, PresentCurrent, SameSlot, CurrentIn
      <4>4. ASSUME NEW l \in Lock, cln'[l].pc = "saving"
            PROVE  Unique(mem, cln[l].cur)'
        <5>1. Unique(svc.prev, cln[l].cur) /\ cln'[l].cur = cln[l].cur
          BY <2>3, <4>2, <4>4 DEF SlotInv, ArchivedAlone
        <5>2. QED
          BY <1>a, <4>1, <5>1 DEF Unique, SameSlot, CurrentIn
      <4>5. QED
        BY <4>3, <4>4
    <3>2. CASE svc.op \notin {"create", "reset"}
      <4>1. mem' = [j \in DOMAIN mem |-> IF j = svc.id THEN svc.prev[svc.id]
                                                       ELSE mem[j]]
        BY <1>9, <3>2 DEF CallSaveFailed
      <4>2. Pausing /\ svc.id \in DOMAIN svc.prev
        BY <1>0, <2>1, <3>2 DEF Pausing, CallOK
      <4>3. DOMAIN mem' = DOMAIN mem
        BY <4>1
      <4>4. \A j : /\ CurrentIn(mem, j)' => CurrentIn(mem, j) \/ j = svc.id
                   /\ j # svc.id /\ CurrentIn(mem, j) => CurrentIn(mem, j)'
                   /\ j = svc.id /\ j \in DOMAIN mem /\ CurrentIn(svc.prev, j)
                        => CurrentIn(mem, j)'
        BY <4>1 DEF CurrentIn
      <4>5. /\ OneCurrent(mem) /\ PresentCurrent(mem) /\ PresentCurrent(svc.prev)
            /\ Unique(mem, svc.id)
            /\ svc.id \in DOMAIN grant /\ grant[svc.id].lock = svc.lock
        BY <4>2 DEF SlotInv, StoresOnce, PausedAlone
      <4>6. OneCurrent(mem)'
        BY <1>a, <4>3, <4>4, <4>5 DEF OneCurrent, Unique, SameSlot
      <4>7. PresentCurrent(mem)'
        BY <1>a, <4>2, <4>3, <4>4, <4>5 DEF PresentCurrent
      <4>8. ASSUME NEW l \in Lock, cln'[l].pc = "saving"
            PROVE  Unique(mem, cln[l].cur)'
        <5>1. Unique(mem, cln[l].cur) /\ cln'[l].cur = cln[l].cur
          BY <2>3, <4>8 DEF SlotInv, ArchivedAlone
        <5>2. ~SameSlot(svc.id, cln[l].cur)
          BY <2>3, <4>2, <4>5, <4>8, ApartFromCall DEF Pausing
        <5>3. QED
          BY <1>a, <4>3, <4>4, <5>1, <5>2 DEF Unique, SameSlot
      <4>9. QED
        BY <4>6, <4>7, <4>8
    <3>3. QED
      BY <3>1, <3>2
  <2>5. StoresOnce'
    BY <1>0, <1>a, <2>1, <2>4, StoresOnceStep DEF SlotInv
  <2>6. RollbackAlone' /\ ArchivedAlone' /\ PausedAlone'
    BY <2>2, <2>4 DEF RollbackAlone, ArchivedAlone, PausedAlone
  <2>7. QED
    BY <2>5, <2>6 DEF SlotInv
<1>10. QED
  BY <1>1, <1>2, <1>3, <1>4, <1>5, <1>6, <1>7, <1>8, <1>9 DEF ServiceStep

(* The first step of a call keeps it: a reset report only forgets records. *)
LEMMA NewCallSlot ==
  ASSUME SlotInv, IssuedInv, NEW l \in Lock, NewCall(l)
  PROVE  SlotInv'
<1>. USE DEF storeVars, lockVars, ghostVars, taskVars, envVars
<1>0. /\ mem \in Dict(Id, Record) /\ UNCHANGED <<grant, onLock, cln, disk>>
      /\ NoCall.prev = NoRecords
  BY SlotFacts DEF NewCall, CallCreate, CallPause, CallCredential, CallReset, Begin, NoCall
<1>1. ASSUME NEW op, NEW i, NEW e, Begin(op, l, i, e), UNCHANGED mem
      PROVE  SlotInv'
  <2>1. svc'.prev = NoRecords /\ svc'.pc = "cleanup"
    BY <1>1 DEF Begin, NoCall
  <2>2. QED
    BY <1>0, <1>1, <2>1, ServiceFrame
<1>2. CASE CallReset(l)
  <2>1. /\ svc'.prev = mem /\ svc'.op = "reset" /\ mem' = WithoutLock(mem, l)
    BY <1>2 DEF CallReset, NoCall
  <2>2. \A j : CurrentIn(mem, j)' <=> CurrentIn(mem, j) /\ grant[j].lock # l
    <3>1. \A j : CurrentIn(WithoutLock(mem, l), j) <=> CurrentIn(mem, j) /\ grant[j].lock # l
      BY <1>0, CurrentWithout
    <3>2. QED
      BY <2>1, <3>1 DEF CurrentIn
  <2>3. DOMAIN mem' = {k \in DOMAIN mem : grant[k].lock # l}
    BY <2>1, KeyUpdates
  <2>4. OneCurrent(mem) /\ PresentCurrent(mem)
    BY DEF SlotInv, StoresOnce
  <2>5. OneCurrent(mem)' /\ PresentCurrent(mem)'
    BY <1>0, <2>2, <2>3, <2>4 DEF OneCurrent, PresentCurrent, SameSlot
  <2>6. StoresOnce'
    BY <1>0, <2>1, <2>5, StoresOnceStep DEF SlotInv
  <2>7. RollbackAlone'
    BY <1>0, <2>1, <2>2, <2>3, <2>4
       DEF RollbackAlone, OneCurrent, SameSlot, CurrentIn
  <2>8. ArchivedAlone'
    BY <1>0, <2>1, <2>2, <2>3
       DEF SlotInv, ArchivedAlone, Unique, SameSlot, CurrentIn
  <2>9. PausedAlone'
    BY <2>1 DEF PausedAlone, Pausing
  <2>10. QED
    BY <2>6, <2>7, <2>8, <2>9 DEF SlotInv
<1>3. QED
  BY <1>1, <1>2 DEF NewCall, CallCreate, CallPause, CallCredential

(* What the locks do keeps it: a PIN that enters a slot has no record yet. *)
LEMMA LockSlot ==
  ASSUME SlotInv, IssuedInv, LockStep
  PROVE  SlotInv'
<1>. USE DEF storeVars, lockVars, ghostVars, taskVars, envVars
<1>0. svc \in Call /\ cln \in [Lock -> Cleaner]
  BY SlotFacts
<1>1. ASSUME NEW s \in Slot, LockCreates(s)
      PROVE  SlotInv'
  <2>1. /\ svc.id \notin DOMAIN grant /\ onLock' = onLock \cup {svc.id}
        /\ \A j \in DOMAIN grant : grant'[j] = grant[j]
        /\ UNCHANGED <<mem, disk, cln>>
    BY <1>1 DEF LockCreates, IssuedInv, GoneInv, CallKnown
  <2>2. /\ svc'.prev = svc.prev /\ svc'.op = "create" /\ svc'.pc = "send"
    BY <1>0, <1>1 DEF LockCreates, Call
  <2>3. /\ \A m \in {mem, disk, svc.prev} : DOMAIN m \subseteq DOMAIN grant
        /\ \A l \in Lock : cln[l].pc = "saving" => cln[l].cur \in DOMAIN grant
    BY SlotFacts
  <2>4. \A m \in {mem, disk, svc.prev} : OneCurrent(m) /\ PresentCurrent(m)
    BY DEF SlotInv, StoresOnce
  <2>5. OneCurrent(mem)' /\ OneCurrent(disk)' /\ OneCurrent(svc.prev)'
    BY <2>1, <2>2, <2>3, <2>4 DEF OneCurrent, SameSlot, CurrentIn
  <2>6. PresentCurrent(mem)' /\ PresentCurrent(disk)' /\ PresentCurrent(svc.prev)'
    BY <2>1, <2>2, <2>3, <2>4 DEF PresentCurrent, CurrentIn
  <2>7. StoresOnce'
    BY <2>5, <2>6 DEF StoresOnce, OneCurrent, PresentCurrent, SameSlot, CurrentIn
  <2>8. ~PutsBackAll' /\ ~Pausing'
    BY <2>2 DEF PutsBackAll, Pausing
  <2>9. ArchivedAlone'
    BY <2>1, <2>3, <2>8 DEF SlotInv, ArchivedAlone, Unique, SameSlot, CurrentIn
  <2>10. QED
    BY <2>7, <2>8, <2>9 DEF SlotInv, RollbackAlone, PausedAlone
<1>2. CASE LockReschedules
  <2>1. /\ svc'.prev = svc.prev /\ svc'.op = svc.op /\ svc'.pc = svc.pc
        /\ svc'.id = svc.id /\ svc'.lock = svc.lock /\ svc.pc = "send"
        /\ UNCHANGED <<mem, disk, grant, onLock, cln>>
    BY <1>0, <1>2 DEF LockReschedules, Call
  <2>2. ~PutsBackAll' /\ (Pausing' => Pausing)
    BY <2>1 DEF PutsBackAll, Pausing
  <2>3. QED
    BY <2>1, <2>2, SlotFrame
<1>3. ASSUME NEW l \in Lock, LockDeletes(l)
      PROVE  SlotInv'
  <2>1. /\ UNCHANGED <<mem, disk, grant, svc>> /\ onLock' \subseteq onLock
        /\ cln' = [cln EXCEPT ![l].reply = TRUE]
    BY <1>3 DEF LockDeletes, Erase
  <2>2. \A k \in Lock : cln'[k].pc = cln[k].pc /\ cln'[k].cur = cln[k].cur
    BY <1>0, <2>1 DEF Cleaner
  <2>3. QED
    BY <2>1, <2>2, SlotFrame DEF PutsBackAll, Pausing
<1>4. CASE \/ \E l \in Lock : PhysicalReset(l)
           \/ \E i \in Id : LockForgets(i)
  <2>1. UNCHANGED <<mem, disk, grant, svc, cln>> /\ onLock' \subseteq onLock
    BY <1>4 DEF PhysicalReset, LockForgets, Erase
  <2>2. QED
    BY <2>1, SlotFrame DEF PutsBackAll, Pausing
<1>5. QED
  BY <1>1, <1>2, <1>3, <1>4 DEF LockStep

(* Link loss, time and restarts keep it.                                   *)
LEMMA EnvironmentSlot ==
  ASSUME SlotInv, Environment
  PROVE  SlotInv'
<1>. USE DEF storeVars, lockVars, ghostVars, taskVars, envVars
<1>1. CASE Restart
  <2>1. /\ mem' = disk /\ svc' = NoCall /\ UNCHANGED <<disk, grant, onLock>>
        /\ cln' = [l \in Lock |-> NoCleaner]
    BY <1>1 DEF Restart
  <2>2. NoCall.prev = NoRecords /\ NoCall.pc = "idle" /\ NoCleaner.pc = "idle"
    BY DEF NoCall, NoCleaner
  <2>3. OneCurrent(mem)' /\ PresentCurrent(mem)'
    BY <2>1 DEF SlotInv, StoresOnce, OneCurrent, PresentCurrent, SameSlot, CurrentIn
  <2>4. StoresOnce'
    BY <2>1, <2>2, <2>3, StoresOnceStep DEF SlotInv
  <2>5. RollbackAlone' /\ ArchivedAlone' /\ PausedAlone'
    BY <2>1, <2>2 DEF RollbackAlone, PutsBackAll, ArchivedAlone, PausedAlone, Pausing
  <2>6. QED
    BY <2>4, <2>5 DEF SlotInv
<1>2. CASE ~Restart
  <2>1. UNCHANGED <<mem, disk, grant, onLock, svc, cln>>
    BY <1>2 DEF Environment, LinkDrops, CooldownOver, Tick
  <2>2. QED
    BY <2>1, SlotFrame DEF PutsBackAll, Pausing
<1>3. QED
  BY <1>1, <1>2

LEMMA NextSlotInv ==
  ASSUME SlotInv, IssuedInv, [Next]_vars
  PROVE  SlotInv'
<1>1. CASE Next
  BY <1>1, CleanupSlot, ServiceSlot, NewCallSlot, LockSlot, EnvironmentSlot
     DEF Next
<1>2. CASE UNCHANGED vars
  <2>1. UNCHANGED <<mem, disk, grant, onLock, svc, cln>>
    BY <1>2 DEF vars
  <2>2. QED
    BY <2>1, SlotFrame DEF PutsBackAll, Pausing
<1>3. QED
  BY <1>1, <1>2

LEMMA SlotInvHolds == Spec => []SlotInv
BY InitSlotInv, NextSlotInv, IssuedInvHolds, PTL DEF Spec

(* A hardware id has one current record, in memory and on disk, through    *)
(* failed saves of a creation, a reset report, a pause or an archive that  *)
(* overlap: no slot becomes ambiguous and drops out of the clean-up.       *)
THEOREM OneCurrentPerSlotHolds == Spec => []OneCurrentPerSlot
<1>1. SlotInv => OneCurrentPerSlot
  BY DEF SlotInv, StoresOnce, OneCurrent, OneCurrentPerSlot
<1>2. QED
  BY <1>1, SlotInvHolds, PTL

-----------------------------------------------------------------------------
(* The inductive invariant behind PauseStateTrue.                          *)

(* What the records of m say of the pause of a PIN is what its lock does.  *)
Matches(m) ==
  \A i \in DOMAIN m \cap onLock :
    /\ m[i].pause = "paused" => i \in suspended
    /\ m[i].pause = "active" => i \notin suspended

(* While DP53 is under way, nothing is claimed of the PIN; an answer tells *)
(* what the lock has done.                                                 *)
PauseKnown ==
  /\ svc.op \in {"pause", "resume"} /\ svc.pc \in {"intent", "send"} /\ svc.id \in DOMAIN mem =>
       mem[svc.id].pause = "unknown"
  /\ svc.op \in {"pause", "resume"} /\ svc.pc = "send" =>
       /\ svc.id \in DOMAIN disk => disk[svc.id].pause = "unknown"
       /\ svc.prev = NoRecords
       /\ svc.reply /\ svc.id \in onLock => (svc.id \in suspended <=> svc.op = "pause")

PauseInv ==
  /\ \A m \in {mem, disk, svc.prev} : Matches(m)
  /\ suspended \subseteq onLock
  /\ svc.op = "create" => svc.id \notin suspended
  /\ PauseKnown

LEMMA InitPauseInv == Init => PauseInv
<1>. SUFFICES ASSUME Init PROVE PauseInv
  OBVIOUS
<1>1. DOMAIN NoRecords = {}
  BY DEF NoRecords
<1>2. QED
  BY <1>1 DEF Init, PauseInv, Matches, PauseKnown, NoCall

(* The dicts, before and after a step that copies one for the disk or for  *)
(* a rollback while the locks lose PINs at most.                           *)
LEMMA MatchesStep ==
  ASSUME PauseInv, Matches(mem)', onLock' \subseteq onLock,
         suspended' = suspended \cap onLock',
         disk' \in {disk, mem, mem'}, svc'.prev \in {svc.prev, mem, NoRecords}
  PROVE  Matches(disk)' /\ Matches(svc.prev)' /\ suspended' \subseteq onLock'
<1>1. DOMAIN NoRecords = {}
  BY DEF NoRecords
<1>2. QED
  BY <1>1 DEF PauseInv, Matches

(* A step that changes no record, takes PINs from locks at most and gives  *)
(* no answer.                                                              *)
LEMMA PauseFrame ==
  ASSUME PauseInv, UNCHANGED <<mem, disk>>, onLock' \subseteq onLock,
         suspended' = suspended \cap onLock',
         svc'.prev \in {svc.prev, NoRecords},
         svc'.op = "create" => \/ svc.op = "create" /\ svc'.id = svc.id
                               \/ svc'.id \notin suspended,
         svc'.op \in {"pause", "resume"} /\ svc'.pc \in {"intent", "send"} =>
           svc' = svc
  PROVE  PauseInv'
<1>1. Matches(mem)'
  BY DEF PauseInv, Matches
<1>2. Matches(disk)' /\ Matches(svc.prev)' /\ suspended' \subseteq onLock'
  BY <1>1, MatchesStep
<1>3. PauseKnown'
  BY DEF PauseInv, PauseKnown
<1>4. QED
  BY <1>1, <1>2, <1>3 DEF PauseInv, Matches

(* Archiving keeps it: no field that tells of a pause changes.             *)
LEMMA CleanupPause ==
  ASSUME PauseInv, IssuedInv, NEW l \in Lock, CoordinatorCleans(l) \/ CleanupStep(l)
  PROVE  PauseInv'
<1>. USE DEF storeVars, lockVars, ghostVars, taskVars, envVars
<1>. DEFINE c == cln[l].cur
<1>0. /\ mem \in Dict(Id, Record) /\ svc \in Call
      /\ CallOK /\ cln[l] \in Cleaner
  BY DEF IssuedInv, GoneInv, TypeInv, TypeOK
<1>1. UNCHANGED <<onLock, suspended>> /\ disk' \in {disk, mem}
  BY DEF CleanupStep, CoordinatorCleans, NextCandidate, CleanupDone,
         CleanupUnconfirmed, CleanupRejected, Archive, ArchiveSaved,
         ArchiveSaveFailed
<1>2. svc' = svc \/ (svc.pc = "cleaning" /\ svc' = [svc EXCEPT !.pc = "cleaned"])
  BY <1>0 DEF CleanupStep, CoordinatorCleans, NextCandidate, CleanupDone,
         CleanupUnconfirmed, CleanupRejected, Archive, ArchiveSaved,
         ArchiveSaveFailed, EndCleanup, CallOK
<1>3. DOMAIN mem' = DOMAIN mem /\ \A i \in DOMAIN mem : mem'[i].pause = mem[i].pause
  <2>1. mem' \in {mem, [mem EXCEPT ![c].removed = TRUE], [mem EXCEPT ![c].removed = FALSE]}
    BY DEF CleanupStep, CoordinatorCleans, NextCandidate, CleanupDone,
           CleanupUnconfirmed, CleanupRejected, Archive, ArchiveSaved,
           ArchiveSaveFailed
  <2>2. mem \in [DOMAIN mem -> Record]
    BY <1>0, DictElim
  <2>. HIDE DEF c
  <2>3. QED
    BY <2>1, <2>2 DEF Record
<1>4. /\ svc'.prev = svc.prev /\ svc'.op = svc.op /\ svc'.id = svc.id
      /\ svc'.pc \in {"intent", "send"} => svc' = svc
  BY <1>0, <1>2 DEF Call
<1>5. Matches(mem)'
  BY <1>1, <1>3 DEF PauseInv, Matches
<1>6. Matches(disk)' /\ Matches(svc.prev)' /\ suspended' \subseteq onLock'
  BY <1>1, <1>4, <1>5, MatchesStep DEF PauseInv
<1>7. PauseKnown'
  <2>1. CASE disk' = disk
    BY <1>1, <1>3, <1>4, <2>1 DEF PauseInv, PauseKnown
  <2>2. CASE disk' = mem
    BY <1>1, <1>3, <1>4, <2>2 DEF PauseInv, PauseKnown
  <2>3. QED
    BY <1>1, <2>1, <2>2
<1>8. QED
  BY <1>1, <1>4, <1>5, <1>6, <1>7 DEF PauseInv, Matches

(* A call keeps it: "paused" or "active" is stored only after the lock's   *)
(* answer, and "unknown" is on disk before the lock is asked.              *)
LEMMA ServicePause ==
  ASSUME PauseInv, IssuedInv, ServiceStep
  PROVE  PauseInv'
<1>. USE DEF storeVars, lockVars, ghostVars, taskVars, envVars
<1>0. /\ mem \in Dict(Id, Record) /\ mem \in [DOMAIN mem -> Record] /\ svc \in Call
      /\ CallOK /\ NoCall.prev = NoRecords /\ NoCall.op = "none" /\ NoCall.pc = "idle"
      /\ DOMAIN NoRecords = {}
  BY SlotFacts, DictElim DEF IssuedInv, GoneInv, TypeInv, NoCall, NoRecords
<1>a. UNCHANGED <<onLock, suspended>>
  BY DEF ServiceStep, ServiceCleans, CredentialDone, SendCreate, PersistIntent,
         RefusePause, IntentSaved, CallUnconfirmed, CreateConfirmed,
         PauseConfirmed, CallSaved, CallSaveFailed
<1>b. suspended' = suspended \cap onLock'
  BY <1>a DEF PauseInv
<1>c. ASSUME svc' = NoCall, UNCHANGED <<mem, disk>>
      PROVE  PauseInv'
  BY <1>0, <1>a, <1>b, <1>c, PauseFrame
<1>1. CASE CredentialDone \/ RefusePause \/ CallUnconfirmed
  BY <1>1, <1>c DEF CredentialDone, RefusePause, CallUnconfirmed, EndCall
<1>2. CASE ServiceCleans
  <2>1. /\ svc'.prev = svc.prev /\ svc'.pc = "cleaning" /\ svc'.op = svc.op
        /\ svc'.id = svc.id /\ UNCHANGED <<mem, disk>>
    BY <1>0, <1>2 DEF ServiceCleans, Call
  <2>2. QED
    BY <1>a, <1>b, <2>1, PauseFrame
<1>3. CASE SendCreate
  <2>1. /\ svc'.prev = svc.prev /\ svc'.op = "create" /\ svc.op = "create"
        /\ svc'.id = svc.id /\ UNCHANGED <<mem, disk>>
    BY <1>0, <1>3 DEF SendCreate, Call
  <2>2. QED
    BY <1>a, <1>b, <2>1, PauseFrame
<1>d. ASSUME NEW p, mem' = WithPause(mem, svc.id, p), svc'.prev = mem, disk' = disk,
             svc'.op = svc.op, svc.op # "create", svc'.id = svc.id,
             svc.id \in onLock =>
               /\ p = "paused" => svc.id \in suspended
               /\ p = "active" => svc.id \notin suspended,
             svc'.pc # "send", svc'.pc = "intent" => p = "unknown"
      PROVE  PauseInv'
  <2>1. /\ DOMAIN mem' = DOMAIN mem
        /\ \A i \in DOMAIN mem : i # svc.id => mem'[i] = mem[i]
        /\ svc.id \in DOMAIN mem => mem'[svc.id].pause = p
    BY <1>0, <1>d DEF WithPause, Record
  <2>2. Matches(mem)'
    BY <1>a, <1>d, <2>1 DEF PauseInv, Matches
  <2>3. Matches(disk)' /\ Matches(svc.prev)' /\ suspended' \subseteq onLock'
    BY <1>a, <1>b, <1>d, <2>2, MatchesStep
  <2>4. PauseKnown'
    BY <1>d, <2>1 DEF PauseKnown
  <2>5. QED
    BY <1>d, <2>2, <2>3, <2>4 DEF PauseInv, Matches
<1>4. CASE PersistIntent
  <2>1. /\ svc'.prev = mem /\ svc'.op = svc.op /\ svc'.pc = "intent"
        /\ svc'.id = svc.id /\ svc.op # "create" /\ disk' = disk
        /\ mem' = WithPause(mem, svc.id, "unknown")
    BY <1>0, <1>4 DEF PersistIntent, Call
  <2>2. QED
    BY <1>d, <2>1
<1>5. CASE IntentSaved
  <2>1. /\ svc'.prev = NoRecords /\ svc'.op = svc.op /\ svc'.pc = "send"
        /\ svc'.id = svc.id /\ svc'.reply = svc.reply
        /\ disk' = mem /\ mem' = mem /\ svc.pc = "intent"
    BY <1>0, <1>5 DEF IntentSaved, Call
  <2>2. ~svc.reply /\ svc.op # "create"
    BY <1>0, <2>1 DEF IssuedInv, GoneInv, CallKnown, CallOK
  <2>3. Matches(mem)'
    BY <1>a, <2>1 DEF PauseInv, Matches
  <2>4. Matches(disk)' /\ Matches(svc.prev)' /\ suspended' \subseteq onLock'
    BY <1>a, <1>b, <2>1, <2>3, MatchesStep
  <2>5. PauseKnown'
    BY <2>1, <2>2 DEF PauseInv, PauseKnown
  <2>6. QED
    BY <2>1, <2>2, <2>3, <2>4, <2>5 DEF PauseInv, Matches
<1>6. CASE CreateConfirmed
  <2>1. /\ svc'.prev = mem /\ svc'.op = "create" /\ svc.op = "create"
        /\ svc'.id = svc.id /\ mem' = WithNew(mem, svc.id) /\ disk' = disk
    BY <1>0, <1>6 DEF CreateConfirmed, Call
  <2>2. /\ DOMAIN mem' = DOMAIN mem \cup {svc.id}
        /\ \A i \in DOMAIN mem : i # svc.id => mem'[i].pause = mem[i].pause
        /\ svc.id \notin suspended
    BY <1>0, <2>1 DEF WithNew, Record, PauseInv
  <2>3. mem'[svc.id].pause = "active"
    BY <2>1 DEF WithNew, NewRecord
  <2>4. Matches(mem)'
    BY <1>a, <2>2, <2>3 DEF PauseInv, Matches
  <2>5. Matches(disk)' /\ Matches(svc.prev)' /\ suspended' \subseteq onLock'
    BY <1>a, <1>b, <2>1, <2>4, MatchesStep
  <2>6. QED
    BY <1>a, <2>1, <2>2, <2>4, <2>5 DEF PauseInv, PauseKnown, Matches
<1>7. CASE PauseConfirmed
  <2>. DEFINE p == IF svc.op = "pause" THEN "paused" ELSE "active"
  <2>1. /\ svc'.prev = mem /\ svc'.op = svc.op /\ svc'.pc = "save"
        /\ svc'.id = svc.id /\ disk' = disk /\ svc.op \in {"pause", "resume"}
    BY <1>0, <1>7 DEF PauseConfirmed, Call
  <2>2. /\ mem' = WithPause(mem, svc.id, p)
        /\ svc.id \in onLock => (svc.id \in suspended <=> svc.op = "pause")
    BY <1>7 DEF PauseConfirmed, PauseInv, PauseKnown
  <2>3. svc.id \in onLock =>
          /\ p = "paused" => svc.id \in suspended
          /\ p = "active" => svc.id \notin suspended
    BY <2>1, <2>2
  <2>. HIDE DEF p
  <2>4. QED
    BY <1>d, <2>1, <2>2, <2>3
<1>8. CASE CallSaved
  <2>1. svc' = NoCall /\ disk' = mem /\ mem' = mem
    BY <1>8 DEF CallSaved, EndCall
  <2>2. Matches(mem)'
    BY <1>a, <2>1 DEF PauseInv, Matches
  <2>3. Matches(disk)' /\ Matches(svc.prev)' /\ suspended' \subseteq onLock'
    BY <1>0, <1>a, <1>b, <2>1, <2>2, MatchesStep
  <2>4. QED
    BY <1>0, <2>1, <2>2, <2>3 DEF PauseInv, PauseKnown, Matches
<1>9. CASE CallSaveFailed
  <2>1. svc' = NoCall /\ disk' \in {disk, mem} /\ svc.pc \in {"save", "intent"}
    BY <1>9 DEF CallSaveFailed, EndCall
  <2>2. Matches(mem)'
    <3>1. CASE svc.op \in {"create", "reset"}
      <4>1. mem' = svc.prev
        BY <1>9, <3>1 DEF CallSaveFailed
      <4>2. QED
        BY <1>a, <4>1 DEF PauseInv, Matches
    <3>2. CASE svc.op \notin {"create", "reset"}
      <4>1. mem' = [j \in DOMAIN mem |-> IF j = svc.id THEN svc.prev[svc.id]
                                                       ELSE mem[j]]
        BY <1>9, <3>2 DEF CallSaveFailed
      <4>2. svc.id \in DOMAIN svc.prev
        BY <1>0, <2>1, <3>2 DEF CallOK
      <4>3. QED
        BY <1>a, <4>1, <4>2 DEF PauseInv, Matches
    <3>3. QED
      BY <3>1, <3>2
  <2>3. Matches(disk)' /\ Matches(svc.prev)' /\ suspended' \subseteq onLock'
    BY <1>0, <1>a, <1>b, <2>1, <2>2, MatchesStep
  <2>4. QED
    BY <1>0, <2>1, <2>2, <2>3 DEF PauseInv, PauseKnown, Matches
<1>10. QED
  BY <1>1, <1>2, <1>3, <1>4, <1>5, <1>6, <1>7, <1>8, <1>9 DEF ServiceStep

(* The first step of a call keeps it: a new PIN is not suspended yet.      *)
LEMMA NewCallPause ==
  ASSUME PauseInv, IssuedInv, NEW l \in Lock, NewCall(l)
  PROVE  PauseInv'
<1>. USE DEF storeVars, lockVars, ghostVars, taskVars, envVars
<1>0. /\ UNCHANGED <<onLock, suspended, disk>> /\ NoCall.prev = NoRecords
      /\ suspended \subseteq used
  BY DEF NewCall, CallCreate, CallPause, CallCredential, CallReset, Begin, NoCall,
         PauseInv, IssuedInv, GoneInv, PinsKnown
<1>a. suspended' = suspended \cap onLock'
  BY <1>0 DEF PauseInv
<1>1. ASSUME NEW op, NEW i, NEW e, Begin(op, l, i, e), UNCHANGED mem,
             op = "create" => i \notin used
      PROVE  PauseInv'
  <2>1. /\ svc'.prev = NoRecords /\ svc'.pc = "cleanup" /\ svc'.op = op
        /\ svc'.id = i
    BY <1>1 DEF Begin, NoCall
  <2>2. QED
    BY <1>0, <1>a, <1>1, <2>1, PauseFrame
<1>2. CASE CallReset(l)
  <2>1. svc'.prev = mem /\ svc'.op = "reset" /\ mem' = WithoutLock(mem, l)
    BY <1>2 DEF CallReset, NoCall
  <2>2. Matches(mem)'
    BY <1>0, <2>1 DEF WithoutLock, PauseInv, Matches
  <2>3. Matches(disk)' /\ Matches(svc.prev)' /\ suspended' \subseteq onLock'
    BY <1>0, <1>a, <2>1, <2>2, MatchesStep
  <2>4. QED
    BY <2>1, <2>2, <2>3 DEF PauseInv, PauseKnown, Matches
<1>3. QED
  BY <1>1, <1>2 DEF NewCall, CallCreate, CallPause, CallCredential

(* What the locks do keeps it: the PIN whose schedule changes is the one   *)
(* that the call works on, and nothing is claimed of it.                   *)
LEMMA LockPause ==
  ASSUME PauseInv, SlotInv, IssuedInv, LockStep
  PROVE  PauseInv'
<1>. USE DEF storeVars, lockVars, ghostVars, taskVars, envVars
<1>0. svc \in Call
  BY SlotFacts
<1>a. ASSUME NEW pins, Erase(pins), UNCHANGED <<mem, disk, svc>>
      PROVE  PauseInv'
  <2>1. onLock' \subseteq onLock /\ suspended' = suspended \cap onLock'
    BY <1>a DEF Erase, PauseInv
  <2>2. QED
    BY <1>a, <2>1, PauseFrame
<1>1. ASSUME NEW s \in Slot, LockCreates(s)
      PROVE  PauseInv'
  <2>1. /\ svc.id \notin DOMAIN grant /\ onLock' = onLock \cup {svc.id}
        /\ UNCHANGED <<mem, disk, suspended>> /\ svc.op = "create"
    BY <1>1 DEF LockCreates, IssuedInv, GoneInv, CallKnown
  <2>2. svc'.prev = svc.prev /\ svc'.op = "create" /\ svc'.id = svc.id
    BY <1>0, <1>1 DEF LockCreates, Call
  <2>3. \A m \in {mem, disk, svc.prev} : svc.id \notin DOMAIN m
    BY <2>1, SlotFacts
  <2>4. Matches(mem)' /\ Matches(disk)' /\ Matches(svc.prev)'
    BY <2>1, <2>2, <2>3 DEF PauseInv, Matches
  <2>5. QED
    BY <2>1, <2>2, <2>4 DEF PauseInv, PauseKnown, Matches
<1>2. CASE LockReschedules
  <2>. DEFINE pins == Occupants(svc.id)
  <2>1. /\ svc.op \in {"pause", "resume"} /\ svc.pc = "send"
        /\ UNCHANGED <<mem, disk, onLock>>
        /\ suspended' = IF svc.op = "pause" THEN suspended \cup pins
                                            ELSE suspended \ pins
    BY <1>2 DEF LockReschedules
  <2>2. /\ svc'.prev = svc.prev /\ svc'.op = svc.op /\ svc'.pc = svc.pc
        /\ svc'.id = svc.id
    BY <1>0, <1>2 DEF LockReschedules, Call
  <2>3. /\ pins \subseteq onLock
        /\ svc.id \in onLock => svc.id \in pins
        /\ \A m \in {mem, disk} : \A i \in DOMAIN m \cap pins :
             i = svc.id /\ m[i].pause = "unknown"
    <3>1. /\ PresentCurrent(mem) /\ PresentCurrent(disk)
          /\ Unique(mem, svc.id) /\ Unique(disk, svc.id)
      BY <2>1 DEF SlotInv, StoresOnce, PausedAlone, Pausing
    <3>2. /\ \A i \in DOMAIN mem \cap pins : i = svc.id
          /\ \A i \in DOMAIN disk \cap pins : i = svc.id
      BY <3>1 DEF PresentCurrent, Unique, Occupants
    <3>3. pins \subseteq onLock /\ (svc.id \in onLock => svc.id \in pins)
      BY DEF Occupants, SameSlot
    <3>4. QED
      BY <2>1, <3>2, <3>3 DEF PauseInv, PauseKnown
  <2>. HIDE DEF pins
  <2>4. svc.prev = NoRecords /\ DOMAIN NoRecords = {}
    BY <2>1 DEF PauseInv, PauseKnown, NoRecords
  <2>5. ASSUME NEW m \in {mem, disk}, NEW i \in DOMAIN m \cap onLock
        PROVE  /\ m[i].pause = "paused" => i \in suspended'
               /\ m[i].pause = "active" => i \notin suspended'
    <3>1. CASE i \in pins
      BY <2>3, <2>5, <3>1
    <3>2. CASE i \notin pins
      BY <2>1, <2>5, <3>2 DEF PauseInv, Matches
    <3>3. QED
      BY <3>1, <3>2
  <2>6. /\ Matches(mem)' /\ Matches(disk)' /\ Matches(svc.prev)'
        /\ suspended' \subseteq onLock'
    <3>1. Matches(mem)' /\ Matches(disk)'
      BY <2>1, <2>5 DEF Matches
    <3>2. Matches(svc.prev)'
      BY <2>2, <2>4 DEF Matches
    <3>3. suspended' \subseteq onLock'
      BY <2>1, <2>3 DEF PauseInv
    <3>4. QED
      BY <3>1, <3>2, <3>3
  <2>7. PauseKnown'
    BY <2>1, <2>2, <2>3 DEF PauseInv, PauseKnown
  <2>8. QED
    BY <2>1, <2>2, <2>6, <2>7 DEF PauseInv, Matches
<1>3. ASSUME NEW l \in Lock, LockDeletes(l) \/ PhysicalReset(l)
      PROVE  PauseInv'
  BY <1>3, <1>a DEF LockDeletes, PhysicalReset
<1>4. ASSUME NEW i \in Id, LockForgets(i)
      PROVE  PauseInv'
  BY <1>4, <1>a DEF LockForgets
<1>5. QED
  BY <1>1, <1>2, <1>3, <1>4 DEF LockStep

(* Link loss, time and restarts keep it.                                   *)
LEMMA EnvironmentPause ==
  ASSUME PauseInv, Environment
  PROVE  PauseInv'
<1>. USE DEF storeVars, lockVars, ghostVars, taskVars, envVars
<1>1. CASE Restart
  <2>1. /\ mem' = disk /\ svc' = NoCall /\ UNCHANGED <<disk, onLock, suspended>>
    BY <1>1 DEF Restart
  <2>2. NoCall.prev = NoRecords /\ NoCall.op = "none"
    BY DEF NoCall
  <2>3. Matches(mem)'
    BY <2>1 DEF PauseInv, Matches
  <2>4. Matches(disk)' /\ Matches(svc.prev)' /\ suspended' \subseteq onLock'
    BY <2>1, <2>2, <2>3, MatchesStep DEF PauseInv
  <2>5. QED
    BY <2>1, <2>2, <2>3, <2>4 DEF PauseInv, PauseKnown, Matches
<1>2. CASE ~Restart
  <2>1. UNCHANGED <<mem, disk, onLock, suspended, svc>>
    BY <1>2 DEF Environment, LinkDrops, CooldownOver, Tick
  <2>2. suspended' = suspended \cap onLock'
    BY <2>1 DEF PauseInv
  <2>3. QED
    BY <2>1, <2>2, PauseFrame
<1>3. QED
  BY <1>1, <1>2

LEMMA NextPauseInv ==
  ASSUME PauseInv, SlotInv, IssuedInv, [Next]_vars
  PROVE  PauseInv'
<1>1. CASE Next
  BY <1>1, CleanupPause, ServicePause, NewCallPause, LockPause, EnvironmentPause
     DEF Next
<1>2. CASE UNCHANGED vars
  <2>1. UNCHANGED <<mem, disk, onLock, suspended, svc>>
    BY <1>2 DEF vars
  <2>2. suspended' = suspended \cap onLock'
    BY <2>1 DEF PauseInv
  <2>3. QED
    BY <2>1, <2>2, PauseFrame
<1>3. QED
  BY <1>1, <1>2

LEMMA PauseInvHolds == Spec => []PauseInv
BY InitPauseInv, NextPauseInv, SlotInvHolds, IssuedInvHolds, PTL DEF Spec

(* What the store says of a pause, now or after a restart, is what the lock *)
(* does: async_set_paused saves "unknown" before it writes DP53, and the   *)
(* answer to it is of the PIN whose record it changes.                     *)
THEOREM PauseStateTrueHolds == Spec => []PauseStateTrue
<1>1. PauseInv => PauseStateTrue
  BY DEF PauseInv, Matches, PauseStateTrue
<1>2. QED
  BY <1>1, PauseInvHolds, PTL

=============================================================================
