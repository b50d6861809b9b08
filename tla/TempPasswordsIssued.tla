------------------------ MODULE TempPasswordsIssued ------------------------
(***************************************************************************)
(* What a successful create_temp_password promises, proved for any number  *)
(* of locks, slots and password ids: the PIN stays on its lock and known   *)
(* to the store until it expires.                                          *)
(***************************************************************************)
EXTENDS TempPasswordsProofs

-----------------------------------------------------------------------------
(* The inductive invariant.  A clean-up deletes whatever is in the slot of *)
(* its candidate, so it must know that no other issued PIN is there; that  *)
(* stays true until its answer because a creation on the same lock needs   *)
(* the temporary-password lock the clean-up holds.                         *)

Live == (issued \ void) \cap onLock

Knows(m, pins) == \A i \in pins : CurrentIn(m, i)

(* _temp_password_lock: a clean-up, or a call from its first write on.     *)
LocksHeld ==
  /\ \A l \in Lock : cln[l].pc # "idle" => tempLock[l] = "cleanup"
  /\ svc.op \in {"create", "pause", "resume"}
       /\ svc.pc \in {"intent", "send", "save"} => tempLock[svc.lock] = "service"

CandidateAlone(l, c) ==
  c.pc = "sent" =>
    /\ grant[c.cur].expiry <= now
    /\ \A j \in Live : SameSlot(j, c.cur) => j = c.cur

CandidatesAlone == \A l \in Lock : CandidateAlone(l, cln[l])

LiveKnown ==
  /\ Knows(mem, Live)
  /\ Knows(disk, Live)
  /\ svc.pc \in {"save", "intent"} => Knows(svc.prev, Live)

(* A creation the lock has accepted: the slot was free, and by the time    *)
(* its record is to be saved the new PIN is known.                         *)
CreationSound ==
  svc.op = "create" /\ svc.reply =>
    /\ svc.pc = "send" => Occupants(svc.id) \subseteq {svc.id}
    /\ svc.pc = "save" /\ svc.id \in onLock => CurrentIn(mem, svc.id)
    /\ svc.id \notin void /\ grant[svc.id].expiry > now => svc.id \in onLock

IssuedInv ==
  GoneInv /\ LocksHeld /\ CandidatesAlone /\ LiveKnown /\ CreationSound
          /\ IssuedPinStays

LEMMA InitIssuedInv == Init => IssuedInv
<1>. SUFFICES ASSUME Init PROVE IssuedInv
  OBVIOUS
<1>1. QED
  BY InitGoneInv
     DEF Init, IssuedInv, LocksHeld, CandidatesAlone, CandidateAlone, LiveKnown,
         Live, Knows, CreationSound, IssuedPinStays, NoCall, NoCleaner

(* How the operations on the store keep the live PINs current.             *)
LEMMA KnowsUpdates ==
  ASSUME NEW m \in Dict(Id, Record), NEW s, Knows(m, s)
  PROVE  /\ \A i, p : Knows(WithPause(m, i, p), s)
         /\ \A i : Knows([m EXCEPT ![i].removed = FALSE], s)
         /\ \A i : i \notin s => Knows([m EXCEPT ![i].removed = TRUE], s)
         /\ \A i : (\A j \in s : SameSlot(j, i) => j = i)
                     => Knows(WithNew(m, i), s \cup {i})
         /\ \A l : s \subseteq DOMAIN grant \ PinsOf(l)
                     => Knows(WithoutLock(m, l), s)
<1>0. m \in [DOMAIN m -> Record]
  BY DictElim
<1>1. \A i, p : Knows(WithPause(m, i, p), s)
  BY <1>0 DEF Knows, CurrentIn, WithPause, Record
<1>2. \A i : Knows([m EXCEPT ![i].removed = FALSE], s)
  BY <1>0 DEF Knows, CurrentIn, Record
<1>3. \A i : i \notin s => Knows([m EXCEPT ![i].removed = TRUE], s)
  BY <1>0 DEF Knows, CurrentIn, Record
<1>4. \A i : (\A j \in s : SameSlot(j, i) => j = i)
               => Knows(WithNew(m, i), s \cup {i})
  BY <1>0 DEF Knows, CurrentIn, WithNew, NewRecord, Record
<1>5. \A l : s \subseteq DOMAIN grant \ PinsOf(l) => Knows(WithoutLock(m, l), s)
  BY <1>0 DEF Knows, CurrentIn, WithoutLock, PinsOf
<1>6. QED
  BY <1>1, <1>2, <1>3, <1>4, <1>5

(* A step that changes one clean-up and no slot.                           *)
LEMMA CandidateStep ==
  ASSUME TypeInv, CandidatesAlone, NEW l \in Lock, NEW d, CandidateAlone(l, d),
         cln' = [cln EXCEPT ![l] = d],
         UNCHANGED <<grant, onLock, issued, void, now>>
  PROVE  CandidatesAlone'
BY DEF TypeInv, TypeOK, CandidatesAlone, CandidateAlone, Live, SameSlot

(* A step that leaves the locks and the clean-ups' states alone.           *)
LEMMA CandidateFrame ==
  ASSUME CandidatesAlone, Live' \subseteq Live, UNCHANGED <<grant, now>>,
         \A l \in Lock : cln'[l].pc = cln[l].pc /\ cln'[l].cur = cln[l].cur
  PROVE  CandidatesAlone'
BY DEF CandidatesAlone, CandidateAlone, SameSlot

(* A clean-up that starts has no candidate yet.                            *)
LEMMA StartIssued ==
  ASSUME TypeInv, CandidatesAlone, LocksHeld, NEW l \in Lock, NEW by,
         StartCleanup(l, by), tempLock[l] = "free",
         UNCHANGED <<grant, onLock, issued, void, now>>,
         UNCHANGED svc \/ (svc.pc = "cleanup" /\ svc' = [svc EXCEPT !.pc = "cleaning"])
  PROVE  CandidatesAlone' /\ LocksHeld'
<1>. DEFINE t == Expired(l)
            d == [NoCleaner EXCEPT !.by = by, !.pc = "next", !.todo = t]
<1>1. cln' = [cln EXCEPT ![l] = d] /\ tempLock' = [tempLock EXCEPT ![l] = "cleanup"]
  BY DEF StartCleanup
<1>2. d.pc = "next"
  <2>. HIDE DEF t
  <2>1. QED
    BY DEF NoCleaner
<1>3. CandidateAlone(l, d)
  BY <1>2 DEF CandidateAlone
<1>. HIDE DEF d
<1>4. CandidatesAlone'
  BY <1>1, <1>3, CandidateStep
<1>5. LocksHeld'
  BY <1>1, <1>2 DEF LocksHeld, TypeInv, TypeOK, Call
<1>6. QED
  BY <1>4, <1>5

(* A clean-up keeps it: it archives only its candidate, whose slot is      *)
(* empty, and its next candidate is alone in its slot.                     *)
LEMMA CleanupIssued ==
  ASSUME IssuedInv, NEW l \in Lock, CoordinatorCleans(l) \/ CleanupStep(l)
  PROVE  IssuedInv'
<1>. USE DEF IssuedInv, storeVars, lockVars, ghostVars, taskVars, envVars
<1>0. /\ GoneInv' /\ TypeInv /\ mem \in Dict(Id, Record)
      /\ cln \in [Lock -> Cleaner] /\ svc \in Call
      /\ cln[l] \in Cleaner /\ CleanerKnown(l, cln[l])
  BY CleanupGone DEF GoneInv, TypeInv, TypeOK, CleanupKnown
<1>a. UNCHANGED <<grant, onLock, issued, void, now>>
  BY DEF CleanupStep, CoordinatorCleans, NextCandidate, CleanupDone,
         CleanupUnconfirmed, CleanupRejected, Archive, ArchiveSaved,
         ArchiveSaveFailed
<1>b. IssuedPinStays' /\ Live' = Live
  BY <1>a DEF IssuedPinStays, Live
<1>c. /\ NextAfter(l) = [cln EXCEPT ![l] = ToNext(cln[l])]
      /\ ToNext(cln[l]).pc = "next"
  BY <1>0 DEF NextAfter, ToNext, Cleaner
<1>d. ASSUME NEW d, cln' = [cln EXCEPT ![l] = d], d.pc \in {"next", "saving"},
             cln[l].pc # "idle", UNCHANGED <<tempLock, svc>>
      PROVE  CandidatesAlone' /\ LocksHeld'
  <2>1. CandidateAlone(l, d)
    BY <1>d DEF CandidateAlone
  <2>2. QED
    BY <1>0, <1>a, <1>d, <2>1, CandidateStep DEF LocksHeld
<1>e. ASSUME EndCleanup(l), cln[l].pc # "idle"
      PROVE  /\ CandidatesAlone' /\ LocksHeld'
             /\ svc' = svc \/ (svc' = [svc EXCEPT !.pc = "cleaned"] /\ svc.pc = "cleaning")
  <2>1. cln' = [cln EXCEPT ![l] = NoCleaner] /\ CandidateAlone(l, NoCleaner)
    BY <1>e DEF EndCleanup, CandidateAlone, NoCleaner
  <2>2. svc' = svc \/ (svc' = [svc EXCEPT !.pc = "cleaned"] /\ svc.pc = "cleaning")
    BY <1>0, <1>e DEF EndCleanup, TypeInv, CallOK
  <2>3. LocksHeld'
    BY <1>0, <1>e, <2>1, <2>2
       DEF EndCleanup, LocksHeld, NoCleaner, TypeInv, TypeOK, Call
  <2>4. QED
    BY <1>0, <1>a, <2>1, <2>2, <2>3, CandidateStep
<1>f. ASSUME svc' = svc \/ (svc' = [svc EXCEPT !.pc = "cleaned"] /\ svc.pc = "cleaning"),
             \A i : i \in onLock /\ CurrentIn(mem, i) => CurrentIn(mem', i)
      PROVE  CreationSound'
  BY <1>0, <1>a, <1>f DEF CreationSound, Occupants, SameSlot, Call, CurrentIn
<1>g. ASSUME svc' = svc \/ (svc' = [svc EXCEPT !.pc = "cleaned"] /\ svc.pc = "cleaning"),
             Knows(mem', Live), Knows(disk', Live)
      PROVE  LiveKnown'
  BY <1>0, <1>b, <1>g DEF LiveKnown, Call, Knows, CurrentIn
<1>1. CASE CoordinatorCleans(l)
  <2>1. CandidatesAlone' /\ LocksHeld'
    BY <1>0, <1>a, <1>1, StartIssued DEF CoordinatorCleans
  <2>2. QED
    BY <1>0, <1>b, <1>f, <1>g, <1>1, <2>1 DEF CoordinatorCleans, LiveKnown, CurrentIn
<1>2. ASSUME NEW i \in Id, NextCandidate(l, i)
      PROVE  IssuedInv'
  <2>. DEFINE d == IF i \in Expired(l) THEN ToSent(cln[l], i) ELSE Drop(cln[l], i)
  <2>1. cln' = [cln EXCEPT ![l] = d] /\ d.pc \in {"next", "sent"}
    BY <1>0, <1>2 DEF NextCandidate, ToSent, Drop, Cleaner
  <2>2. CandidateAlone(l, d)
    <3>1. CASE i \in Expired(l)
      <4>1. d.cur = i
        BY <1>0, <3>1 DEF ToSent, Cleaner
      <4>2. grant[i].expiry <= now /\ \A j \in Live : SameSlot(j, i) => j = i
        BY <3>1 DEF Expired, Unique, LiveKnown, Knows, CurrentIn
      <4>. HIDE DEF d
      <4>3. QED
        BY <4>1, <4>2 DEF CandidateAlone
    <3>2. CASE i \notin Expired(l)
      <4>1. d.pc = "next"
        BY <1>0, <1>2, <3>2 DEF Drop, Cleaner, NextCandidate
      <4>. HIDE DEF d
      <4>2. QED
        BY <4>1 DEF CandidateAlone
    <3>3. QED
      BY <3>1, <3>2
  <2>. HIDE DEF d
  <2>3. CandidatesAlone'
    BY <1>0, <1>a, <2>1, <2>2, CandidateStep
  <2>4. LocksHeld'
    BY <1>0, <1>2, <2>1 DEF NextCandidate, LocksHeld
  <2>5. QED
    BY <1>0, <1>b, <1>f, <1>g, <1>2, <2>3, <2>4 DEF NextCandidate, LiveKnown, CurrentIn
<1>3. CASE CleanupDone(l)
  BY <1>0, <1>b, <1>e, <1>f, <1>g, <1>3 DEF CleanupDone, LiveKnown, CurrentIn
<1>4. CASE CleanupUnconfirmed(l)
  BY <1>0, <1>b, <1>e, <1>f, <1>g, <1>4 DEF CleanupUnconfirmed, LiveKnown, CurrentIn
<1>5. CASE CleanupRejected(l)
  BY <1>0, <1>b, <1>c, <1>d, <1>f, <1>g, <1>5 DEF CleanupRejected, LiveKnown, CurrentIn
<1>6. CASE Archive(l)
  <2>1. cln[l].cur \notin onLock
    BY <1>0, <1>6 DEF Archive, CleanerKnown
  <2>2. Knows(mem', Live) /\ \A i : i \in onLock /\ CurrentIn(mem, i) => CurrentIn(mem', i)
    <3>1. Knows(mem, onLock \cap DOMAIN mem \cap {i \in Id : CurrentIn(mem, i)})
      BY DEF Knows
    <3>2. DOMAIN mem \subseteq Id
      BY <1>0, DictElim
    <3>3. Knows(mem', onLock \cap DOMAIN mem \cap {i \in Id : CurrentIn(mem, i)})
      <4>. DEFINE s == onLock \cap DOMAIN mem \cap {i \in Id : CurrentIn(mem, i)}
      <4>1. cln[l].cur \notin s /\ Knows(mem, s)
        BY <2>1, <3>1
      <4>. HIDE DEF s
      <4>2. Knows([mem EXCEPT ![cln[l].cur].removed = TRUE], s)
        BY <1>0, <4>1, KnowsUpdates
      <4>3. mem' = mem \/ mem' = [mem EXCEPT ![cln[l].cur].removed = TRUE]
        BY <1>6 DEF Archive
      <4>4. Knows(mem', s)
        BY <4>1, <4>2, <4>3 DEF Knows, CurrentIn
      <4>5. QED
        BY <4>4 DEF s
    <3>4. QED
      BY <3>2, <3>3 DEF Knows, CurrentIn, LiveKnown, Live
  <2>3. CandidatesAlone' /\ LocksHeld'
    <3>1. ToSaving(cln[l]).pc = "saving"
      BY <1>0 DEF ToSaving, Cleaner
    <3>2. CASE CurrentIn(mem, cln[l].cur)
      <4>1. cln' = [cln EXCEPT ![l] = ToSaving(cln[l])]
        BY <1>6, <3>2 DEF Archive, ToSaving
      <4>2. QED
        BY <1>d, <1>6, <3>1, <4>1 DEF Archive
    <3>3. CASE ~CurrentIn(mem, cln[l].cur)
      BY <1>c, <1>d, <1>6, <3>3 DEF Archive
    <3>4. QED
      BY <3>2, <3>3
  <2>4. QED
    BY <1>0, <1>b, <1>f, <1>g, <1>6, <2>2, <2>3 DEF Archive, LiveKnown, Knows, CurrentIn
<1>7. CASE ArchiveSaved(l)
  BY <1>0, <1>b, <1>c, <1>d, <1>f, <1>g, <1>7 DEF ArchiveSaved, LiveKnown, CurrentIn
<1>8. CASE ArchiveSaveFailed(l)
  <2>1. Knows(mem', Live) /\ \A i : CurrentIn(mem, i) => CurrentIn(mem', i)
    <3>1. \A s : Knows(mem, s) => Knows(mem', s)
      <4>1. mem' = mem \/ mem' = [mem EXCEPT ![cln[l].cur].removed = FALSE]
        BY <1>8 DEF ArchiveSaveFailed
      <4>2. \A s : Knows(mem, s) => Knows([mem EXCEPT ![cln[l].cur].removed = FALSE], s)
        BY <1>0, KnowsUpdates
      <4>3. QED
        BY <4>1, <4>2
    <3>2. QED
      BY <3>1 DEF Knows, LiveKnown
  <2>2. Knows(disk', Live)
    BY <1>8 DEF ArchiveSaveFailed, LiveKnown
  <2>3. QED
    BY <1>0, <1>b, <1>e, <1>f, <1>g, <1>8, <2>1, <2>2 DEF ArchiveSaveFailed, LiveKnown
<1>9. QED
  BY <1>1, <1>2, <1>3, <1>4, <1>5, <1>6, <1>7, <1>8 DEF CleanupStep

(* Marking archived records as copied disturbs no candidate.               *)
LEMMA CopiedFields ==
  ASSUME TypeInv, NEW b \in [Lock -> Copies],
         cln' = [l \in Lock |-> [cln[l] EXCEPT !.copied = b[l]]]
  PROVE  \A l \in Lock : cln'[l].pc = cln[l].pc /\ cln'[l].cur = cln[l].cur
<1>1. \A l \in Lock : cln[l] \in Cleaner
  BY DEF TypeInv, TypeOK
<1>2. QED
  BY <1>1 DEF Cleaner

(* A call that ends gives back what it holds, and no more.                 *)
LEMMA EndIssued ==
  ASSUME IssuedInv, NEW hangup \in BOOLEAN, EndCall(hangup), svc.lock \in Lock,
         UNCHANGED <<grant, onLock, issued, void, now>>,
         \A l \in Lock : cln'[l].pc = cln[l].pc /\ cln'[l].cur = cln[l].cur,
         Knows(mem', Live), Knows(disk', Live)
  PROVE  /\ LocksHeld' /\ CandidatesAlone' /\ LiveKnown' /\ CreationSound'
         /\ IssuedPinStays'
<1>1. svc' = NoCall /\ Live' = Live
  BY DEF EndCall, Live
<1>2. LocksHeld'
  BY <1>1 DEF IssuedInv, GoneInv, TypeInv, TypeOK, LocksHeld, EndCall, NoCall
<1>3. CandidatesAlone'
  BY <1>1, CandidateFrame DEF IssuedInv
<1>4. LiveKnown'
  BY <1>1 DEF LiveKnown, NoCall, Knows, CurrentIn
<1>5. CreationSound' /\ IssuedPinStays'
  BY <1>1 DEF IssuedInv, CreationSound, NoCall, IssuedPinStays
<1>6. QED
  BY <1>2, <1>3, <1>4, <1>5

(* A service call keeps it: a new record supersedes only records whose PIN *)
(* is gone, and a rollback restores a store that still knows the others.   *)
LEMMA ServiceIssued ==
  ASSUME IssuedInv, ServiceStep
  PROVE  IssuedInv'
<1>. USE DEF IssuedInv, storeVars, lockVars, ghostVars, taskVars, envVars
<1>0. /\ GoneInv' /\ TypeInv /\ CallOK /\ mem \in Dict(Id, Record)
      /\ cln \in [Lock -> Cleaner] /\ svc \in Call
  BY ServiceGone DEF GoneInv, TypeInv, TypeOK
<1>a. UNCHANGED <<grant, onLock, void, now>> /\ svc.lock \in Lock
  BY <1>0 DEF ServiceStep, ServiceCleans, CredentialDone, SendCreate, PersistIntent,
         RefusePause, IntentSaved, CallUnconfirmed, CreateConfirmed,
         PauseConfirmed, CallSaved, CallSaveFailed, CallOK
<1>b. ASSUME UNCHANGED issued
      PROVE  IssuedPinStays' /\ Live' = Live
  BY <1>a, <1>b DEF IssuedPinStays, Live
<1>c. ASSUME UNCHANGED <<issued, cln>>
      PROVE  CandidatesAlone'
  BY <1>a, <1>b, <1>c, CandidateFrame
<1>d. ASSUME NEW hangup \in BOOLEAN, EndCall(hangup),
             UNCHANGED <<issued, cln, mem, disk>>
      PROVE  IssuedInv'
  <2>1. Knows(mem', Live) /\ Knows(disk', Live)
    BY <1>d DEF LiveKnown
  <2>2. QED
    BY <1>0, <1>a, <1>d, <2>1, EndIssued
<1>e. ASSUME tempLock' = [tempLock EXCEPT ![svc.lock] = "service"],
             svc'.lock = svc.lock, Ready, UNCHANGED cln
      PROVE  LocksHeld'
  <2>1. /\ tempLock'[svc.lock] = "service"
        /\ \A l \in Lock : l # svc.lock => tempLock'[l] = tempLock[l]
    BY <1>0, <1>a, <1>e DEF TypeInv, TypeOK
  <2>2. cln[svc.lock].pc = "idle"
    BY <1>a, <1>e DEF LocksHeld, Ready
  <2>3. QED
    BY <1>e, <2>1, <2>2 DEF LocksHeld
<1>1. CASE ServiceCleans
  <2>1. CandidatesAlone' /\ LocksHeld'
    BY <1>0, <1>a, <1>1, StartIssued DEF ServiceCleans
  <2>2. LiveKnown' /\ CreationSound'
    BY <1>0, <1>a, <1>b, <1>1
       DEF ServiceCleans, LiveKnown, Knows, CurrentIn, CreationSound, Call
  <2>3. QED
    BY <1>0, <1>b, <1>1, <2>1, <2>2 DEF ServiceCleans
<1>2. CASE CredentialDone
  BY <1>d, <1>2 DEF CredentialDone
<1>3. CASE SendCreate
  <2>1. LocksHeld'
    <3>1. svc'.lock = svc.lock
      BY <1>0, <1>3 DEF SendCreate, Call
    <3>2. QED
      BY <1>e, <1>3, <3>1 DEF SendCreate
  <2>2. ~svc.reply /\ svc'.reply = svc.reply /\ svc'.pc = "send"
    BY <1>0, <1>3 DEF SendCreate, Ready, GoneInv, CallKnown, Call
  <2>3. LiveKnown' /\ CreationSound'
    BY <1>b, <1>3, <2>2
       DEF SendCreate, LiveKnown, Knows, CurrentIn, CreationSound
  <2>4. QED
    BY <1>0, <1>b, <1>c, <1>3, <2>1, <2>3 DEF SendCreate
<1>4. CASE PersistIntent
  <2>1. svc' = [svc EXCEPT !.pc = "intent", !.prev = mem]
    BY <1>4 DEF PersistIntent
  <2>2. /\ svc'.prev = mem /\ svc'.op = svc.op /\ svc'.pc = "intent"
        /\ svc'.lock = svc.lock /\ svc.op # "create"
    BY <1>0, <1>4, <2>1 DEF PersistIntent, Call
  <2>3. LocksHeld'
    BY <1>e, <1>4, <2>2 DEF PersistIntent
  <2>4. Knows(mem', Live)
    BY <1>0, <1>4, KnowsUpdates DEF PersistIntent, LiveKnown
  <2>5. LiveKnown' /\ CreationSound'
    BY <1>b, <1>4, <2>2, <2>4
       DEF PersistIntent, LiveKnown, Knows, CurrentIn, CreationSound
  <2>6. QED
    BY <1>0, <1>b, <1>c, <1>4, <2>3, <2>5 DEF PersistIntent
<1>5. CASE RefusePause
  BY <1>d, <1>5 DEF RefusePause
<1>6. CASE IntentSaved
  <2>1. /\ svc'.pc = "send" /\ svc'.op = svc.op /\ svc'.lock = svc.lock
        /\ svc.op \in {"pause", "resume"}
    BY <1>0, <1>6 DEF IntentSaved, CallOK, Call
  <2>2. LocksHeld'
    BY <1>0, <1>6, <2>1 DEF IntentSaved, LocksHeld
  <2>3. LiveKnown' /\ CreationSound'
    BY <1>b, <1>6, <2>1
       DEF IntentSaved, LiveKnown, Knows, CurrentIn, CreationSound
  <2>4. QED
    BY <1>0, <1>b, <1>c, <1>6, <2>2, <2>3 DEF IntentSaved
<1>7. CASE CallUnconfirmed
  BY <1>d, <1>7 DEF CallUnconfirmed
<1>8. CASE CreateConfirmed
  <2>1. svc' = [svc EXCEPT !.pc = "save", !.prev = mem]
    BY <1>8 DEF CreateConfirmed
  <2>2. /\ svc'.prev = mem /\ svc'.op = svc.op /\ svc'.pc = "save"
        /\ svc'.lock = svc.lock /\ svc'.id = svc.id /\ svc'.reply = svc.reply
    BY <1>0, <1>8, <2>1 DEF CreateConfirmed, Call
  <2>3. \A l \in Lock : cln'[l].pc = cln[l].pc /\ cln'[l].cur = cln[l].cur
    <3>. DEFINE b == [l \in Lock |-> OneMore(cln[l])]
    <3>1. b \in [Lock -> Copies]
      BY <1>0, CopiesType
    <3>2. cln' = [l \in Lock |-> [cln[l] EXCEPT !.copied = b[l]]]
      BY <1>8 DEF CreateConfirmed
    <3>. HIDE DEF b
    <3>3. QED
      BY <1>0, <3>1, <3>2, CopiedFields
  <2>4. LocksHeld'
    BY <1>0, <1>8, <2>2, <2>3 DEF CreateConfirmed, LocksHeld
  <2>5. Knows(mem', Live \cup {svc.id})
    <3>1. \A j \in Live : SameSlot(j, svc.id) => j = svc.id
      BY <1>8 DEF CreateConfirmed, CreationSound, Occupants, Live
    <3>2. QED
      BY <1>0, <1>8, <3>1, KnowsUpdates DEF CreateConfirmed, LiveKnown
  <2>6. LiveKnown' /\ CreationSound'
    BY <1>a, <1>b, <1>8, <2>2, <2>5
       DEF CreateConfirmed, LiveKnown, Knows, CurrentIn, CreationSound
  <2>7. CandidatesAlone'
    BY <1>a, <1>b, <1>8, <2>3, CandidateFrame DEF CreateConfirmed
  <2>8. QED
    BY <1>0, <1>b, <1>8, <2>4, <2>6, <2>7 DEF CreateConfirmed
<1>9. CASE PauseConfirmed
  <2>1. svc' = [svc EXCEPT !.pc = "save", !.prev = mem]
    BY <1>9 DEF PauseConfirmed
  <2>2. /\ svc'.prev = mem /\ svc'.op = svc.op /\ svc'.pc = "save"
        /\ svc'.lock = svc.lock /\ svc.op # "create"
    BY <1>0, <1>9, <2>1 DEF PauseConfirmed, Call
  <2>3. LocksHeld'
    BY <1>0, <1>9, <2>2 DEF PauseConfirmed, LocksHeld
  <2>4. Knows(mem', Live)
    BY <1>0, <1>9, KnowsUpdates DEF PauseConfirmed, LiveKnown
  <2>5. LiveKnown' /\ CreationSound'
    BY <1>b, <1>9, <2>2, <2>4
       DEF PauseConfirmed, LiveKnown, Knows, CurrentIn, CreationSound
  <2>6. QED
    BY <1>0, <1>b, <1>c, <1>9, <2>3, <2>5 DEF PauseConfirmed
<1>10. CASE CallSaved
  <2>1. CASE svc.op = "create"
    <3>1. svc.reply /\ svc.pc = "save" /\ issued' = issued \cup {svc.id}
      BY <1>10, <2>1 DEF CallSaved, GoneInv, CallKnown
    <3>2. IssuedPinStays'
      BY <1>a, <2>1, <3>1 DEF CreationSound, IssuedPinStays
    <3>3. Live' \subseteq Live \cup {svc.id}
      BY <1>a, <3>1 DEF Live
    <3>4. LiveKnown'
      <4>1. svc' = NoCall /\ mem' = mem /\ disk' = mem
        BY <1>10 DEF CallSaved, EndCall
      <4>2. \A i \in Live' : CurrentIn(mem, i)
        <5>1. ASSUME NEW i \in Live' PROVE CurrentIn(mem, i)
          <6>1. CASE i \in Live
            BY <6>1 DEF LiveKnown, Knows
          <6>2. CASE i = svc.id
            BY <1>a, <2>1, <3>1, <5>1, <6>2 DEF CreationSound, Live
          <6>3. QED
            BY <3>3, <5>1, <6>1, <6>2
        <5>2. QED
          BY <5>1
      <4>3. QED
        BY <4>1, <4>2 DEF LiveKnown, Knows, CurrentIn, NoCall
    <3>5. CandidatesAlone'
      <4>1. ASSUME NEW l \in Lock, cln[l].pc = "sent"
            PROVE  svc.id \in DOMAIN grant /\ ~SameSlot(svc.id, cln[l].cur)
        <5>1. tempLock[l] = "cleanup" /\ tempLock[svc.lock] = "service"
          BY <2>1, <3>1, <4>1 DEF LocksHeld
        <5>2. grant[svc.id].lock = svc.lock /\ grant[cln[l].cur].lock = l
          BY <2>1, <3>1, <4>1 DEF GoneInv, CallKnown, CleanupKnown, CleanerKnown
        <5>3. QED
          BY <2>1, <3>1, <5>1, <5>2 DEF SameSlot, GoneInv, CallKnown
      <4>2. UNCHANGED cln
        BY <1>10 DEF CallSaved
      <4>3. QED
        BY <1>a, <3>3, <4>1, <4>2
           DEF CandidatesAlone, CandidateAlone, SameSlot
    <3>6. LocksHeld' /\ CreationSound'
      BY <1>0, <1>10, <1>a
         DEF CallSaved, EndCall, LocksHeld, CreationSound, NoCall, TypeInv, TypeOK
    <3>7. QED
      BY <1>0, <3>2, <3>4, <3>5, <3>6
  <2>2. CASE svc.op # "create"
    <3>1. /\ UNCHANGED <<issued, cln>>
          /\ Knows(mem', Live) /\ Knows(disk', Live)
          /\ \E hangup \in BOOLEAN : EndCall(hangup)
      BY <1>10, <2>2 DEF CallSaved, LiveKnown
    <3>2. QED
      BY <1>0, <1>a, <3>1, EndIssued
  <2>3. QED
    BY <2>1, <2>2
<1>11. CASE CallSaveFailed
  <2>1. Knows(svc.prev, Live) /\ Knows(mem, Live) /\ Knows(disk, Live)
    BY <1>11 DEF CallSaveFailed, LiveKnown
  <2>2. Knows(mem', Live)
    <3>1. CASE svc.op \in {"create", "reset"}
      BY <1>11, <2>1, <3>1 DEF CallSaveFailed
    <3>2. CASE svc.op \notin {"create", "reset"}
      <4>1. mem' = [j \in DOMAIN mem |-> IF j = svc.id THEN svc.prev[svc.id]
                                                       ELSE mem[j]]
        BY <1>11, <3>2 DEF CallSaveFailed
      <4>2. QED
        BY <2>1, <4>1 DEF Knows, CurrentIn
    <3>3. QED
      BY <3>1, <3>2
  <2>3. \A l \in Lock : cln'[l].pc = cln[l].pc /\ cln'[l].cur = cln[l].cur
    <3>1. CASE svc.op = "create"
      <4>. DEFINE b == [l \in Lock |-> OneLess(cln[l])]
      <4>1. b \in [Lock -> Copies]
        BY <1>0, CopiesType
      <4>2. cln' = [l \in Lock |-> [cln[l] EXCEPT !.copied = b[l]]]
        BY <1>11, <3>1 DEF CallSaveFailed
      <4>. HIDE DEF b
      <4>3. QED
        BY <1>0, <4>1, <4>2, CopiedFields
    <3>2. CASE svc.op # "create"
      BY <1>11, <3>2 DEF CallSaveFailed
    <3>3. QED
      BY <3>1, <3>2
  <2>4. /\ Knows(disk', Live) /\ UNCHANGED issued
        /\ \E hangup \in BOOLEAN : EndCall(hangup)
    BY <1>11, <2>1 DEF CallSaveFailed
  <2>5. QED
    BY <1>0, <1>a, <2>2, <2>3, <2>4, EndIssued
<1>12. QED
  BY <1>1, <1>2, <1>3, <1>4, <1>5, <1>6, <1>7, <1>8, <1>9, <1>10, <1>11
     DEF ServiceStep

(* The first step of a call keeps it: a reset report voids what it forgets. *)
LEMMA NewCallIssued ==
  ASSUME IssuedInv, NEW l \in Lock, NewCall(l)
  PROVE  IssuedInv'
<1>. USE DEF IssuedInv, storeVars, lockVars, ghostVars, taskVars, envVars
<1>0. /\ GoneInv' /\ TypeInv /\ mem \in Dict(Id, Record)
      /\ svc = NoCall /\ UNCHANGED <<grant, onLock, issued, now, cln, tempLock>>
      /\ void \subseteq void'
  BY NewCallGone DEF GoneInv, TypeInv, TypeOK, NewCall, CallCreate, CallPause,
                     CallCredential, CallReset, Begin
<1>1. Live' \subseteq Live /\ IssuedPinStays'
  BY <1>0 DEF Live, IssuedPinStays
<1>2. CandidatesAlone'
  BY <1>0, <1>1, CandidateFrame
<1>3. ASSUME svc'.pc = "cleanup", svc'.reply = FALSE, UNCHANGED <<mem, disk>>
      PROVE  IssuedInv'
  BY <1>0, <1>1, <1>2, <1>3
     DEF LocksHeld, LiveKnown, Knows, CurrentIn, CreationSound
<1>4. ASSUME NEW op, NEW i, NEW e, Begin(op, l, i, e), UNCHANGED <<mem, disk>>
      PROVE  IssuedInv'
  BY <1>3, <1>4 DEF Begin, NoCall
<1>5. CASE CallReset(l)
  <2>1. /\ svc'.op = "reset" /\ svc'.prev = mem /\ svc'.pc = "save"
    BY <1>5 DEF CallReset, NoCall
  <2>2. Live' \subseteq DOMAIN grant \ PinsOf(l)
    BY <1>0, <1>5 DEF CallReset, Live, GoneInv, PinsKnown
  <2>3. Knows(mem, Live')
    BY <1>1 DEF LiveKnown, Knows
  <2>4. Knows(mem', Live')
    BY <1>0, <1>5, <2>2, <2>3, KnowsUpdates DEF CallReset
  <2>5. LiveKnown'
    BY <1>1, <1>5, <2>1, <2>3, <2>4 DEF CallReset, LiveKnown, Knows, CurrentIn
  <2>6. LocksHeld' /\ CreationSound'
    BY <1>0, <2>1 DEF LocksHeld, CreationSound
  <2>7. QED
    BY <1>0, <1>1, <1>2, <2>5, <2>6
<1>6. QED
  BY <1>4, <1>5 DEF NewCall, CallCreate, CallPause, CallCredential

(* Expiries and the clock are numbers.                                     *)
LEMMA TimesAreNumbers ==
  ASSUME TypeInv
  PROVE  now \in Nat /\ \A i \in DOMAIN grant : grant[i].expiry \in Nat
<1>1. Time \subseteq Nat
  BY TimeAssumption DEF Time
<1>2. grant \in [DOMAIN grant -> Grant]
  BY DictElim DEF TypeInv, TypeOK
<1>3. \A i \in DOMAIN grant : grant[i].expiry \in Time
  BY <1>2 DEF Grant
<1>4. QED
  BY <1>1, <1>3 DEF TypeInv, TypeOK

(* What the locks do keeps it: the slot of a clean-up's candidate holds no *)
(* issued PIN that has not expired, and a new PIN enters a free slot.      *)
LEMMA LockIssued ==
  ASSUME IssuedInv, LockStep
  PROVE  IssuedInv'
<1>. USE DEF IssuedInv, storeVars, lockVars, ghostVars, taskVars, envVars
<1>0. /\ GoneInv' /\ TypeInv /\ GoneInv
      /\ svc \in Call /\ cln \in [Lock -> Cleaner]
  BY LockGone DEF GoneInv, TypeInv, TypeOK
<1>a. ASSUME UNCHANGED <<mem, disk, svc, cln, tempLock, grant, issued, now>>,
             void \subseteq void', onLock' \subseteq onLock,
             \A i \in onLock \ onLock' : grant[i].expiry <= now \/ i \in void'
      PROVE  IssuedInv'
  <2>1. Live' \subseteq Live
    BY <1>a DEF Live
  <2>2. LocksHeld' /\ CandidatesAlone'
    BY <1>a, <2>1, CandidateFrame DEF LocksHeld
  <2>3. LiveKnown'
    BY <1>a, <2>1 DEF LiveKnown, Knows, CurrentIn
  <2>4. CreationSound'
    <3>1. svc.op = "create" /\ svc.reply =>
            (svc.id \notin void' /\ grant[svc.id].expiry > now => svc.id \in onLock')
      <4>1. ASSUME svc.op = "create", svc.reply, svc.id \notin void',
                   grant[svc.id].expiry > now, svc.id \notin onLock'
            PROVE  FALSE
        <5>1. svc.id \in onLock
          BY <1>a, <4>1 DEF CreationSound
        <5>2. grant[svc.id].expiry <= now
          BY <1>a, <4>1, <5>1
        <5>3. grant[svc.id].expiry \in Nat /\ now \in Nat
          BY <1>0, <5>1, TimesAreNumbers DEF GoneInv, PinsKnown
        <5>4. QED
          BY <4>1, <5>2, <5>3
      <4>2. QED
        BY <4>1
    <3>2. QED
      BY <1>a, <3>1 DEF CreationSound, Occupants, SameSlot, CurrentIn
  <2>5. IssuedPinStays'
    <3>1. ASSUME NEW i \in issued \ void', grant[i].expiry > now, i \notin onLock'
          PROVE  FALSE
      <4>1. i \in onLock
        BY <1>a, <3>1 DEF IssuedPinStays
      <4>2. grant[i].expiry <= now
        BY <1>a, <3>1, <4>1
      <4>3. grant[i].expiry \in Nat /\ now \in Nat
        BY <1>0, <4>1, TimesAreNumbers DEF GoneInv, PinsKnown
      <4>4. QED
        BY <3>1, <4>2, <4>3
    <3>2. QED
      BY <1>a, <3>1 DEF IssuedPinStays
  <2>6. QED
    BY <1>0, <2>2, <2>3, <2>4, <2>5
<1>1. ASSUME NEW s \in Slot, LockCreates(s)
      PROVE  IssuedInv'
  <2>1. /\ svc.id \notin DOMAIN grant /\ svc.id \notin issued
        /\ DOMAIN grant' = DOMAIN grant \cup {svc.id}
        /\ onLock' = onLock \cup {svc.id}
        /\ \A j \in DOMAIN grant : grant'[j] = grant[j]
        /\ grant'[svc.id].lock = svc.lock /\ grant'[svc.id].slot = s
        /\ issued \subseteq DOMAIN grant /\ onLock \subseteq DOMAIN grant
    BY <1>1 DEF LockCreates, GoneInv, CallKnown, PinsKnown
  <2>2. /\ svc'.prev = svc.prev /\ svc'.id = svc.id /\ svc'.op = svc.op
        /\ svc'.pc = "send" /\ svc'.lock = svc.lock /\ svc'.reply = TRUE
    BY <1>0, <1>1 DEF LockCreates, Call
  <2>3. Live' = Live /\ Live \subseteq DOMAIN grant
    BY <1>1, <2>1 DEF LockCreates, Live
  <2>4. LocksHeld' /\ LiveKnown'
    BY <1>1, <2>2, <2>3 DEF LockCreates, LocksHeld, LiveKnown, Knows, CurrentIn
  <2>5. CandidatesAlone'
    <3>1. \A l \in Lock : cln[l].pc = "sent" => cln[l].cur \in DOMAIN grant
      BY <1>0 DEF GoneInv, CleanupKnown, CleanerKnown
    <3>2. QED
      BY <1>1, <2>1, <2>3, <3>1
         DEF LockCreates, CandidatesAlone, CandidateAlone, SameSlot
  <2>6. CreationSound'
    <3>1. Occupants(svc.id)' \subseteq {svc.id}
      BY <1>1, <2>1, <2>2 DEF LockCreates, Occupants, SameSlot
    <3>2. QED
      BY <2>1, <2>2, <3>1 DEF CreationSound
  <2>7. IssuedPinStays'
    BY <1>1, <2>1 DEF LockCreates, IssuedPinStays
  <2>8. QED
    BY <1>0, <2>4, <2>5, <2>6, <2>7
<1>2. CASE LockReschedules
  <2>1. /\ svc'.prev = svc.prev /\ svc'.pc = svc.pc /\ svc'.op = svc.op
        /\ svc'.lock = svc.lock /\ svc.op # "create"
        /\ Live' = Live
    BY <1>0, <1>2 DEF LockReschedules, Call, Live
  <2>2. LocksHeld' /\ CandidatesAlone'
    BY <1>2, <2>1, CandidateFrame DEF LockReschedules, LocksHeld
  <2>3. LiveKnown' /\ CreationSound' /\ IssuedPinStays'
    BY <1>2, <2>1
       DEF LockReschedules, LiveKnown, Knows, CurrentIn, CreationSound, IssuedPinStays
  <2>4. QED
    BY <1>0, <2>2, <2>3
<1>3. ASSUME NEW l \in Lock, LockDeletes(l)
      PROVE  IssuedInv'
  <2>1. /\ onLock' = onLock \ Occupants(cln[l].cur)
        /\ cln' = [cln EXCEPT ![l].reply = TRUE] /\ cln[l].pc = "sent"
        /\ UNCHANGED <<mem, disk, svc, tempLock, grant, issued, void, now>>
    BY <1>3 DEF LockDeletes, Erase
  <2>2. \A k \in Lock : cln'[k].pc = cln[k].pc /\ cln'[k].cur = cln[k].cur
    BY <1>0, <2>1 DEF Cleaner
  <2>3. Live' \subseteq Live
    BY <2>1 DEF Live
  <2>4. LocksHeld' /\ CandidatesAlone' /\ LiveKnown'
    BY <2>1, <2>2, <2>3, CandidateFrame DEF LocksHeld, LiveKnown, Knows, CurrentIn
  <2>5. CreationSound'
    <3>1. svc.op = "create" /\ svc.reply => svc.id \notin Occupants(cln[l].cur)
      <4>1. ASSUME svc.op = "create", svc.reply
            PROVE  svc.id \notin Occupants(cln[l].cur)
        <5>1. tempLock[l] = "cleanup" /\ tempLock[svc.lock] = "service"
          BY <1>0, <2>1, <4>1 DEF LocksHeld, GoneInv, CallKnown
        <5>2. grant[svc.id].lock = svc.lock /\ grant[cln[l].cur].lock = l
          BY <1>0, <2>1, <4>1 DEF GoneInv, CallKnown, CleanupKnown, CleanerKnown
        <5>3. QED
          BY <5>1, <5>2 DEF Occupants, SameSlot
      <4>2. QED
        BY <4>1
    <3>2. QED
      BY <2>1, <3>1 DEF CreationSound, Occupants, SameSlot, CurrentIn
  <2>6. IssuedPinStays'
    <3>1. ASSUME NEW i \in issued \ void, grant[i].expiry > now, i \notin onLock'
          PROVE  FALSE
      <4>1. i \in Live /\ SameSlot(i, cln[l].cur)
        BY <2>1, <3>1 DEF IssuedPinStays, Live, Occupants
      <4>2. i = cln[l].cur /\ grant[i].expiry <= now
        BY <2>1, <4>1 DEF CandidatesAlone, CandidateAlone
      <4>3. grant[i].expiry \in Nat /\ now \in Nat
        BY <1>0, <4>1, TimesAreNumbers DEF Live, GoneInv, PinsKnown
      <4>4. QED
        BY <3>1, <4>2, <4>3
    <3>2. QED
      BY <2>1, <3>1 DEF IssuedPinStays
  <2>7. QED
    BY <1>0, <2>4, <2>5, <2>6
<1>4. ASSUME NEW l \in Lock, PhysicalReset(l)
      PROVE  IssuedInv'
  <2>1. /\ UNCHANGED <<mem, disk, svc, cln, tempLock, grant, issued, now>>
        /\ void' = void \cup (onLock \cap PinsOf(l))
        /\ onLock' = onLock \ PinsOf(l)
    BY <1>4 DEF PhysicalReset, Erase
  <2>2. QED
    BY <1>a, <2>1
<1>5. ASSUME NEW i \in Id, LockForgets(i)
      PROVE  IssuedInv'
  <2>1. /\ UNCHANGED <<mem, disk, svc, cln, tempLock, grant, issued, void, now>>
        /\ onLock' = onLock \ {i} /\ grant[i].expiry <= now
    BY <1>5 DEF LockForgets, Erase
  <2>2. QED
    BY <1>a, <2>1
<1>6. QED
  BY <1>1, <1>2, <1>3, <1>4, <1>5 DEF LockStep

(* Link loss, time and restarts keep it.                                   *)
LEMMA EnvironmentIssued ==
  ASSUME IssuedInv, Environment
  PROVE  IssuedInv'
<1>. USE DEF IssuedInv, storeVars, lockVars, ghostVars, taskVars, envVars
<1>0. GoneInv' /\ TypeInv /\ GoneInv
  BY EnvironmentGone DEF GoneInv
<1>1. CASE Restart
  <2>1. UNCHANGED <<disk, grant, onLock, issued, void, now>> /\ mem' = disk
        /\ svc' = NoCall /\ cln' = [l \in Lock |-> NoCleaner]
    BY <1>1 DEF Restart
  <2>2. LocksHeld' /\ CandidatesAlone' /\ CreationSound' /\ IssuedPinStays'
    BY <2>1 DEF LocksHeld, CandidatesAlone, CandidateAlone, CreationSound,
                IssuedPinStays, NoCall, NoCleaner
  <2>3. LiveKnown'
    BY <2>1 DEF LiveKnown, Knows, CurrentIn, Live, NoCall
  <2>4. QED
    BY <1>0, <2>2, <2>3
<1>2. CASE Tick
  <2>1. /\ UNCHANGED <<mem, disk, svc, cln, tempLock, grant, onLock, issued, void>>
        /\ now' = now + 1 /\ now \in Nat
    BY <1>0, <1>2, TimeAssumption DEF Tick, TypeInv, TypeOK, Time
  <2>2. \A i \in DOMAIN grant : grant[i].expiry \in Nat
    BY <1>0, TimesAreNumbers
  <2>3. LocksHeld' /\ LiveKnown'
    BY <2>1 DEF LocksHeld, LiveKnown, Knows, CurrentIn, Live
  <2>4. CandidatesAlone'
    <3>1. \A l \in Lock : cln[l].pc = "sent" => cln[l].cur \in DOMAIN grant
      BY <1>0 DEF GoneInv, CleanupKnown, CleanerKnown
    <3>2. QED
      BY <2>1, <2>2, <3>1 DEF CandidatesAlone, CandidateAlone, Live, SameSlot
  <2>5. CreationSound'
    <3>1. svc.op = "create" /\ svc.reply => svc.id \in DOMAIN grant
      BY <1>0 DEF GoneInv, CallKnown
    <3>2. QED
      BY <2>1, <2>2, <3>1 DEF CreationSound, Occupants, SameSlot, CurrentIn
  <2>6. IssuedPinStays'
    <3>1. issued \subseteq DOMAIN grant
      BY <1>0 DEF GoneInv, PinsKnown
    <3>2. QED
      BY <2>1, <2>2, <3>1 DEF IssuedPinStays
  <2>7. QED
    BY <1>0, <2>3, <2>4, <2>5, <2>6
<1>3. ASSUME NEW l \in Lock, LinkDrops(l) \/ CooldownOver(l)
      PROVE  IssuedInv'
  <2>1. UNCHANGED <<mem, disk, svc, cln, tempLock, grant, onLock, issued, void, now>>
    BY <1>3 DEF LinkDrops, CooldownOver
  <2>2. QED
    BY <1>0, <2>1
       DEF LocksHeld, CandidatesAlone, CandidateAlone, LiveKnown, Knows,
           CurrentIn, Live, SameSlot, CreationSound, Occupants, IssuedPinStays
<1>4. QED
  BY <1>1, <1>2, <1>3 DEF Environment

LEMMA NextIssuedInv ==
  ASSUME IssuedInv, [Next]_vars
  PROVE  IssuedInv'
<1>1. CASE Next
  BY <1>1, CleanupIssued, ServiceIssued, NewCallIssued, LockIssued,
     EnvironmentIssued DEF Next
<1>2. CASE UNCHANGED vars
  <2>1. GoneInv'
    BY <1>2, NextGoneInv DEF IssuedInv
  <2>2. QED
    BY <1>2, <2>1
       DEF vars, IssuedInv, LocksHeld, CandidatesAlone, CandidateAlone, LiveKnown,
           Knows, CurrentIn, Live, SameSlot, CreationSound, Occupants, IssuedPinStays
<1>3. QED
  BY <1>1, <1>2

LEMMA IssuedInvHolds == Spec => []IssuedInv
BY InitIssuedInv, NextIssuedInv, PTL DEF Spec

(* A PIN whose creation was reported as successful stays on its lock until *)
(* it expires, unless somebody reset the lock or reported a reset: no      *)
(* clean-up of an older PIN of its slot deletes it.                        *)
THEOREM IssuedPinStaysHolds == Spec => []IssuedPinStays
<1>1. IssuedInv => IssuedPinStays
  BY DEF IssuedInv
<1>2. QED
  BY <1>1, IssuedInvHolds, PTL

(* As long as it is on the lock, the store has it as a current record, in  *)
(* memory and on disk, whatever rollbacks and restarts happened.           *)
THEOREM IssuedIsKnownHolds == Spec => []IssuedIsKnown
<1>1. IssuedInv => IssuedIsKnown
  BY DEF IssuedInv, LiveKnown, Knows, Live, IssuedIsKnown
<1>2. QED
  BY <1>1, IssuedInvHolds, PTL

=============================================================================
