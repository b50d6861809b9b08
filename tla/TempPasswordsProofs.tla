------------------------ MODULE TempPasswordsProofs ------------------------
(***************************************************************************)
(* Proofs about TempPasswords, for any number of locks, slots and password *)
(* ids and any bounds on time and restarts: type correctness, and that an  *)
(* archived PIN is gone from its lock.                                     *)
(***************************************************************************)
EXTENDS TempPasswords, TLAPS

-----------------------------------------------------------------------------
(* Dicts: a Python dict is a function on some subset of its possible keys. *)

(* A function on a subset of S with values in T is a dict.                 *)
LEMMA DictIntro ==
  ASSUME NEW S, NEW T, NEW D \in SUBSET S, NEW f \in [D -> T]
  PROVE  f \in Dict(S, T)
BY DEF Dict

(* Conversely, a dict is a function on its domain, a subset of S.          *)
LEMMA DictElim ==
  ASSUME NEW S, NEW T, NEW f \in Dict(S, T)
  PROVE  /\ DOMAIN f \in SUBSET S
         /\ f \in [DOMAIN f -> T]
BY DEF Dict

(* The empty store is a dict.                                              *)
LEMMA NoRecordsType ==
  ASSUME NEW S, NEW T
  PROVE  NoRecords \in Dict(S, T) /\ DOMAIN NoRecords = {}
<1>1. NoRecords \in [{} -> T]
  BY DEF NoRecords
<1>2. QED
  BY <1>1, DictIntro, {} \in SUBSET S

(* async_add_temp_password yields a well-formed store.                     *)
LEMMA WithNewType ==
  ASSUME NEW m \in Dict(Id, Record), NEW i \in Id
  PROVE  /\ WithNew(m, i) \in Dict(Id, Record)
         /\ DOMAIN WithNew(m, i) = DOMAIN m \cup {i}
<1>1. DOMAIN m \in SUBSET Id /\ m \in [DOMAIN m -> Record]
  BY DictElim
<1>2. WithNew(m, i) \in [DOMAIN m \cup {i} -> Record]
  <2>1. NewRecord \in Record
    BY DEF NewRecord, Record, Pause
  <2>2. \A j \in DOMAIN m : /\ m[j] \in Record
                            /\ [m[j] EXCEPT !.superseded = TRUE] \in Record
    BY <1>1 DEF Record
  <2>3. QED
    BY <2>1, <2>2 DEF WithNew
<1>3. QED
  BY <1>1, <1>2, DictIntro

(* So does async_report_factory_reset.                                     *)
LEMMA WithoutLockType ==
  ASSUME NEW m \in Dict(Id, Record), NEW l
  PROVE  /\ WithoutLock(m, l) \in Dict(Id, Record)
         /\ DOMAIN WithoutLock(m, l) = {k \in DOMAIN m : grant[k].lock # l}
<1>1. DOMAIN m \in SUBSET Id /\ m \in [DOMAIN m -> Record]
  BY DictElim
<1>2. WithoutLock(m, l) \in [{k \in DOMAIN m : grant[k].lock # l} -> Record]
  BY <1>1 DEF WithoutLock
<1>3. QED
  BY <1>1, <1>2, DictIntro

(* A store stays well-formed when one record of it is replaced.            *)
LEMMA ReplaceType ==
  ASSUME NEW m \in Dict(Id, Record), NEW i, NEW r \in Record
  PROVE  /\ [m EXCEPT ![i] = r] \in Dict(Id, Record)
         /\ [j \in DOMAIN m |-> IF j = i THEN r ELSE m[j]] \in Dict(Id, Record)
<1>1. DOMAIN m \in SUBSET Id /\ m \in [DOMAIN m -> Record]
  BY DictElim
<1>2. [m EXCEPT ![i] = r] \in [DOMAIN m -> Record]
  BY <1>1
<1>3. [j \in DOMAIN m |-> IF j = i THEN r ELSE m[j]] \in [DOMAIN m -> Record]
  BY <1>1
<1>4. QED
  BY <1>1, <1>2, <1>3, DictIntro

(* The two single-field updates of a record in the store.                  *)
LEMMA UpdateType ==
  ASSUME NEW m \in Dict(Id, Record), NEW i \in DOMAIN m,
         NEW p \in Pause, NEW b \in BOOLEAN
  PROVE  /\ WithPause(m, i, p) \in Dict(Id, Record)
         /\ [m EXCEPT ![i].removed = b] \in Dict(Id, Record)
<1>1. DOMAIN m \in SUBSET Id /\ m \in [DOMAIN m -> Record]
  BY DictElim
<1>2. WithPause(m, i, p) \in [DOMAIN m -> Record]
  BY <1>1 DEF WithPause, Record
<1>3. [m EXCEPT ![i].removed = b] \in [DOMAIN m -> Record]
  BY <1>1 DEF Record
<1>4. QED
  BY <1>1, <1>2, <1>3, DictIntro

-----------------------------------------------------------------------------
(* Type correctness.  A pause that fails puts svc.prev[svc.id] back, so its *)
(* type needs to know which fields a call of each kind has filled in.      *)

CallOK ==
  /\ svc.op # "none" => svc.lock \in Lock
  /\ svc.op \in {"create", "pause", "resume"} => svc.id \in Id
  /\ svc.pc = "intent" => svc.op \in {"pause", "resume"}
  /\ svc.pc = "save" => svc.op \in {"create", "pause", "resume", "reset"}
  /\ svc.op \in {"pause", "resume"} /\ svc.pc \in {"intent", "save"}
       => svc.id \in DOMAIN svc.prev
  /\ svc.pc # "idle" <=> svc.op # "none"
  /\ \A l \in Lock : cln[l].by = "service"
                     => svc.pc = "cleaning" /\ svc.lock = l

TypeInv == TypeOK /\ CallOK

(* The idle values of the task variables are well typed.                   *)
LEMMA IdleType ==
  /\ NoCall \in Call
  /\ NoCleaner \in Cleaner
  /\ 0 \in Time
<1>1. 0 \in Time
  BY TimeAssumption DEF Time
<1>2. NoRecords \in Dict(Id, Record)
  BY NoRecordsType
<1>3. QED
  BY <1>1, <1>2 DEF NoCall, NoCleaner, Call, Cleaner, Copies

LEMMA InitTypeInv == Init => TypeInv
<1>. SUFFICES ASSUME Init PROVE TypeInv
  OBVIOUS
<1>1. TypeOK
  BY IdleType, NoRecordsType, TimeAssumption, CrashAssumption
     DEF Init, TypeOK, Time
<1>2. CallOK
  BY DEF Init, CallOK, NoCall, NoCleaner
<1>3. QED
  BY <1>1, <1>2 DEF TypeInv

(* The updates of a clean-up's own state.                                  *)
ToNext(c)    == [c EXCEPT !.pc = "next", !.reply = FALSE, !.cur = None,
                          !.todo = c.todo \ {c.cur}]
ToSent(c, i) == [c EXCEPT !.pc = "sent", !.cur = i]
Drop(c, i)   == [c EXCEPT !.todo = c.todo \ {i}]
ToSaving(c)  == [c EXCEPT !.pc = "saving", !.copied = "never"]
Answered(c)  == [c EXCEPT !.reply = TRUE]

(* They keep its type and its caller.                                      *)
LEMMA CleanerUpdate ==
  ASSUME NEW c \in Cleaner
  PROVE  /\ \A d \in {ToNext(c), ToSaving(c), Answered(c)} :
              d \in Cleaner /\ d.by = c.by
         /\ \A i \in Id : \A d \in {ToSent(c, i), Drop(c, i)} :
              d \in Cleaner /\ d.by = c.by
<1>1. \A j : c.todo \ {j} \in SUBSET Id
  BY DEF Cleaner
<1>2. ToNext(c) \in Cleaner /\ ToNext(c).by = c.by
  <2>. DEFINE t == c.todo \ {c.cur}
  <2>1. t \in SUBSET Id
    BY <1>1
  <2>2. ToNext(c) = [c EXCEPT !.pc = "next", !.reply = FALSE, !.cur = None,
                             !.todo = t]
    BY DEF ToNext
  <2>. HIDE DEF t
  <2>3. QED
    BY <2>1, <2>2 DEF Cleaner
<1>3. \A i \in Id : ToSent(c, i) \in Cleaner /\ ToSent(c, i).by = c.by
  BY DEF Cleaner, ToSent
<1>4. \A i \in Id : Drop(c, i) \in Cleaner /\ Drop(c, i).by = c.by
  BY <1>1 DEF Cleaner, Drop
<1>5. ToSaving(c) \in Cleaner /\ ToSaving(c).by = c.by
  BY DEF Cleaner, Copies, ToSaving
<1>6. Answered(c) \in Cleaner /\ Answered(c).by = c.by
  BY DEF Cleaner, Answered
<1>7. QED
  BY <1>2, <1>3, <1>4, <1>5, <1>6

(* A step that changes the state of one clean-up only, and not its caller. *)
LEMMA CleanerStep ==
  ASSUME TypeInv, NEW l \in Lock, NEW d \in Cleaner, d.by = cln[l].by,
         cln' = [cln EXCEPT ![l] = d], svc' = svc
  PROVE  cln' \in [Lock -> Cleaner] /\ svc' \in Call /\ CallOK'
BY DEF TypeInv, TypeOK, CallOK

(* A clean-up that starts is well typed and known to its caller.           *)
StartType(l, by) ==
  StartCleanup(l, by) =>
    /\ tempLock' \in [Lock -> {"free", "service", "cleanup"}]
    /\ cool' \in [Lock -> BOOLEAN]
    /\ cln' \in [Lock -> Cleaner]
    /\ \A k \in Lock : cln'[k].by = IF k = l THEN by ELSE cln[k].by

LEMMA StartCleanupType ==
  ASSUME TypeInv, NEW l \in Lock, NEW by \in {"service", "coordinator"},
         Expired(l) \in SUBSET Id
  PROVE  StartType(l, by)
<1>. SUFFICES ASSUME StartCleanup(l, by) PROVE
         /\ tempLock' \in [Lock -> {"free", "service", "cleanup"}]
         /\ cool' \in [Lock -> BOOLEAN]
         /\ cln' \in [Lock -> Cleaner]
         /\ \A k \in Lock : cln'[k].by = IF k = l THEN by ELSE cln[k].by
  BY DEF StartType
<1>. DEFINE t == Expired(l)
            d == [NoCleaner EXCEPT !.by = by, !.pc = "next", !.todo = t]
<1>1. cln' = [cln EXCEPT ![l] = d]
  BY DEF StartCleanup
<1>2. t \in SUBSET Id
  OBVIOUS
<1>3. d \in Cleaner /\ d.by = by
  <2>. HIDE DEF t
  <2>1. NoCleaner \in Cleaner
    BY IdleType
  <2>2. QED
    BY <1>2, <2>1 DEF Cleaner
<1>. HIDE DEF d
<1>4. QED
  BY <1>1, <1>3 DEF TypeInv, TypeOK, StartCleanup

(* Every step of a clean-up keeps the types.                               *)
LEMMA CleanupTypeInv ==
  ASSUME TypeInv, NEW l \in Lock,
         CoordinatorCleans(l) \/ CleanupStep(l) \/ ServiceCleans
  PROVE  TypeInv'
<1>. USE DEF TypeInv, storeVars, lockVars, ghostVars, taskVars, envVars
<1>0. /\ mem \in Dict(Id, Record)
      /\ DOMAIN mem \in SUBSET Id
      /\ \A k \in Lock : Expired(k) \in SUBSET Id
  BY DictElim DEF TypeOK, Expired
<1>a. /\ NextAfter(l) = [cln EXCEPT ![l] = ToNext(cln[l])]
      /\ ToNext(cln[l]) \in Cleaner /\ ToNext(cln[l]).by = cln[l].by
      /\ ToSaving(cln[l]) \in Cleaner /\ ToSaving(cln[l]).by = cln[l].by
  <2>1. cln[l] \in Cleaner
    BY DEF TypeOK
  <2>2. /\ ToNext(cln[l]) \in Cleaner /\ ToNext(cln[l]).by = cln[l].by
        /\ ToSaving(cln[l]) \in Cleaner /\ ToSaving(cln[l]).by = cln[l].by
    BY <2>1, CleanerUpdate
  <2>3. QED
    BY <2>2 DEF NextAfter, ToNext
<1>1. CASE ServiceCleans
  <2>1. svc.lock \in Lock /\ svc.pc = "cleanup" /\ svc.op # "none"
    BY <1>1 DEF ServiceCleans, TypeOK, CallOK, Call
  <2>2. StartType(svc.lock, "service")
    BY <1>0, <2>1, StartCleanupType
  <2>3. /\ tempLock' \in [Lock -> {"free", "service", "cleanup"}]
        /\ cool' \in [Lock -> BOOLEAN]
        /\ cln' \in [Lock -> Cleaner]
    BY <1>1, <2>1, <2>2 DEF ServiceCleans, StartType
  <2>4. svc' \in Call
    BY <1>1 DEF ServiceCleans, TypeOK, Call
  <2>5. CallOK'
    BY <1>1, <2>1, <2>2 DEF ServiceCleans, StartType, CallOK, TypeOK, Call
  <2>6. QED
    BY <1>1, <2>3, <2>4, <2>5 DEF ServiceCleans, TypeOK
<1>2. CASE CoordinatorCleans(l)
  <2>1. StartType(l, "coordinator")
    BY <1>0, StartCleanupType
  <2>2. /\ tempLock' \in [Lock -> {"free", "service", "cleanup"}]
        /\ cool' \in [Lock -> BOOLEAN]
        /\ cln' \in [Lock -> Cleaner]
    BY <1>2, <2>1 DEF CoordinatorCleans, StartType
  <2>3. CallOK'
    BY <1>2, <2>1 DEF CoordinatorCleans, StartType, CallOK, TypeOK
  <2>4. QED
    BY <1>2, <2>2, <2>3 DEF CoordinatorCleans, TypeOK
<1>3. ASSUME NEW i \in Id, NextCandidate(l, i)
      PROVE  TypeInv'
  <2>. DEFINE d == IF i \in Expired(l) THEN ToSent(cln[l], i) ELSE Drop(cln[l], i)
  <2>1. cln' = [cln EXCEPT ![l] = d] /\ svc' = svc
    BY <1>3 DEF NextCandidate, ToSent, Drop
  <2>2. d \in Cleaner /\ d.by = cln[l].by
    <3>1. cln[l] \in Cleaner
      BY DEF TypeOK
    <3>2. QED
      BY <3>1, CleanerUpdate
  <2>. HIDE DEF d
  <2>3. cln' \in [Lock -> Cleaner] /\ svc' \in Call /\ CallOK'
    BY <2>1, <2>2, CleanerStep
  <2>4. QED
    BY <1>3, <2>3 DEF NextCandidate, TypeOK
<1>4. CASE CleanupDone(l)
  BY <1>4, IdleType
     DEF CleanupDone, EndCleanup, TypeOK, CallOK, Call, NoCleaner
<1>5. CASE CleanupUnconfirmed(l)
  BY <1>5, IdleType
     DEF CleanupUnconfirmed, EndCleanup, TypeOK, CallOK, Call, NoCleaner
<1>6. CASE CleanupRejected(l)
  <2>1. cln' \in [Lock -> Cleaner] /\ svc' \in Call /\ CallOK'
    BY <1>6, <1>a, CleanerStep DEF CleanupRejected
  <2>2. QED
    BY <1>6, <2>1 DEF CleanupRejected, TypeOK
<1>7. CASE Archive(l)
  <2>1. CASE CurrentIn(mem, cln[l].cur)
    <3>1. mem' \in Dict(Id, Record)
      <4>1. cln[l].cur \in DOMAIN mem /\ "active" \in Pause /\ TRUE \in BOOLEAN
        BY <2>1 DEF CurrentIn, Pause
      <4>2. mem' = [mem EXCEPT ![cln[l].cur].removed = TRUE]
        BY <1>7, <2>1 DEF Archive
      <4>3. QED
        BY <1>0, <4>1, <4>2, UpdateType
    <3>2. cln' \in [Lock -> Cleaner] /\ svc' \in Call /\ CallOK'
      BY <1>7, <1>a, <2>1, CleanerStep DEF Archive, ToSaving
    <3>3. QED
      BY <1>7, <3>1, <3>2 DEF Archive, TypeOK
  <2>2. CASE ~CurrentIn(mem, cln[l].cur)
    <3>1. cln' \in [Lock -> Cleaner] /\ svc' \in Call /\ CallOK'
      BY <1>7, <1>a, <2>2, CleanerStep DEF Archive
    <3>2. QED
      BY <1>7, <2>2, <3>1 DEF Archive, TypeOK
  <2>3. QED
    BY <2>1, <2>2
<1>8. CASE ArchiveSaved(l)
  <2>1. cln' \in [Lock -> Cleaner] /\ svc' \in Call /\ CallOK'
    BY <1>8, <1>a, CleanerStep DEF ArchiveSaved
  <2>2. QED
    BY <1>8, <2>1 DEF ArchiveSaved, TypeOK
<1>9. CASE ArchiveSaveFailed(l)
  <2>1. mem' \in Dict(Id, Record)
    BY <1>0, <1>9, UpdateType DEF ArchiveSaveFailed, Pause
  <2>2. disk' \in Dict(Id, Record)
    BY <1>0, <1>9 DEF ArchiveSaveFailed, TypeOK
  <2>3. QED
    BY <1>9, <2>1, <2>2, IdleType
       DEF ArchiveSaveFailed, EndCleanup, TypeOK, CallOK, Call, NoCleaner
<1>10. QED
  BY <1>1, <1>2, <1>3, <1>4, <1>5, <1>6, <1>7, <1>8, <1>9 DEF CleanupStep

(* A call that ends leaves every lock and the link well typed.             *)
EndType ==
  /\ svc' \in Call
  /\ opLock' \in [Lock -> {"free", "service", "coordinator"}]
  /\ tempLock' \in [Lock -> {"free", "service", "cleanup"}]
  /\ link' \in [Lock -> BOOLEAN]

LEMMA EndCallType ==
  ASSUME TypeInv, NEW hangup \in BOOLEAN, EndCall(hangup)
  PROVE  EndType
BY IdleType DEF TypeInv, TypeOK, EndCall, EndType

(* No clean-up runs for a call that is not waiting for one.                *)
LEMMA CallOKEnds ==
  ASSUME TypeInv, svc.pc # "cleaning", svc' = NoCall,
         \A l \in Lock : cln'[l].by = cln[l].by
  PROVE  CallOK'
BY DEF TypeInv, CallOK, NoCall

(* The marks that a creation leaves on the clean-ups.                      *)
LEMMA CopiesType ==
  ASSUME TypeInv
  PROVE  /\ [l \in Lock |-> OneMore(cln[l])] \in [Lock -> Copies]
         /\ [l \in Lock |-> OneLess(cln[l])] \in [Lock -> Copies]
<1>1. \A l \in Lock : OneMore(cln[l]) \in Copies /\ OneLess(cln[l]) \in Copies
  BY DEF TypeInv, TypeOK, Cleaner, Copies, OneMore, OneLess
<1>2. QED
  BY <1>1

(* Marking archived records as copied keeps the clean-ups' types.          *)
LEMMA CopiedType ==
  ASSUME TypeInv, NEW b \in [Lock -> Copies],
         cln' = [l \in Lock |-> [cln[l] EXCEPT !.copied = b[l]]]
  PROVE  /\ cln' \in [Lock -> Cleaner]
         /\ \A l \in Lock : cln'[l].by = cln[l].by
<1>1. \A l \in Lock : cln[l] \in Cleaner /\ b[l] \in Copies
  BY DEF TypeInv, TypeOK
<1>2. \A l \in Lock : /\ [cln[l] EXCEPT !.copied = b[l]] \in Cleaner
                      /\ [cln[l] EXCEPT !.copied = b[l]].by = cln[l].by
  BY <1>1 DEF Cleaner
<1>3. QED
  BY <1>2

(* Every step of a service call keeps the types.                           *)
LEMMA ServiceTypeInv ==
  ASSUME TypeInv, ServiceStep
  PROVE  TypeInv'
<1>. USE DEF TypeInv, storeVars, lockVars, ghostVars, taskVars, envVars
<1>1. CASE ServiceCleans
  <2>1. svc.lock \in Lock
    BY <1>1 DEF ServiceCleans, TypeOK, CallOK, Call
  <2>2. QED
    BY <1>1, <2>1, CleanupTypeInv
<1>2. CASE CredentialDone
  <2>1. svc.pc # "cleaning" /\ svc' = NoCall
    BY <1>2 DEF CredentialDone, Ready, EndCall
  <2>2. EndType
    BY <1>2, EndCallType DEF CredentialDone
  <2>3. CallOK'
    BY <1>2, <2>1, CallOKEnds DEF CredentialDone
  <2>4. QED
    BY <1>2, <2>2, <2>3 DEF CredentialDone, EndType, TypeOK
<1>3. CASE SendCreate
  <2>1. svc' \in Call
    BY <1>3 DEF SendCreate, TypeOK, Call
  <2>2. CallOK'
    BY <1>3 DEF SendCreate, Ready, CallOK, TypeOK, Call
  <2>3. QED
    BY <1>3, <2>1, <2>2 DEF SendCreate, TypeOK
<1>4. CASE PersistIntent
  <2>1. /\ svc.id \in DOMAIN mem
        /\ "unknown" \in Pause /\ TRUE \in BOOLEAN
        /\ svc.pc # "cleaning" /\ svc.op \in {"pause", "resume"}
    BY <1>4 DEF PersistIntent, Usable, CurrentIn, Ready, Pause
  <2>2. mem' \in Dict(Id, Record)
    BY <1>4, <2>1, UpdateType DEF PersistIntent, TypeOK
  <2>3. svc' = [svc EXCEPT !.pc = "intent", !.prev = mem]
    BY <1>4 DEF PersistIntent
  <2>4. svc' \in Call
    BY <2>3 DEF TypeOK, Call
  <2>5. CallOK'
    BY <1>4, <2>1, <2>3 DEF PersistIntent, CallOK, TypeOK, Call
  <2>6. QED
    BY <1>4, <2>2, <2>4, <2>5 DEF PersistIntent, TypeOK
<1>5. CASE RefusePause
  <2>1. svc.pc # "cleaning" /\ svc' = NoCall
    BY <1>5 DEF RefusePause, Ready, EndCall
  <2>2. EndType
    BY <1>5, EndCallType DEF RefusePause
  <2>3. CallOK'
    BY <1>5, <2>1, CallOKEnds DEF RefusePause
  <2>4. QED
    BY <1>5, <2>2, <2>3 DEF RefusePause, EndType, TypeOK
<1>6. CASE IntentSaved
  <2>1. svc' \in Call
    BY <1>6, NoRecordsType DEF IntentSaved, TypeOK, Call
  <2>2. CallOK'
    BY <1>6 DEF IntentSaved, CallOK, TypeOK, Call
  <2>3. QED
    BY <1>6, <2>1, <2>2 DEF IntentSaved, TypeOK
<1>7. CASE CallUnconfirmed
  <2>1. svc.pc # "cleaning" /\ svc' = NoCall
    BY <1>7 DEF CallUnconfirmed, EndCall
  <2>2. EndType
    BY <1>7, EndCallType DEF CallUnconfirmed
  <2>3. CallOK'
    BY <1>7, <2>1, CallOKEnds DEF CallUnconfirmed
  <2>4. QED
    BY <1>7, <2>2, <2>3 DEF CallUnconfirmed, EndType, TypeOK
<1>8. CASE CreateConfirmed
  <2>1. svc.id \in Id
    BY <1>8 DEF CreateConfirmed, CallOK
  <2>2. mem' \in Dict(Id, Record)
    BY <1>8, <2>1, WithNewType DEF CreateConfirmed, TypeOK
  <2>3. svc' = [svc EXCEPT !.pc = "save", !.prev = mem]
    BY <1>8 DEF CreateConfirmed
  <2>4. svc' \in Call
    BY <2>3 DEF TypeOK, Call
  <2>5. cln' \in [Lock -> Cleaner] /\ \A l \in Lock : cln'[l].by = cln[l].by
    <3>. DEFINE b == [l \in Lock |-> OneMore(cln[l])]
    <3>1. b \in [Lock -> Copies]
      BY CopiesType
    <3>2. cln' = [l \in Lock |-> [cln[l] EXCEPT !.copied = b[l]]]
      BY <1>8 DEF CreateConfirmed
    <3>. HIDE DEF b
    <3>3. QED
      BY <3>1, <3>2, CopiedType
  <2>6. CallOK'
    BY <1>8, <2>3, <2>5 DEF CreateConfirmed, CallOK, TypeOK, Call
  <2>7. QED
    BY <1>8, <2>2, <2>4, <2>5, <2>6 DEF CreateConfirmed, TypeOK
<1>9. CASE PauseConfirmed
  <2>1. /\ svc.id \in DOMAIN mem
        /\ "paused" \in Pause /\ "active" \in Pause /\ TRUE \in BOOLEAN
    BY <1>9 DEF PauseConfirmed, Usable, CurrentIn, Pause
  <2>2. mem' \in Dict(Id, Record)
    BY <1>9, <2>1, UpdateType DEF PauseConfirmed, TypeOK
  <2>3. svc' = [svc EXCEPT !.pc = "save", !.prev = mem]
    BY <1>9 DEF PauseConfirmed
  <2>4. svc' \in Call
    BY <2>3 DEF TypeOK, Call
  <2>5. CallOK'
    BY <1>9, <2>1, <2>3 DEF PauseConfirmed, CallOK, TypeOK, Call
  <2>6. QED
    BY <1>9, <2>2, <2>4, <2>5 DEF PauseConfirmed, TypeOK
<1>10. CASE CallSaved
  <2>1. svc.pc # "cleaning" /\ svc' = NoCall
    BY <1>10 DEF CallSaved, EndCall
  <2>2. EndType
    BY <1>10, EndCallType DEF CallSaved
  <2>3. CallOK'
    BY <1>10, <2>1, CallOKEnds DEF CallSaved
  <2>4. issued' \in SUBSET Id
    BY <1>10 DEF CallSaved, TypeOK, CallOK
  <2>5. QED
    BY <1>10, <2>2, <2>3, <2>4 DEF CallSaved, EndType, TypeOK
<1>11. CASE CallSaveFailed
  <2>1. svc.pc # "cleaning" /\ svc' = NoCall
    BY <1>11 DEF CallSaveFailed, EndCall
  <2>2. EndType
    BY <1>11, EndCallType DEF CallSaveFailed
  <2>3. mem' \in Dict(Id, Record)
    <3>1. svc.prev \in Dict(Id, Record)
      BY DEF TypeOK, Call
    <3>2. CASE svc.op \in {"create", "reset"}
      BY <1>11, <3>1, <3>2 DEF CallSaveFailed
    <3>3. CASE svc.op \in {"pause", "resume"}
      <4>1. svc.prev[svc.id] \in Record
        BY <1>11, <3>1, <3>3, DictElim DEF CallSaveFailed, CallOK
      <4>2. mem' = [j \in DOMAIN mem |-> IF j = svc.id THEN svc.prev[svc.id]
                                                       ELSE mem[j]]
        BY <1>11, <3>3 DEF CallSaveFailed
      <4>3. QED
        BY <4>1, <4>2, ReplaceType DEF TypeOK
    <3>4. QED
      BY <1>11, <3>2, <3>3 DEF CallSaveFailed, CallOK
  <2>4. cln' \in [Lock -> Cleaner] /\ \A l \in Lock : cln'[l].by = cln[l].by
    <3>1. CASE svc.op = "create"
      <4>. DEFINE b == [l \in Lock |-> OneLess(cln[l])]
      <4>1. b \in [Lock -> Copies]
        BY CopiesType
      <4>2. cln' = [l \in Lock |-> [cln[l] EXCEPT !.copied = b[l]]]
        BY <1>11, <3>1 DEF CallSaveFailed
      <4>. HIDE DEF b
      <4>3. QED
        BY <4>1, <4>2, CopiedType
    <3>2. CASE svc.op # "create"
      BY <1>11, <3>2 DEF CallSaveFailed, TypeOK
    <3>3. QED
      BY <3>1, <3>2
  <2>5. CallOK'
    BY <2>1, <2>4, CallOKEnds
  <2>6. QED
    BY <1>11, <2>2, <2>3, <2>4, <2>5 DEF CallSaveFailed, EndType, TypeOK
<1>12. QED
  BY <1>1, <1>2, <1>3, <1>4, <1>5, <1>6, <1>7, <1>8, <1>9, <1>10, <1>11
     DEF ServiceStep

(* The first step of a service call keeps the types.                       *)
LEMMA NewCallTypeInv ==
  ASSUME TypeInv, NEW l \in Lock, NewCall(l)
  PROVE  TypeInv'
<1>. USE DEF TypeInv, storeVars, lockVars, ghostVars, taskVars, envVars
<1>a. ASSUME svc = NoCall PROVE \A k \in Lock : cln[k].by # "service"
  BY <1>a DEF CallOK, NoCall
<1>b. ASSUME NEW op \in {"create", "pause", "resume", "credential"},
             NEW i \in Id \cup {None}, NEW e \in Time,
             op # "credential" => i \in Id,
             Begin(op, l, i, e), UNCHANGED cln
      PROVE  svc' \in Call /\ link' \in [Lock -> BOOLEAN] /\ CallOK'
  <2>1. svc' = [NoCall EXCEPT !.op = op, !.pc = "cleanup", !.lock = l, !.id = i,
                              !.expiry = e]
    BY <1>b DEF Begin
  <2>2. svc' \in Call
    BY <2>1, IdleType DEF Call
  <2>3. link' \in [Lock -> BOOLEAN]
    BY <1>b DEF Begin, TypeOK
  <2>4. \A k \in Lock : cln'[k].by # "service"
    BY <1>a, <1>b DEF Begin
  <2>5. CallOK'
    BY <1>b, <2>1, <2>4, IdleType DEF CallOK, Call
  <2>6. QED
    BY <2>2, <2>3, <2>5
<1>1. ASSUME NEW i \in Id, NEW e \in Time, CallCreate(l, i, e)
      PROVE  TypeInv'
  <2>1. svc' \in Call /\ link' \in [Lock -> BOOLEAN] /\ CallOK'
    BY <1>1, <1>b DEF CallCreate
  <2>2. QED
    BY <1>1, <2>1 DEF CallCreate, TakeOpLock, TypeOK
<1>2. ASSUME NEW i \in Id, NEW op \in {"pause", "resume"}, CallPause(l, i, op)
      PROVE  TypeInv'
  <2>1. svc' \in Call /\ link' \in [Lock -> BOOLEAN] /\ CallOK'
    BY <1>2, <1>b, IdleType DEF CallPause
  <2>2. QED
    BY <1>2, <2>1 DEF CallPause, TakeOpLock, TypeOK
<1>3. CASE CallCredential(l)
  <2>1. svc' \in Call /\ link' \in [Lock -> BOOLEAN] /\ CallOK'
    BY <1>3, <1>b, IdleType DEF CallCredential
  <2>2. QED
    BY <1>3, <2>1 DEF CallCredential, TypeOK
<1>4. CASE CallReset(l)
  <2>1. svc' = [NoCall EXCEPT !.op = "reset", !.pc = "save", !.lock = l,
                              !.prev = mem]
    BY <1>4 DEF CallReset
  <2>2. svc' \in Call
    BY <2>1, IdleType DEF TypeOK, Call
  <2>3. CallOK'
    BY <1>4, <1>a, <2>1, IdleType DEF CallReset, CallOK, Call
  <2>4. void' \in SUBSET Id
    <3>1. PinsOf(l) \in SUBSET Id
      BY DictElim DEF TypeOK, PinsOf
    <3>2. QED
      BY <1>4, <3>1 DEF CallReset, TypeOK
  <2>5. mem' \in Dict(Id, Record)
    BY <1>4, WithoutLockType DEF CallReset, TypeOK
  <2>6. QED
    BY <1>4, <2>2, <2>3, <2>4, <2>5 DEF CallReset, TypeOK
<1>5. QED
  BY <1>1, <1>2, <1>3, <1>4 DEF NewCall

(* What the locks do keeps the types.                                      *)
LEMMA LockTypeInv ==
  ASSUME TypeInv, LockStep
  PROVE  TypeInv'
<1>. USE DEF TypeInv, storeVars, lockVars, ghostVars, taskVars, envVars
<1>1. ASSUME NEW s \in Slot, LockCreates(s)
      PROVE  TypeInv'
  <2>. DEFINE g == [lock |-> svc.lock, slot |-> s, expiry |-> svc.expiry]
  <2>1. svc.id \in Id /\ svc.lock \in Lock
    BY <1>1 DEF LockCreates, CallOK
  <2>2. grant' \in Dict(Id, Grant)
    <3>1. DOMAIN grant \in SUBSET Id /\ grant \in [DOMAIN grant -> Grant]
      BY DictElim DEF TypeOK
    <3>2. g \in Grant
      BY <2>1 DEF TypeOK, Call, Grant
    <3>3. grant' = [j \in DOMAIN grant \cup {svc.id} |->
                      IF j = svc.id THEN g ELSE grant[j]]
      BY <1>1 DEF LockCreates
    <3>. HIDE DEF g
    <3>4. grant' \in [DOMAIN grant \cup {svc.id} -> Grant]
      BY <3>1, <3>2, <3>3
    <3>5. DOMAIN grant \cup {svc.id} \in SUBSET Id
      BY <2>1, <3>1
    <3>6. QED
      BY <3>4, <3>5, DictIntro
  <2>3. svc' \in Call
    BY <1>1, IdleType DEF LockCreates, TypeOK, Call
  <2>4. CallOK'
    BY <1>1 DEF LockCreates, CallOK, TypeOK, Call
  <2>5. QED
    BY <1>1, <2>1, <2>2, <2>3, <2>4 DEF LockCreates, TypeOK
<1>2. CASE LockReschedules
  <2>1. svc' \in Call
    BY <1>2 DEF LockReschedules, TypeOK, Call
  <2>2. CallOK'
    BY <1>2 DEF LockReschedules, CallOK, TypeOK, Call
  <2>3. suspended' \in SUBSET Id
    BY <1>2 DEF LockReschedules, Occupants, TypeOK
  <2>4. QED
    BY <1>2, <2>1, <2>2, <2>3 DEF LockReschedules, TypeOK
<1>3. ASSUME NEW l \in Lock, LockDeletes(l)
      PROVE  TypeInv'
  <2>1. cln[l] \in Cleaner
    BY DEF TypeOK
  <2>2. Answered(cln[l]) \in Cleaner /\ Answered(cln[l]).by = cln[l].by
    BY <2>1, CleanerUpdate
  <2>3. cln' = [cln EXCEPT ![l] = Answered(cln[l])] /\ svc' = svc
    BY <1>3 DEF LockDeletes, Answered
  <2>4. cln' \in [Lock -> Cleaner] /\ svc' \in Call /\ CallOK'
    BY <2>2, <2>3, CleanerStep
  <2>5. onLock' \in SUBSET Id /\ suspended' \in SUBSET Id
    BY <1>3 DEF LockDeletes, Erase, TypeOK
  <2>6. QED
    BY <1>3, <2>4, <2>5 DEF LockDeletes, TypeOK
<1>4. ASSUME NEW l \in Lock, PhysicalReset(l)
      PROVE  TypeInv'
  BY <1>4 DEF PhysicalReset, Erase, TypeOK, CallOK
<1>5. ASSUME NEW i \in Id, LockForgets(i)
      PROVE  TypeInv'
  BY <1>5 DEF LockForgets, Erase, TypeOK, CallOK
<1>6. QED
  BY <1>1, <1>2, <1>3, <1>4, <1>5 DEF LockStep

(* So do link loss, time and restarts.                                     *)
LEMMA EnvironmentTypeInv ==
  ASSUME TypeInv, Environment
  PROVE  TypeInv'
<1>. USE DEF TypeInv, storeVars, lockVars, ghostVars, taskVars, envVars
<1>1. ASSUME NEW l \in Lock, LinkDrops(l)
      PROVE  TypeInv'
  BY <1>1 DEF LinkDrops, TypeOK, CallOK
<1>2. ASSUME NEW l \in Lock, CooldownOver(l)
      PROVE  TypeInv'
  BY <1>2 DEF CooldownOver, TypeOK, CallOK
<1>3. CASE Tick
  BY <1>3, TimeAssumption DEF Tick, TypeOK, CallOK, Time
<1>4. CASE Restart
  <2>1. CallOK'
    BY <1>4 DEF Restart, CallOK, NoCall, NoCleaner
  <2>2. QED
    BY <1>4, <2>1, IdleType, CrashAssumption DEF Restart, TypeOK
<1>5. QED
  BY <1>1, <1>2, <1>3, <1>4 DEF Environment

LEMMA NextTypeInv ==
  ASSUME TypeInv, [Next]_vars
  PROVE  TypeInv'
<1>1. CASE Next
  BY <1>1, ServiceTypeInv, NewCallTypeInv, CleanupTypeInv, LockTypeInv,
     EnvironmentTypeInv DEF Next
<1>2. CASE UNCHANGED vars
  BY <1>2 DEF vars, TypeInv, TypeOK, CallOK
<1>3. QED
  BY <1>1, <1>2

(* Every variable keeps its type: in particular the records a failed pause *)
(* or creation puts back are records, so the store never becomes malformed *)
(* (async_set_temp_password_pause_state, async_add_temp_password).         *)
THEOREM TypeCorrect == Spec => []TypeOK
<1>1. Spec => []TypeInv
  BY InitTypeInv, NextTypeInv, PTL DEF Spec
<1>2. TypeInv => TypeOK
  BY DEF TypeInv
<1>3. QED
  BY <1>1, <1>2, PTL


-----------------------------------------------------------------------------
(* The inductive invariant behind ArchivedIsGone.  A record can be put     *)
(* back by a rollback, so the dict kept for it must satisfy what the       *)
(* others do; a clean-up that holds a reply has emptied the slot, and only *)
(* PINs never seen before enter a slot.                                    *)

(* A store knows only PINs that a lock accepted (g), and has archived only *)
(* PINs that are no longer on a lock (o).                                  *)
Sound(m, g, o) ==
  /\ DOMAIN m \subseteq DOMAIN g
  /\ \A i \in DOMAIN m : m[i].removed => i \notin o

StoresSound ==
  /\ Sound(mem, grant, onLock)
  /\ Sound(disk, grant, onLock)
  /\ Sound(svc.prev, grant, onLock)

PinsKnown ==
  /\ onLock \subseteq DOMAIN grant
  /\ issued \subseteq DOMAIN grant
  /\ DOMAIN grant \subseteq used

CallKnown ==
  /\ svc.reply => svc.pc \in {"send", "save"}
  /\ svc.op = "create" =>
       /\ svc.id \in used \ issued
       /\ svc.id \in DOMAIN grant <=> svc.reply
       /\ svc.reply => grant[svc.id].lock = svc.lock
       /\ svc.pc = "save" => svc.reply

(* A clean-up c of lock l works on a PIN of that lock, and has seen it go  *)
(* when it holds a reply.                                                  *)
CleanerKnown(l, c) ==
  /\ c.pc = "next" => ~c.reply
  /\ c.pc \in {"sent", "saving"} =>
       c.cur \in DOMAIN grant /\ grant[c.cur].lock = l
  /\ c.pc = "saving" \/ (c.pc = "sent" /\ c.reply) => c.cur \notin onLock

CleanupKnown == \A l \in Lock : CleanerKnown(l, cln[l])

GoneInv == TypeInv /\ StoresSound /\ PinsKnown /\ CallKnown /\ CleanupKnown

LEMMA InitGoneInv == Init => GoneInv
<1>. SUFFICES ASSUME Init PROVE GoneInv
  OBVIOUS
<1>1. DOMAIN NoRecords = {}
  BY DEF NoRecords
<1>2. QED
  BY <1>1, InitTypeInv
     DEF Init, GoneInv, StoresSound, Sound, PinsKnown, CallKnown, CleanupKnown,
         CleanerKnown, NoCall, NoCleaner

(* How the operations on the store keep it sound.                          *)
LEMMA SoundUpdates ==
  ASSUME NEW m \in Dict(Id, Record), NEW g, NEW o, Sound(m, g, o)
  PROVE  /\ \A i \in DOMAIN g : Sound(WithNew(m, i), g, o)
         /\ \A l : Sound(WithoutLock(m, l), g, o)
         /\ \A i, p : Sound(WithPause(m, i, p), g, o)
         /\ \A i : Sound([m EXCEPT ![i].removed = FALSE], g, o)
         /\ \A i : i \notin o => Sound([m EXCEPT ![i].removed = TRUE], g, o)
<1>0. m \in [DOMAIN m -> Record]
  BY DictElim
<1>1. \A i \in DOMAIN g : Sound(WithNew(m, i), g, o)
  BY <1>0 DEF Sound, WithNew, NewRecord, Record
<1>2. \A l : Sound(WithoutLock(m, l), g, o)
  BY DEF Sound, WithoutLock
<1>3. \A i, p : Sound(WithPause(m, i, p), g, o)
  BY <1>0 DEF Sound, WithPause, Record
<1>4. \A i : Sound([m EXCEPT ![i].removed = FALSE], g, o)
  BY <1>0 DEF Sound, Record
<1>5. \A i : i \notin o => Sound([m EXCEPT ![i].removed = TRUE], g, o)
  BY <1>0 DEF Sound, Record
<1>6. QED
  BY <1>1, <1>2, <1>3, <1>4, <1>5

(* A PIN that disappears from a lock endangers no record.                  *)
LEMMA SoundFewer ==
  ASSUME NEW m, NEW g, NEW o, NEW p \in SUBSET o, Sound(m, g, o)
  PROVE  Sound(m, g, p)
BY DEF Sound

(* Neither does a PIN that no record knows.                                *)
LEMMA SoundMore ==
  ASSUME NEW m, NEW g, NEW h, NEW o, NEW i, Sound(m, g, o),
         i \notin DOMAIN g, DOMAIN h = DOMAIN g \cup {i}
  PROVE  Sound(m, h, o \cup {i})
BY DEF Sound

(* The updates of a clean-up's own state keep what is known of it.         *)
LEMMA CleanerKnownUpdates ==
  ASSUME NEW l, NEW c \in Cleaner, CleanerKnown(l, c)
  PROVE  /\ CleanerKnown(l, ToNext(c))
         /\ c.pc = "sent" /\ c.reply => CleanerKnown(l, ToSaving(c))
         /\ \A i \in DOMAIN grant :
              c.pc = "next" /\ grant[i].lock = l => CleanerKnown(l, ToSent(c, i))
         /\ \A i : c.pc = "next" => CleanerKnown(l, Drop(c, i))
<1>1. CleanerKnown(l, ToNext(c))
  <2>1. ToNext(c).pc = "next" /\ ToNext(c).reply = FALSE
    BY DEF ToNext, Cleaner
  <2>2. QED
    BY <2>1 DEF CleanerKnown
<1>2. c.pc = "sent" /\ c.reply => CleanerKnown(l, ToSaving(c))
  BY DEF CleanerKnown, ToSaving, Cleaner
<1>3. \A i \in DOMAIN grant :
        c.pc = "next" /\ grant[i].lock = l => CleanerKnown(l, ToSent(c, i))
  BY DEF CleanerKnown, ToSent, Cleaner
<1>4. \A i : c.pc = "next" => CleanerKnown(l, Drop(c, i))
  <2>1. \A i : Drop(c, i).pc = c.pc /\ Drop(c, i).reply = c.reply
    BY DEF Drop, Cleaner
  <2>2. QED
    BY <2>1 DEF CleanerKnown
<1>5. QED
  BY <1>1, <1>2, <1>3, <1>4

(* A step that changes one clean-up and no slot of a lock.                 *)
LEMMA CleanupKnownStep ==
  ASSUME TypeInv, CleanupKnown, NEW l \in Lock, NEW d, CleanerKnown(l, d),
         cln' = [cln EXCEPT ![l] = d], UNCHANGED <<grant, onLock>>
  PROVE  CleanupKnown'
BY DEF TypeInv, TypeOK, CleanupKnown, CleanerKnown

(* A clean-up that starts knows nothing yet.                               *)
LEMMA StartKnown ==
  ASSUME TypeInv, CleanupKnown, NEW l \in Lock, NEW by, StartCleanup(l, by),
         UNCHANGED <<grant, onLock>>
  PROVE  CleanupKnown'
<1>. DEFINE t == Expired(l)
            d == [NoCleaner EXCEPT !.by = by, !.pc = "next", !.todo = t]
<1>1. cln' = [cln EXCEPT ![l] = d]
  BY DEF StartCleanup
<1>2. CleanerKnown(l, d)
  <2>. HIDE DEF t
  <2>1. QED
    BY DEF CleanerKnown, NoCleaner
<1>. HIDE DEF d
<1>3. QED
  BY <1>1, <1>2, CleanupKnownStep

(* A clean-up keeps it: only a slot that the lock has emptied is archived. *)
LEMMA CleanupGone ==
  ASSUME GoneInv, NEW l \in Lock, CoordinatorCleans(l) \/ CleanupStep(l)
  PROVE  GoneInv'
<1>. USE DEF GoneInv, storeVars, lockVars, ghostVars, taskVars, envVars
<1>0. /\ TypeInv' /\ mem \in Dict(Id, Record)
      /\ cln[l] \in Cleaner /\ CleanerKnown(l, cln[l])
      /\ CleanerKnown(l, NoCleaner)
  BY CleanupTypeInv DEF TypeInv, TypeOK, CleanupKnown, CleanerKnown, NoCleaner
<1>a. /\ NextAfter(l) = [cln EXCEPT ![l] = ToNext(cln[l])]
      /\ CleanerKnown(l, ToNext(cln[l]))
  BY <1>0, CleanerKnownUpdates DEF NextAfter, ToNext
<1>b. ASSUME svc' = svc \/ svc' = [svc EXCEPT !.pc = "cleaned"],
             UNCHANGED <<grant, issued, used>>,
             svc.pc \in {"send", "save"} => svc'.pc = svc.pc
      PROVE  CallKnown' /\ svc'.prev = svc.prev
  BY <1>b DEF CallKnown, TypeInv, TypeOK, Call
<1>c. ASSUME EndCleanup(l), UNCHANGED <<grant, onLock, issued, used>>
      PROVE  CleanupKnown' /\ CallKnown' /\ svc'.prev = svc.prev
  <2>1. cln' = [cln EXCEPT ![l] = NoCleaner]
    BY <1>c DEF EndCleanup
  <2>2. CleanupKnown'
    BY <1>0, <1>c, <2>1, CleanupKnownStep
  <2>3. svc.pc \in {"send", "save"} => svc'.pc = svc.pc
    BY <1>c DEF EndCleanup, TypeInv, CallOK
  <2>4. QED
    BY <1>b, <1>c, <2>2, <2>3 DEF EndCleanup
<1>. USE DEF StoresSound, PinsKnown
<1>1. CASE CoordinatorCleans(l)
  <2>1. CleanupKnown'
    BY <1>1, StartKnown DEF CoordinatorCleans
  <2>2. QED
    BY <1>0, <1>1, <2>1 DEF CoordinatorCleans, CallKnown
<1>2. ASSUME NEW i \in Id, NextCandidate(l, i)
      PROVE  GoneInv'
  <2>. DEFINE d == IF i \in Expired(l) THEN ToSent(cln[l], i) ELSE Drop(cln[l], i)
  <2>1. i \in Expired(l) => i \in DOMAIN grant /\ grant[i].lock = l
    BY DEF Expired, Sound
  <2>2. cln' = [cln EXCEPT ![l] = d]
    BY <1>2 DEF NextCandidate, ToSent, Drop
  <2>3. CleanerKnown(l, d)
    BY <1>0, <1>2, <2>1, CleanerKnownUpdates DEF NextCandidate
  <2>. HIDE DEF d
  <2>4. CleanupKnown'
    BY <1>2, <2>2, <2>3, CleanupKnownStep DEF NextCandidate
  <2>5. QED
    BY <1>0, <1>2, <2>4 DEF NextCandidate, CallKnown
<1>3. CASE CleanupDone(l)
  BY <1>0, <1>c, <1>3 DEF CleanupDone
<1>4. CASE CleanupUnconfirmed(l)
  BY <1>0, <1>c, <1>4 DEF CleanupUnconfirmed
<1>5. CASE CleanupRejected(l)
  <2>1. CleanupKnown'
    BY <1>a, <1>5, CleanupKnownStep DEF CleanupRejected
  <2>2. QED
    BY <1>0, <1>5, <2>1 DEF CleanupRejected, CallKnown
<1>6. CASE Archive(l)
  <2>1. Sound(mem', grant, onLock)
    <3>1. cln[l].cur \notin onLock
      BY <1>0, <1>6 DEF Archive, CleanerKnown
    <3>2. Sound([mem EXCEPT ![cln[l].cur].removed = TRUE], grant, onLock)
      BY <1>0, <3>1, SoundUpdates
    <3>3. QED
      BY <1>6, <3>2 DEF Archive
  <2>2. CleanupKnown'
    <3>1. CASE CurrentIn(mem, cln[l].cur)
      <4>1. CleanerKnown(l, ToSaving(cln[l]))
        BY <1>0, <1>6, CleanerKnownUpdates DEF Archive
      <4>2. QED
        BY <1>6, <3>1, <4>1, CleanupKnownStep DEF Archive, ToSaving
    <3>2. CASE ~CurrentIn(mem, cln[l].cur)
      BY <1>a, <1>6, <3>2, CleanupKnownStep DEF Archive
    <3>3. QED
      BY <3>1, <3>2
  <2>3. QED
    BY <1>0, <1>6, <2>1, <2>2 DEF Archive, CallKnown
<1>7. CASE ArchiveSaved(l)
  <2>1. CleanupKnown'
    BY <1>a, <1>7, CleanupKnownStep DEF ArchiveSaved
  <2>2. QED
    BY <1>0, <1>7, <2>1 DEF ArchiveSaved, CallKnown
<1>8. CASE ArchiveSaveFailed(l)
  <2>1. Sound(mem', grant, onLock)
    BY <1>0, <1>8, SoundUpdates DEF ArchiveSaveFailed
  <2>2. QED
    BY <1>0, <1>c, <1>8, <2>1 DEF ArchiveSaveFailed
<1>9. QED
  BY <1>1, <1>2, <1>3, <1>4, <1>5, <1>6, <1>7, <1>8 DEF CleanupStep

(* A service call that ends leaves nothing behind that could be wrong.     *)
LEMMA EndGone ==
  ASSUME GoneInv, NEW hangup \in BOOLEAN, EndCall(hangup),
         UNCHANGED <<grant, onLock, used>>, issued' \subseteq DOMAIN grant
  PROVE  Sound(svc'.prev, grant, onLock) /\ PinsKnown' /\ CallKnown'
<1>1. svc' = NoCall /\ DOMAIN NoRecords = {}
  BY DEF EndCall, NoRecords
<1>2. QED
  BY <1>1 DEF GoneInv, PinsKnown, CallKnown, NoCall, Sound

(* Marking archived records as copied changes nothing that is known.       *)
LEMMA CopiedKnown ==
  ASSUME TypeInv, CleanupKnown, NEW b \in [Lock -> Copies],
         cln' = [l \in Lock |-> [cln[l] EXCEPT !.copied = b[l]]],
         UNCHANGED <<grant, onLock>>
  PROVE  CleanupKnown'
<1>1. ASSUME NEW l \in Lock
      PROVE  CleanerKnown(l, cln[l])' 
  <2>1. cln[l] \in Cleaner /\ CleanerKnown(l, cln[l])
    BY <1>1 DEF TypeInv, TypeOK, CleanupKnown
  <2>2. cln'[l] = [cln[l] EXCEPT !.copied = b[l]]
    BY <1>1
  <2>3. cln'[l].pc = cln[l].pc /\ cln'[l].cur = cln[l].cur /\ cln'[l].reply = cln[l].reply
    BY <2>1, <2>2 DEF Cleaner
  <2>4. QED
    BY <2>1, <2>3 DEF CleanerKnown
<1>2. QED
  BY <1>1 DEF CleanupKnown

(* A service call keeps it: what it stores, and what a failed save puts    *)
(* back, archives no PIN that is on a lock.                                *)
LEMMA ServiceGone ==
  ASSUME GoneInv, ServiceStep
  PROVE  GoneInv'
<1>. USE DEF GoneInv, storeVars, lockVars, ghostVars, taskVars, envVars
<1>0. /\ TypeInv' /\ mem \in Dict(Id, Record)
      /\ svc \in Call /\ svc.prev \in Dict(Id, Record)
  BY ServiceTypeInv DEF TypeInv, TypeOK, Call
<1>. USE DEF StoresSound, PinsKnown
<1>a. ASSUME UNCHANGED <<grant, onLock, cln>>
      PROVE  CleanupKnown'
  BY <1>a DEF CleanupKnown, CleanerKnown
<1>1. CASE ServiceCleans
  <2>1. svc.lock \in Lock
    BY <1>1 DEF ServiceCleans, TypeInv, TypeOK, CallOK, Call
  <2>2. CleanupKnown'
    BY <1>1, <2>1, StartKnown DEF ServiceCleans
  <2>3. CallKnown' /\ svc'.prev = svc.prev
    BY <1>0, <1>1 DEF ServiceCleans, CallKnown, Call
  <2>4. QED
    BY <1>0, <1>1, <2>2, <2>3 DEF ServiceCleans
<1>2. CASE CredentialDone
  BY <1>0, <1>a, <1>2, EndGone DEF CredentialDone
<1>3. CASE SendCreate
  <2>1. CallKnown' /\ svc'.prev = svc.prev
    BY <1>0, <1>3 DEF SendCreate, Ready, CallKnown, Call
  <2>2. QED
    BY <1>0, <1>a, <1>3, <2>1 DEF SendCreate
<1>4. CASE PersistIntent
  <2>1. Sound(mem', grant, onLock)
    BY <1>0, <1>4, SoundUpdates DEF PersistIntent
  <2>2. svc' = [svc EXCEPT !.pc = "intent", !.prev = mem]
    BY <1>4 DEF PersistIntent
  <2>3. svc'.prev = mem /\ CallKnown'
    BY <1>0, <1>4, <2>2 DEF PersistIntent, Ready, CallKnown, Call
  <2>4. QED
    BY <1>0, <1>a, <1>4, <2>1, <2>3 DEF PersistIntent
<1>5. CASE RefusePause
  BY <1>0, <1>a, <1>5, EndGone DEF RefusePause
<1>6. CASE IntentSaved
  <2>1. svc'.prev = NoRecords /\ DOMAIN NoRecords = {} /\ CallKnown'
    BY <1>0, <1>6 DEF IntentSaved, CallKnown, CallOK, TypeInv, Call, NoRecords
  <2>2. QED
    BY <1>0, <1>a, <1>6, <2>1 DEF IntentSaved, Sound
<1>7. CASE CallUnconfirmed
  BY <1>0, <1>a, <1>7, EndGone DEF CallUnconfirmed
<1>8. CASE CreateConfirmed
  <2>1. svc.id \in DOMAIN grant
    BY <1>8 DEF CreateConfirmed, CallKnown
  <2>2. Sound(mem', grant, onLock)
    BY <1>0, <1>8, <2>1, SoundUpdates DEF CreateConfirmed
  <2>3. svc' = [svc EXCEPT !.pc = "save", !.prev = mem]
    BY <1>8 DEF CreateConfirmed
  <2>4. svc'.prev = mem /\ CallKnown'
    BY <1>0, <1>8, <2>3 DEF CreateConfirmed, CallKnown, Call
  <2>5. CleanupKnown'
    <3>. DEFINE b == [l \in Lock |-> OneMore(cln[l])]
    <3>1. b \in [Lock -> Copies]
      BY CopiesType
    <3>2. cln' = [l \in Lock |-> [cln[l] EXCEPT !.copied = b[l]]]
      BY <1>8 DEF CreateConfirmed
    <3>. HIDE DEF b
    <3>3. QED
      BY <1>8, <3>1, <3>2, CopiedKnown DEF CreateConfirmed
  <2>6. QED
    BY <1>0, <1>8, <2>2, <2>4, <2>5 DEF CreateConfirmed
<1>9. CASE PauseConfirmed
  <2>1. Sound(mem', grant, onLock)
    BY <1>0, <1>9, SoundUpdates DEF PauseConfirmed
  <2>2. svc' = [svc EXCEPT !.pc = "save", !.prev = mem]
    BY <1>9 DEF PauseConfirmed
  <2>3. svc'.prev = mem /\ CallKnown'
    BY <1>0, <1>9, <2>2 DEF PauseConfirmed, CallKnown, Call
  <2>4. QED
    BY <1>0, <1>a, <1>9, <2>1, <2>3 DEF PauseConfirmed
<1>10. CASE CallSaved
  <2>1. issued' \subseteq DOMAIN grant
    BY <1>10 DEF CallSaved, CallKnown
  <2>2. QED
    BY <1>0, <1>a, <1>10, <2>1, EndGone DEF CallSaved
<1>11. CASE CallSaveFailed
  <2>1. Sound(mem', grant, onLock)
    <3>1. CASE svc.op \in {"create", "reset"}
      BY <1>11, <3>1 DEF CallSaveFailed
    <3>2. CASE svc.op \notin {"create", "reset"}
      <4>1. svc.id \in DOMAIN svc.prev
        BY <1>11, <3>2 DEF CallSaveFailed, TypeInv, CallOK
      <4>2. mem' = [j \in DOMAIN mem |-> IF j = svc.id THEN svc.prev[svc.id]
                                                       ELSE mem[j]]
        BY <1>11, <3>2 DEF CallSaveFailed
      <4>3. QED
        BY <4>1, <4>2 DEF Sound
    <3>3. QED
      BY <3>1, <3>2
  <2>2. CleanupKnown'
    <3>1. CASE svc.op = "create"
      <4>. DEFINE b == [l \in Lock |-> OneLess(cln[l])]
      <4>1. b \in [Lock -> Copies]
        BY CopiesType
      <4>2. cln' = [l \in Lock |-> [cln[l] EXCEPT !.copied = b[l]]]
        BY <1>11, <3>1 DEF CallSaveFailed
      <4>. HIDE DEF b
      <4>3. QED
        BY <1>11, <4>1, <4>2, CopiedKnown DEF CallSaveFailed
    <3>2. CASE svc.op # "create"
      BY <1>a, <1>11, <3>2 DEF CallSaveFailed
    <3>3. QED
      BY <3>1, <3>2
  <2>3. Sound(svc'.prev, grant, onLock) /\ PinsKnown' /\ CallKnown'
    BY <1>11, EndGone DEF CallSaveFailed
  <2>4. QED
    BY <1>0, <1>11, <2>1, <2>2, <2>3 DEF CallSaveFailed
<1>12. QED
  BY <1>1, <1>2, <1>3, <1>4, <1>5, <1>6, <1>7, <1>8, <1>9, <1>10, <1>11
     DEF ServiceStep

(* The first step of a call keeps it.                                      *)
LEMMA NewCallGone ==
  ASSUME GoneInv, NEW l \in Lock, NewCall(l)
  PROVE  GoneInv'
<1>. USE DEF GoneInv, storeVars, lockVars, ghostVars, taskVars, envVars
<1>0. /\ TypeInv' /\ mem \in Dict(Id, Record)
      /\ DOMAIN NoRecords = {}
  BY NewCallTypeInv DEF TypeInv, TypeOK, NoRecords
<1>. USE DEF StoresSound, PinsKnown
<1>a. ASSUME UNCHANGED <<grant, onLock, cln>>
      PROVE  CleanupKnown'
  BY <1>a DEF CleanupKnown, CleanerKnown
<1>b. ASSUME NEW op, NEW i, NEW e, Begin(op, l, i, e)
      PROVE  /\ svc'.prev = NoRecords /\ svc'.op = op /\ svc'.id = i
             /\ svc'.reply = FALSE /\ svc'.pc = "cleanup"
  BY <1>b DEF Begin, NoCall
<1>1. ASSUME NEW i \in Id, NEW e \in Time, CallCreate(l, i, e)
      PROVE  GoneInv'
  <2>1. CallKnown'
    BY <1>1, <1>b DEF CallCreate, CallKnown
  <2>2. QED
    BY <1>0, <1>1, <1>a, <1>b, <2>1 DEF CallCreate, Sound
<1>2. ASSUME NEW i \in Id, NEW op \in {"pause", "resume"}, CallPause(l, i, op)
      PROVE  GoneInv'
  <2>1. CallKnown'
    BY <1>2, <1>b DEF CallPause, CallKnown
  <2>2. QED
    BY <1>0, <1>2, <1>a, <1>b, <2>1 DEF CallPause, Sound
<1>3. CASE CallCredential(l)
  <2>1. CallKnown'
    BY <1>3, <1>b DEF CallCredential, CallKnown
  <2>2. QED
    BY <1>0, <1>3, <1>a, <1>b, <2>1 DEF CallCredential, Sound
<1>4. CASE CallReset(l)
  <2>1. Sound(mem', grant, onLock)
    BY <1>0, <1>4, SoundUpdates DEF CallReset
  <2>2. svc'.prev = mem /\ CallKnown'
    BY <1>4 DEF CallReset, CallKnown, NoCall
  <2>3. QED
    BY <1>0, <1>4, <1>a, <2>1, <2>2 DEF CallReset
<1>5. QED
  BY <1>1, <1>2, <1>3, <1>4 DEF NewCall

(* What the locks do keeps it: a new PIN is known to no record and to no   *)
(* clean-up, and any other change only removes PINs.                       *)
LEMMA LockGone ==
  ASSUME GoneInv, LockStep
  PROVE  GoneInv'
<1>. USE DEF GoneInv, storeVars, lockVars, ghostVars, taskVars, envVars
<1>0. TypeInv' /\ svc \in Call /\ cln \in [Lock -> Cleaner]
  BY LockTypeInv DEF TypeInv, TypeOK
<1>. USE DEF StoresSound, PinsKnown
<1>a. ASSUME NEW pins, Erase(pins), UNCHANGED <<mem, disk, svc, grant, issued, used>>
      PROVE  StoresSound' /\ PinsKnown' /\ CallKnown'
  BY <1>a, SoundFewer DEF Erase, CallKnown
<1>b. ASSUME onLock' \subseteq onLock, UNCHANGED <<grant, cln>>
      PROVE  CleanupKnown'
  BY <1>b DEF CleanupKnown, CleanerKnown
<1>1. ASSUME NEW s \in Slot, LockCreates(s)
      PROVE  GoneInv'
  <2>1. /\ svc.id \notin DOMAIN grant /\ svc.id \in used
        /\ DOMAIN grant' = DOMAIN grant \cup {svc.id}
        /\ onLock' = onLock \cup {svc.id}
        /\ \A j \in DOMAIN grant : grant'[j] = grant[j]
        /\ grant'[svc.id].lock = svc.lock
    BY <1>1 DEF LockCreates, CallKnown
  <2>2. /\ svc'.prev = svc.prev /\ svc'.id = svc.id /\ svc'.op = svc.op
        /\ svc'.pc = "send" /\ svc'.lock = svc.lock /\ svc'.reply = TRUE
    BY <1>0, <1>1 DEF LockCreates, Call
  <2>3. StoresSound'
    BY <1>1, <2>1, <2>2, SoundMore DEF LockCreates
  <2>4. PinsKnown'
    BY <1>1, <2>1 DEF LockCreates
  <2>5. CallKnown'
    BY <1>1, <2>1, <2>2 DEF LockCreates, CallKnown
  <2>6. CleanupKnown'
    BY <1>1, <2>1 DEF LockCreates, CleanupKnown, CleanerKnown
  <2>7. QED
    BY <1>0, <2>3, <2>4, <2>5, <2>6
<1>2. CASE LockReschedules
  <2>1. CallKnown' /\ svc'.prev = svc.prev
    BY <1>0, <1>2 DEF LockReschedules, CallKnown, Call
  <2>2. QED
    BY <1>0, <1>b, <1>2, <2>1 DEF LockReschedules
<1>3. ASSUME NEW l \in Lock, LockDeletes(l)
      PROVE  GoneInv'
  <2>1. CleanerKnown(l, cln[l]) /\ cln[l].cur \notin onLock'
    BY <1>3 DEF LockDeletes, Erase, Occupants, SameSlot, CleanupKnown
  <2>2. CleanupKnown'
    <3>1. /\ cln'[l].pc = "sent" /\ cln'[l].cur = cln[l].cur
          /\ \A k \in Lock : k # l => cln'[k] = cln[k]
          /\ onLock' \subseteq onLock
      BY <1>0, <1>3 DEF LockDeletes, Erase, Cleaner
    <3>2. QED
      BY <1>3, <2>1, <3>1 DEF LockDeletes, CleanupKnown, CleanerKnown
  <2>3. QED
    BY <1>0, <1>3, <1>a, <2>2 DEF LockDeletes
<1>4. ASSUME NEW l \in Lock, PhysicalReset(l)
      PROVE  GoneInv'
  BY <1>0, <1>4, <1>a, <1>b DEF PhysicalReset, Erase
<1>5. ASSUME NEW i \in Id, LockForgets(i)
      PROVE  GoneInv'
  BY <1>0, <1>5, <1>a, <1>b DEF LockForgets, Erase
<1>6. QED
  BY <1>1, <1>2, <1>3, <1>4, <1>5 DEF LockStep

(* Link loss, time and restarts keep it.                                   *)
LEMMA EnvironmentGone ==
  ASSUME GoneInv, Environment
  PROVE  GoneInv'
<1>. USE DEF GoneInv, storeVars, lockVars, ghostVars, taskVars, envVars
<1>0. TypeInv'
  BY EnvironmentTypeInv
<1>1. CASE Restart
  BY <1>0, <1>1
     DEF Restart, StoresSound, Sound, PinsKnown, CallKnown, CleanupKnown,
         CleanerKnown, NoCall, NoCleaner, NoRecords
<1>2. CASE ~Restart
  BY <1>0, <1>2
     DEF Environment, LinkDrops, CooldownOver, Tick, StoresSound, PinsKnown,
         CallKnown, CleanupKnown, CleanerKnown
<1>3. QED
  BY <1>1, <1>2

LEMMA NextGoneInv ==
  ASSUME GoneInv, [Next]_vars
  PROVE  GoneInv'
<1>1. CASE Next
  BY <1>1, CleanupGone, ServiceGone, NewCallGone, LockGone, EnvironmentGone
     DEF Next
<1>2. CASE UNCHANGED vars
  <2>1. TypeInv'
    BY <1>2, NextTypeInv DEF GoneInv
  <2>2. QED
    BY <1>2, <2>1 DEF vars, GoneInv, StoresSound, PinsKnown, CallKnown,
                      CleanupKnown, CleanerKnown
<1>3. QED
  BY <1>1, <1>2

LEMMA GoneInvHolds == Spec => []GoneInv
BY InitGoneInv, NextGoneInv, PTL DEF Spec

(* No record is archived, in memory or on disk, while its PIN is still on  *)
(* the lock: async_archive_temp_password runs only after the lock emptied  *)
(* the slot, and no rollback or restart brings back an older store that    *)
(* says otherwise.                                                         *)
THEOREM ArchivedIsGoneHolds == Spec => []ArchivedIsGone
<1>1. GoneInv => ArchivedIsGone
  BY DEF GoneInv, StoresSound, Sound, ArchivedIsGone
<1>2. QED
  BY <1>1, GoneInvHolds, PTL

=============================================================================
