----------------------------- MODULE Credentials -----------------------------
(***************************************************************************)
(* Members and credentials: the store that attributes them                 *)
(* (credential_store.py), the services that enrol, register, delete, clear *)
(* and pause them (services.py, credential_pause.py), and the slots of the *)
(* locks, which other hands change as well.                                *)
(*                                                                         *)
(* All these services run under credential_operations, so that one call is *)
(* in progress at a time.  It still interleaves, at every request to the   *)
(* lock and at every save, with what happens at the locks, with the saves  *)
(* of the same store by the clean-up of temporary PINs, and with a stop of *)
(* Home Assistant.  A request may be lost before or after the lock has     *)
(* acted on it, and a save may fail: some operations then restore what     *)
(* they have changed, and others do not.                                   *)
(***************************************************************************)
EXTENDS Naturals, FiniteSets

CONSTANTS
  Lock,       \* the configured locks
  Kind,       \* "pin", "card", "finger"
  Hw,         \* hardware ids 0..254 that a lock gives out
  NoSlot,     \* 0xFF, the hardware id that names no slot
  Name,       \* names of members
  Id,         \* credential_id values, drawn for records and enrolments alike
  CutShort,   \* whether a link may be lost after the summary frame of a list
  MaxMember,  \* the last member id: 100
  MaxLocal,   \* bound: changes made at the locks themselves
  MaxStops,   \* bound: stops of Home Assistant
  None

ASSUME KindAssumption   == Kind \subseteq {"pin", "card", "finger"}
ASSUME MemberAssumption == MaxMember \in Nat
ASSUME BoundAssumption  == MaxLocal \in Nat /\ MaxStops \in Nat
ASSUME CutAssumption    == CutShort \in BOOLEAN
ASSUME NoSlotAssumption == NoSlot \notin Hw
ASSUME NoneAssumption   == None \notin Id \cup Name \cup Lock

VARIABLES
  mem,    \* CredentialStore._data: the members and the credentials
  disk,   \* the store file
  slot,   \* what each slot of each lock holds
  call,   \* the credential service in progress
  prev,   \* the data that it restores when its save fails, if it does
  used,   \* ids drawn
  kept,   \* enrolments that succeeded and that nobody has asked to forget
  local,  \* changes made at the locks themselves, so far
  stops   \* stops of Home Assistant so far

vars == <<mem, disk, slot, call, prev, used, kept, local, stops>>
env  == <<local, stops>>

Member == 1..MaxMember
Place  == Lock \X Kind \X Hw
Spot   == Lock \X Kind \X (Hw \cup {NoSlot})   \* what a record may name
Policy == [member : Member, admin : BOOLEAN]   \* device_policy
Pause  == {"active", "paused", "unknown"}

(***************************************************************************)
(* A record: its member, where it is, the policy the lock has confirmed,   *)
(* its pause state, and which credential it is of: its own enrolment, or   *)
(* what the slot held when it was registered.                              *)
(***************************************************************************)
Record == [member : Member, spot : Spot, policy : Policy \cup {None},
           pause : Pause, of : Id \cup {None}]

\* A credential in a slot of a lock, which knows its member by number only.
Enrolled == [id : Id, member : Member, admin : BOOLEAN, suspended : BOOLEAN]

IsDict(f, S, T) == DOMAIN f \subseteq S /\ f \in [DOMAIN f -> T]
IsData(d) == /\ d = [members |-> d.members, creds |-> d.creds]
             /\ IsDict(d.members, Member, Name)
             /\ IsDict(d.creds, Id, Record)

Op == {"none", "add", "register", "delete", "clear", "wipe", "reset", "pause",
       "resume"}
Pc == {"idle", "member", "connect", "reply", "register", "save", "erase",
       "forget", "intent", "send"}

(***************************************************************************)
(* A call: what it does, where it stands, for which lock, kind and member, *)
(* as an administrator of the lock, the slot and the record concerned,     *)
(* the records still to delete, the slots still to erase and those erased  *)
(* without an error, and the answer.                                       *)
(***************************************************************************)
Call == [op : Op, pc : Pc, lock : Lock \cup {None}, kind : Kind \cup {None},
         who : Name \cup {None}, admin : BOOLEAN,
         hw : Hw \cup {NoSlot, None}, id : Id \cup {None},
         todo : SUBSET Id, slots : SUBSET Hw, tried : SUBSET Hw,
         reply : BOOLEAN]

Idle == [op |-> "none", pc |-> "idle", lock |-> None, kind |-> None,
         who |-> None, admin |-> FALSE, hw |-> None, id |-> None,
         todo |-> {}, slots |-> {}, tried |-> {}, reply |-> FALSE]

NoData == [members |-> [m \in {} |-> None], creds |-> [i \in {} |-> None]]

TypeOK ==
  /\ IsData(mem) /\ IsData(disk) /\ (prev = None \/ IsData(prev))
  /\ slot \in [Place -> Enrolled \cup {None}]
  /\ call \in Call
  /\ used \subseteq Id /\ kept \subseteq Id
  /\ local \in 0..MaxLocal /\ stops \in 0..MaxStops

Init ==
  /\ mem = NoData /\ disk = NoData
  /\ slot = [p \in Place |-> None]
  /\ call = Idle /\ prev = None
  /\ used = {} /\ kept = {}
  /\ local = 0 /\ stops = 0

(***************************************************************************)
(* The store                                                               *)
(***************************************************************************)
With(f, x, v) == [y \in DOMAIN f \cup {x} |-> IF y = x THEN v ELSE f[y]]
Without(f, D) == [y \in DOMAIN f \ D |-> f[y]]

\* find_credential
At(d, p) == {i \in DOMAIN d.creds : d.creds[i].spot = p}

\* get_credentials_for_lock
Of(d, l) == {i \in DOMAIN d.creds : d.creds[i].spot[1] = l}

\* get_member_by_name
Known(n) == \E m \in DOMAIN mem.members : mem.members[m] = n
MemberOf(n) == CHOOSE m \in DOMAIN mem.members : mem.members[m] = n

\* next_member_id: the first number that is free.
Least(M) == {m \in M : \A n \in M : m <= n}

(* Mutant: one number more than a lock accepts.                            *)
NextMemberIdLate(d) == Least((1..MaxMember + 1) \ DOMAIN d.members)

NextMemberId(d) == Least(Member \ DOMAIN d.members)

(* Mutant: the record that the slot had before stays.                      *)
AddedBeside(d, i, r) == [d EXCEPT !.creds = With(@, i, r)]

\* async_add_credential: one record per slot, the newest.
Added(d, i, r) == [d EXCEPT !.creds = With(Without(@, At(d, r.spot)), i, r)]

Forgotten(d, I) == [d EXCEPT !.creds = Without(@, I)]

(***************************************************************************)
(* Steps of a call                                                         *)
(***************************************************************************)
Step(p) == call' = [call EXCEPT !.pc = p]
IsAt(o, p) == call.op = o /\ call.pc = p

Begin(c) == call = Idle /\ call' = c

\* The data changes and its save begins.
Change(d) == mem' = d

\* An error ends the call; so does a link that is lost or never comes up.
\* Whether the lock has acted on a request was settled when it was sent.
Raises ==
  /\ call.pc \in {"connect", "reply", "erase", "send"}
  /\ call' = Idle
  /\ UNCHANGED <<mem, disk, slot, used, kept, prev, env>>

Holds(p, i) == /\ p \in Place
               /\ slot[p] # None
               /\ slot[p].id = i

(***************************************************************************)
(* A member is looked up by name, and added when there is none; a person   *)
(* given with the call is saved with a member that is there.               *)
(***************************************************************************)
Number(c) ==
  \/ /\ Known(c.who)
     /\ \E p \in {"member", IF c.op = "add" THEN "connect" ELSE "register"} :
          call' = [c EXCEPT !.pc = p]
     /\ UNCHANGED mem
  \/ /\ ~Known(c.who)
     /\ \E m \in NextMemberId(mem) :
          Change([mem EXCEPT !.members = With(@, m, c.who)])
     /\ call' = [c EXCEPT !.pc = "member"]

AddCredential(l, k, n, a) ==
  /\ call = Idle
  /\ Number([Idle EXCEPT !.op = "add", !.lock = l, !.kind = k, !.who = n,
                         !.admin = a])
  /\ UNCHANGED <<disk, slot, used, kept, prev, env>>

RegisterCredential(p, n) ==
  /\ call = Idle
  /\ Number([Idle EXCEPT !.op = "register", !.lock = p[1], !.kind = p[2],
                         !.hw = p[3], !.who = n])
  /\ UNCHANGED <<disk, slot, used, kept, prev, env>>

MemberSaved ==
  /\ call.pc = "member"
  /\ disk' = mem
  /\ Step(IF call.op = "add" THEN "connect" ELSE "register")
  /\ UNCHANGED <<mem, slot, used, kept, prev, env>>

(***************************************************************************)
(* Enrolment: the lock takes a free slot for it.  A card whose reply does  *)
(* not name the slot is an error; a PIN or a finger is recorded without.   *)
(***************************************************************************)
Enrol(h, i) ==
  LET p == <<call.lock, call.kind, h>> IN
  /\ IsAt("add", "connect")
  /\ slot[p] = None /\ i \notin used
  /\ slot' = [slot EXCEPT ![p] = [id |-> i, member |-> MemberOf(call.who),
                                  admin |-> call.admin, suspended |-> FALSE]]
  /\ used' = used \cup {i}
  /\ call' = [call EXCEPT !.pc = "reply", !.id = i, !.hw = h]
  /\ UNCHANGED <<mem, disk, kept, prev, env>>

\* policy_from_enrollment
Confirmed(h) == IF h = NoSlot THEN None
                ELSE [member |-> MemberOf(call.who), admin |-> call.admin]

RecordEnrolment(h) ==
  LET p == <<call.lock, call.kind, h>> IN
  /\ IsAt("add", "reply")
  /\ h = NoSlot => call.kind # "card"
  /\ Change(Added(mem, call.id,
       [member |-> MemberOf(call.who), spot |-> p, policy |-> Confirmed(h),
        pause |-> "active", of |-> call.id]))
  /\ kept' = kept \ At(mem, p)
  /\ call' = [call EXCEPT !.pc = "save", !.hw = h]
  /\ UNCHANGED <<disk, slot, used, prev, env>>

(***************************************************************************)
(* A slot that is enrolled already is attributed to a member, or to        *)
(* another one; the lock is not asked.                                     *)
(***************************************************************************)
Register(i) ==
  LET p == <<call.lock, call.kind, call.hw>> IN
  /\ IsAt("register", "register") /\ i \notin used
  /\ Change(Added(mem, i,
       [member |-> MemberOf(call.who), spot |-> p, policy |-> None,
        pause |-> "active",
        of |-> IF slot[p] = None THEN None ELSE slot[p].id]))
  /\ used' = used \cup {i}
  /\ kept' = kept \ At(mem, p)
  /\ Step("save")
  /\ UNCHANGED <<disk, slot, prev, env>>

(***************************************************************************)
(* Deletion of a record, or of all of a member on a lock, of one kind or   *)
(* of any: one by one, the record after the credential.                    *)
(***************************************************************************)
DeleteOne(i) ==
  /\ i \in DOMAIN mem.creds
  /\ Begin([Idle EXCEPT !.op = "delete", !.pc = "connect", !.todo = {i},
                        !.lock = mem.creds[i].spot[1]])
  /\ UNCHANGED <<mem, disk, slot, used, kept, prev, env>>

DeleteMember(l, n, K) ==
  LET I == {i \in Of(mem, l) : /\ mem.creds[i].member = MemberOf(n)
                               /\ mem.creds[i].spot[2] \in K} IN
  /\ Known(n) /\ I # {}
  /\ Begin([Idle EXCEPT !.op = "delete", !.pc = "connect", !.todo = I,
                        !.lock = l])
  /\ UNCHANGED <<mem, disk, slot, used, kept, prev, env>>

\* The lock erases the slot of a member or, when it has a credential of that
\* member there, refuses; of the others it may confirm what is not there.
Erases(p, m, confirmed) ==
  \/ /\ slot[p] # None /\ slot[p].member = m
     /\ slot' = [slot EXCEPT ![p] = None]
  \/ /\ slot[p] # None /\ slot[p].member = m => ~confirmed
     /\ UNCHANGED slot

\* Only a policy that the lock has confirmed, and no administrator's.
Editable(r) == r.policy # None /\ ~r.policy.admin

Delete(i) ==
  LET r == mem.creds[i] IN
  /\ IsAt("delete", "connect") /\ i \in call.todo
  /\ Editable(r)
  /\ \E ok \in BOOLEAN :
       /\ Erases(r.spot, r.policy.member, ok)
       /\ call' = [call EXCEPT !.pc = "reply", !.id = i, !.reply = ok]
  /\ UNCHANGED <<mem, disk, used, kept, prev, env>>

Forget ==
  /\ IsAt("delete", "reply") /\ call.reply
  /\ Change(Forgotten(mem, {call.id}))
  /\ kept' = kept \ {call.id}
  /\ call' = [call EXCEPT !.pc = "save", !.todo = @ \ {call.id}]
  /\ UNCHANGED <<disk, slot, used, prev, env>>

(***************************************************************************)
(* Fingerprints are erased as the lock lists them, all or one; what a      *)
(* second list no longer has is forgotten.  Without an answer to it        *)
(* nothing is.  A summary frame comes before the list, and is the answer   *)
(* of a lock without fingerprints.                                         *)
(***************************************************************************)
Fingers(l) == {h \in Hw : slot[<<l, "finger", h>>] # None}

ClearFingerprints(l) ==
  /\ "finger" \in Kind
  /\ Begin([Idle EXCEPT !.op = "clear", !.pc = "connect", !.lock = l,
                        !.kind = "finger"])
  /\ UNCHANGED <<mem, disk, slot, used, kept, prev, env>>

\* _async_read_fingerprint_records
Lists(l) == {Fingers(l)} \cup (IF CutShort THEN {{}} ELSE {})

ListFingers ==
  /\ IsAt("clear", "connect")
  /\ \E H \in Lists(call.lock) \cup {{h} : h \in Fingers(call.lock)} :
       call' = [call EXCEPT !.pc = "erase", !.slots = H]
  /\ UNCHANGED <<mem, disk, slot, used, kept, prev, env>>

\* The lock erases what it has listed, or does not; a request that raises is
\* not counted as tried all the same.
EraseFinger(h) ==
  LET p == <<call.lock, "finger", h>> IN
  /\ IsAt("clear", "erase") /\ h \in call.slots
  /\ slot' \in {slot, [slot EXCEPT ![p] = None]}
  /\ \E T \in {{}, {h}} :
       call' = [call EXCEPT !.slots = @ \ {h}, !.tried = @ \cup T]
  /\ UNCHANGED <<mem, disk, used, kept, prev, env>>

(* Mutant: silence is taken for an empty list.                             *)
ListAgainOrSilence ==
  /\ IsAt("clear", "erase") /\ call.slots = {}
  /\ \E seen \in {{}, Fingers(call.lock)} :
       call' = [call EXCEPT !.pc = "forget", !.slots = call.tried \ seen]
  /\ UNCHANGED <<mem, disk, slot, used, kept, prev, env>>

ListAgain ==
  /\ IsAt("clear", "erase") /\ call.slots = {}
  /\ \E seen \in Lists(call.lock) :
       call' = [call EXCEPT !.pc = "forget", !.slots = call.tried \ seen]
  /\ UNCHANGED <<mem, disk, slot, used, kept, prev, env>>

ForgetFinger(h) ==
  LET I == At(mem, <<call.lock, "finger", h>>) IN
  /\ IsAt("clear", "forget") /\ h \in call.slots
  /\ Change(Forgotten(mem, I))
  /\ kept' = kept \ I
  /\ call' = [call EXCEPT !.slots = @ \ {h},
                          !.pc = IF I = {} THEN "forget" ELSE "save"]
  /\ UNCHANGED <<disk, slot, used, prev, env>>

Cleared ==
  /\ IsAt("clear", "forget") /\ call.slots = {}
  /\ call' = Idle
  /\ UNCHANGED <<mem, disk, slot, used, kept, prev, env>>

(***************************************************************************)
(* The records of a lock, or all records and members, are dropped; so are  *)
(* those of a lock that is reported reset, if the save does not fail.      *)
(***************************************************************************)
ClearCredentials(l) ==
  /\ Begin([Idle EXCEPT !.op = "wipe", !.pc = "save"])
  /\ Change(IF l = None THEN NoData ELSE Forgotten(mem, Of(mem, l)))
  /\ kept' = IF l = None THEN {} ELSE kept \ Of(mem, l)
  /\ UNCHANGED <<disk, slot, used, prev, env>>

ReportFactoryReset(l) ==
  /\ Begin([Idle EXCEPT !.op = "reset", !.pc = "save", !.lock = l])
  /\ prev' = mem
  /\ Change(Forgotten(mem, Of(mem, l)))
  /\ kept' = kept \ Of(mem, l)
  /\ UNCHANGED <<disk, slot, used, env>>

(***************************************************************************)
(* Pause and resume: "unknown" is saved before the lock is asked, the      *)
(* outcome after it has confirmed.                                         *)
(***************************************************************************)
\* current_credential
Current(i) == /\ i \in DOMAIN mem.creds
              /\ Editable(mem.creds[i])
              /\ At(mem, mem.creds[i].spot) = {i}

SetPaused(o, i) ==
  /\ Current(i)
  /\ Begin([Idle EXCEPT !.op = o, !.pc = "connect", !.id = i,
                        !.lock = mem.creds[i].spot[1]])
  /\ UNCHANGED <<mem, disk, slot, used, kept, prev, env>>

Noted(s) == [mem EXCEPT !.creds[call.id].pause = s]

Intend ==
  /\ call.op \in {"pause", "resume"} /\ call.pc = "connect"
  /\ Current(call.id)
  /\ Change(Noted("unknown"))
  /\ Step("intent") /\ prev' = mem
  /\ UNCHANGED <<disk, slot, used, kept, env>>

(* Mutant: the lock is asked though the save has failed.                   *)
IntentSavedOrNot ==
  /\ call.pc = "intent"
  /\ disk' \in {mem, disk}
  /\ Step("send") /\ prev' = None
  /\ UNCHANGED <<mem, slot, used, kept, env>>

IntentSaved ==
  /\ call.pc = "intent"
  /\ disk' = mem
  /\ Step("send") /\ prev' = None
  /\ UNCHANGED <<mem, slot, used, kept, env>>

\* The lock changes the schedule of what is in the slot and confirms, or
\* refuses; the confirmation may be lost.
Schedule ==
  LET p == mem.creds[call.id].spot IN
  /\ call.pc = "send" /\ Current(call.id)
  /\ slot[p] # None
  /\ slot' = [slot EXCEPT ![p].suspended = (call.op = "pause")]
  /\ Step("reply")
  /\ UNCHANGED <<mem, disk, used, kept, prev, env>>

Confirm ==
  /\ call.op \in {"pause", "resume"} /\ call.pc = "reply" /\ Current(call.id)
  /\ Change(Noted(IF call.op = "pause" THEN "paused" ELSE "active"))
  /\ Step("save") /\ prev' = mem
  /\ UNCHANGED <<disk, slot, used, kept, env>>

(***************************************************************************)
(* Saves.  The whole store is written, whoever saves it.                   *)
(***************************************************************************)
Then == CASE call.op = "delete" /\ call.todo # {} -> [call EXCEPT !.pc = "connect"]
          [] call.op = "clear" -> [call EXCEPT !.pc = "forget"]
          [] OTHER -> Idle

(* Mutant: a new record is not saved.                                      *)
SavedUnlessNew ==
  /\ call.pc = "save"
  /\ disk' = IF call.op = "add" THEN disk ELSE mem
  /\ kept' = IF call.op = "add" /\ call.hw # NoSlot
             THEN kept \cup {call.id} ELSE kept
  /\ call' = Then /\ prev' = None
  /\ UNCHANGED <<mem, slot, used, env>>

Saved ==
  /\ call.pc = "save"
  /\ disk' = mem
  /\ kept' = IF call.op = "add" /\ call.hw # NoSlot
             THEN kept \cup {call.id} ELSE kept
  /\ call' = Then /\ prev' = None
  /\ UNCHANGED <<mem, slot, used, env>>

RollsBack == call.op \in {"reset", "pause", "resume"}

SaveFails ==
  /\ call.pc \in {"member", "save", "intent"}
  /\ mem' = IF RollsBack THEN prev ELSE mem
  /\ call' = Idle /\ prev' = None
  /\ UNCHANGED <<disk, slot, used, kept, env>>

\* update_access, temporary PINs and their clean-up change no credential.
OthersSave ==
  /\ disk' = mem
  /\ UNCHANGED <<mem, slot, call, prev, used, kept, env>>

(***************************************************************************)
(* At the locks themselves, and a stop of Home Assistant                   *)
(***************************************************************************)
EnrolAtLock(p, m, i) ==
  /\ local < MaxLocal /\ slot[p] = None /\ i \notin used
  /\ slot' = [slot EXCEPT ![p] = [id |-> i, member |-> m, admin |-> FALSE,
                                  suspended |-> FALSE]]
  /\ used' = used \cup {i}
  /\ local' = local + 1
  /\ UNCHANGED <<mem, disk, call, prev, kept, stops>>

RemoveAtLock(p) ==
  /\ local < MaxLocal /\ slot[p] # None
  /\ slot' = [slot EXCEPT ![p] = None]
  /\ local' = local + 1
  /\ UNCHANGED <<mem, disk, call, prev, used, kept, stops>>

FactoryReset(l) ==
  /\ local < MaxLocal
  /\ slot' = [p \in Place |-> IF p[1] = l THEN None ELSE slot[p]]
  /\ local' = local + 1
  /\ UNCHANGED <<mem, disk, call, prev, used, kept, stops>>

Stop ==
  /\ stops < MaxStops
  /\ mem' = disk /\ call' = Idle /\ prev' = None
  /\ stops' = stops + 1
  /\ UNCHANGED <<disk, slot, used, kept, local>>

-----------------------------------------------------------------------------
Starts ==
  \/ \E l \in Lock, k \in Kind, n \in Name, a \in BOOLEAN : AddCredential(l, k, n, a)
  \/ \E p \in Place, n \in Name : RegisterCredential(p, n)
  \/ \E i \in Id : DeleteOne(i)
  \/ \E l \in Lock, n \in Name, K \in {Kind} \cup {{k} : k \in Kind} : DeleteMember(l, n, K)
  \/ \E l \in Lock : ClearFingerprints(l)
  \/ \E l \in Lock \cup {None} : ClearCredentials(l)
  \/ \E l \in Lock : ReportFactoryReset(l)
  \/ \E i \in Id, o \in {"pause", "resume"} : SetPaused(o, i)

Goes ==
  \/ MemberSaved
  \/ \E h \in Hw, i \in Id : Enrol(h, i)
  \/ \E h \in {call.hw, NoSlot} : RecordEnrolment(h)
  \/ \E i \in Id : Register(i)
  \/ \E i \in Id : Delete(i)
  \/ Forget
  \/ ListFingers
  \/ \E h \in Hw : EraseFinger(h)
  \/ ListAgain
  \/ \E h \in Hw : ForgetFinger(h)
  \/ Cleared
  \/ Intend
  \/ IntentSaved
  \/ Schedule
  \/ Confirm
  \/ Saved
  \/ SaveFails
  \/ Raises

World ==
  \/ OthersSave
  \/ \E p \in Place, m \in Member, i \in Id : EnrolAtLock(p, m, i)
  \/ \E p \in Place : RemoveAtLock(p)
  \/ \E l \in Lock : FactoryReset(l)
  \/ Stop

Next == Starts \/ Goes \/ World

Spec == Init /\ [][Next]_vars

-----------------------------------------------------------------------------
(* A hardware slot has at most one record, and every record has a member   *)
(* with a name of his own, in the store and in its file.                   *)
SoundIn(d) ==
  /\ \A i, j \in DOMAIN d.creds : d.creds[i].spot = d.creds[j].spot => i = j
  /\ \A i \in DOMAIN d.creds : d.creds[i].member \in DOMAIN d.members
  /\ \A m, n \in DOMAIN d.members : d.members[m] = d.members[n] => m = n

RecordsAreSound == SoundIn(mem) /\ SoundIn(disk)

(* A record of an enrolment that says "paused", or "active", is right      *)
(* about the credential as long as that is in its slot; and so is the file *)
(* that a restart reads.                                                   *)
PausesIn(d) ==
  \A i \in DOMAIN d.creds :
    LET r == d.creds[i] IN
    r.policy # None /\ Holds(r.spot, i) =>
      /\ r.pause = "paused" => slot[r.spot].suspended
      /\ r.pause = "active" => ~slot[r.spot].suspended

CredentialPauseTrue == PausesIn(mem) /\ PausesIn(disk)

(* An enrolment that has been reported as done is in the store and in its  *)
(* file until someone deletes, clears, replaces or reports it away.        *)
EnrolledIsRecorded == kept \subseteq DOMAIN mem.creds \cap DOMAIN disk.creds

(* "HA keeps the record until the lock confirms": a deletion, or a         *)
(* clearance of fingerprints, forgets no credential that is in its slot.   *)
GoneBeforeForgotten ==
  [][call.op \in {"delete", "clear"} /\ stops' = stops =>
       \A i \in DOMAIN mem.creds \ DOMAIN mem'.creds :
         ~Holds(mem.creds[i].spot, mem.creds[i].of)]_vars
=============================================================================
