-------------------------- MODULE CredentialsProofs --------------------------
(***************************************************************************)
(* Theorems about Credentials, for any locks, kinds, slots, names, ids and *)
(* bounds.                                                                 *)
(***************************************************************************)
EXTENDS Credentials, TLAPS

(***************************************************************************)
(* What is known of the call in progress                                   *)
(***************************************************************************)
\* The data to be put back if the save under way fails.
Rolling == RollsBack /\ call.pc \in {"save", "intent"}

Naming == call.op \in {"add", "register"}

CallShape ==
  /\ Naming => call.lock \in Lock /\ call.kind \in Kind /\ Known(call.who)
  /\ call.op = "register" => call.hw \in Hw
  /\ IsAt("add", "reply") => call.hw \in Hw
  /\ call.op = "add" /\ call.pc \in {"reply", "save"} => call.id \in Id
  /\ call.op = "clear" => call.lock \in Lock
  /\ call.pc = "member" => Naming
  /\ call.pc = "register" => call.op = "register"
  /\ call.pc \in {"intent", "send"} => call.op \in {"pause", "resume"}
  /\ call.pc = "forget" => call.op = "clear"
  /\ Rolling => IsData(prev)

Types == TypeOK /\ CallShape

LEMMA IdleCall == Idle \in Call
BY DEF Idle, Call, Op, Pc

(***************************************************************************)
(* Data                                                                    *)
(***************************************************************************)
LEMMA DataParts ==
  ASSUME NEW d, IsData(d)
  PROVE  /\ DOMAIN d.members \subseteq Member /\ d.members \in [DOMAIN d.members -> Name]
         /\ DOMAIN d.creds \subseteq Id /\ d.creds \in [DOMAIN d.creds -> Record]
BY DEF IsData, IsDict

LEMMA NoDataTypes == IsData(NoData)
BY DEF NoData, IsData, IsDict

LEMMA WithMember ==
  ASSUME NEW d, IsData(d), NEW m \in Member, NEW n \in Name
  PROVE  /\ IsData([d EXCEPT !.members = With(@, m, n)])
         /\ [d EXCEPT !.members = With(@, m, n)].creds = d.creds
         /\ [d EXCEPT !.members = With(@, m, n)].members = With(d.members, m, n)
<1>1. d = [members |-> d.members, creds |-> d.creds]
  BY DEF IsData
<1>2. [d EXCEPT !.members = With(@, m, n)]
        = [members |-> With(d.members, m, n), creds |-> d.creds]
  BY <1>1
<1>3. IsDict(With(d.members, m, n), Member, Name)
  BY DataParts DEF IsDict, With
<1> QED BY <1>2, <1>3 DEF IsData

LEMMA ForgottenTypes ==
  ASSUME NEW d, IsData(d), NEW I
  PROVE  /\ IsData(Forgotten(d, I)) /\ Forgotten(d, I).members = d.members
         /\ Forgotten(d, I).creds = Without(d.creds, I)
<1>1. d = [members |-> d.members, creds |-> d.creds]
  BY DEF IsData
<1>2. Forgotten(d, I) = [members |-> d.members, creds |-> Without(d.creds, I)]
  BY <1>1 DEF Forgotten
<1>3. IsDict(Without(d.creds, I), Id, Record)
  BY DataParts DEF IsDict, Without
<1> QED BY <1>2, <1>3 DEF IsData

LEMMA AddedTypes ==
  ASSUME NEW d, IsData(d), NEW i \in Id, NEW r \in Record
  PROVE  /\ IsData(Added(d, i, r)) /\ Added(d, i, r).members = d.members
         /\ Added(d, i, r).creds = With(Without(d.creds, At(d, r.spot)), i, r)
<1> DEFINE c == With(Without(d.creds, At(d, r.spot)), i, r)
<1>1. d = [members |-> d.members, creds |-> d.creds]
  BY DEF IsData
<1>2. Added(d, i, r) = [members |-> d.members, creds |-> c]
  BY <1>1 DEF Added
<1>3. IsDict(c, Id, Record)
  BY DataParts DEF IsDict, Without, With
<1> QED BY <1>2, <1>3 DEF IsData

LEMMA NotedTypes ==
  ASSUME Types, call.id \in DOMAIN mem.creds, NEW s \in Pause
  PROVE  /\ IsData(Noted(s)) /\ Noted(s).members = mem.members
         /\ Noted(s).creds = [mem.creds EXCEPT ![call.id].pause = s]
<1> DEFINE c == [mem.creds EXCEPT ![call.id].pause = s]
<1>1. mem = [members |-> mem.members, creds |-> mem.creds] /\ IsData(mem)
  BY DEF Types, TypeOK, IsData
<1>2. Noted(s) = [members |-> mem.members, creds |-> c]
  BY <1>1 DEF Noted
<1>3. IsDict(c, Id, Record)
  BY <1>1, DataParts DEF IsDict, Record
<1> QED BY <1>1, <1>2, <1>3 DEF IsData

LEMMA MemberOfKnown ==
  ASSUME NEW n, Known(n) PROVE MemberOf(n) \in DOMAIN mem.members /\ mem.members[MemberOf(n)] = n
BY DEF Known, MemberOf
(***************************************************************************)
(* Types: the three copies of the data, the rest, and the call             *)
(***************************************************************************)
Copies == IsData(mem) /\ IsData(disk) /\ (prev = None \/ IsData(prev))

Others == /\ slot \in [Place -> Enrolled \cup {None}]
          /\ used \subseteq Id /\ kept \subseteq Id
          /\ local \in 0..MaxLocal /\ stops \in 0..MaxStops

LEMMA TypesParts == Types <=> Copies /\ Others /\ call \in Call /\ CallShape
BY DEF Types, TypeOK, Copies, Others

LEMMA TypesPartsNext ==
  ASSUME Copies', Others', (call \in Call)', CallShape' PROVE Types'
BY DEF Types, TypeOK, Copies, Others

\* Only the call goes on, to a place where what is known of it still holds.
CallKeeps(c) ==
  /\ c.op \in {"add", "register"} => c.lock \in Lock /\ c.kind \in Kind /\ Known(c.who)
  /\ c.op = "register" => c.hw \in Hw
  /\ c.op = "add" /\ c.pc = "reply" => c.hw \in Hw
  /\ c.op = "add" /\ c.pc \in {"reply", "save"} => c.id \in Id
  /\ c.op = "clear" => c.lock \in Lock
  /\ c.pc = "member" => c.op \in {"add", "register"}
  /\ c.pc = "register" => c.op = "register"
  /\ c.pc \in {"intent", "send"} => c.op \in {"pause", "resume"}
  /\ c.pc = "forget" => c.op = "clear"

LEMMA ShapeFromCall ==
  CallShape <=> CallKeeps(call) /\ (Rolling => IsData(prev))
BY DEF CallShape, CallKeeps, Naming, IsAt

LEMMA IdleKeeps == CallKeeps(Idle)
BY DEF CallKeeps, Idle

LEMMA NumberTypes ==
  ASSUME Types, NEW c \in Call, c.op \in {"add", "register"},
         c.lock \in Lock, c.kind \in Kind, c.who \in Name, c.op = "register" => c.hw \in Hw,
         Number(c), UNCHANGED <<disk, slot, used, kept, prev, env>>
  PROVE  Types'
<1>1. Others'
  BY DEF Types, TypeOK, Others, env
<1>2. CASE Known(c.who) /\ UNCHANGED mem
  <2>1. PICK q \in {"member", IF c.op = "add" THEN "connect" ELSE "register"} :
          call' = [c EXCEPT !.pc = q]
    BY <1>2 DEF Number
  <2>2. q \in Pc /\ (c.op = "add" => q \in {"member", "connect"})
    BY DEF Pc
  <2>3. call' \in Call /\ call'.op = c.op /\ call'.pc = q /\ call'.lock = c.lock
        /\ call'.kind = c.kind /\ call'.who = c.who /\ call'.hw = c.hw
    BY <2>1, <2>2 DEF Call
  <2>4. Known(c.who)'
    BY <1>2 DEF Known
  <2>5. CallShape'
    BY <2>1, <2>2, <2>3, <2>4 DEF CallShape, Naming, IsAt, Rolling, RollsBack
  <2> QED BY <1>1, <1>2, <2>3, <2>5, TypesPartsNext DEF Types, TypeOK, Copies
<1>3. CASE ~Known(c.who)
  <2>1. PICK m \in NextMemberId(mem) : mem' = [mem EXCEPT !.members = With(@, m, c.who)]
    BY <1>3 DEF Number, Change
  <2>2. m \in Member
    BY DEF NextMemberId, Least
  <2>3. IsData(mem') /\ mem'.members = With(mem.members, m, c.who)
    BY <2>1, <2>2, WithMember DEF Types, TypeOK
  <2>4. Known(c.who)'
    BY <2>3 DEF Known, With
  <2>5. call' = [c EXCEPT !.pc = "member"]
    BY <1>3 DEF Number
  <2>6. call' \in Call /\ call'.op = c.op /\ call'.pc = "member" /\ call'.lock = c.lock
        /\ call'.kind = c.kind /\ call'.who = c.who /\ call'.hw = c.hw
    BY <2>5 DEF Call, Pc
  <2>7. CallShape'
    BY <2>4, <2>6 DEF CallShape, Naming, IsAt, Rolling, RollsBack
  <2> QED BY <1>1, <2>3, <2>6, <2>7, TypesPartsNext DEF Types, TypeOK, Copies
<1> QED BY <1>2, <1>3 DEF Number

LEMMA AddCredentialTypes ==
  ASSUME Types, NEW l \in Lock, NEW k \in Kind, NEW n \in Name, NEW a \in BOOLEAN,
         AddCredential(l, k, n, a)
  PROVE  Types'
<1> DEFINE c == [Idle EXCEPT !.op = "add", !.lock = l, !.kind = k, !.who = n, !.admin = a]
<1>1. c \in Call /\ c.op = "add" /\ c.lock = l /\ c.kind = k /\ c.who = n
  BY IdleCall DEF Idle, Call, Op, Pc
<1>2. Number(c)
  BY DEF AddCredential
<1> HIDE DEF c
<1> QED BY <1>1, <1>2, NumberTypes DEF AddCredential

LEMMA RegisterCredentialTypes ==
  ASSUME Types, NEW p \in Place, NEW n \in Name, RegisterCredential(p, n) PROVE Types'
<1> DEFINE c == [Idle EXCEPT !.op = "register", !.lock = p[1], !.kind = p[2],
                             !.hw = p[3], !.who = n]
<1>1. p[1] \in Lock /\ p[2] \in Kind /\ p[3] \in Hw
  BY DEF Place
<1>2. /\ c \in Call /\ c.op = "register" /\ c.lock = p[1] /\ c.kind = p[2]
      /\ c.hw = p[3] /\ c.who = n
  BY <1>1, IdleCall DEF Idle, Call, Op, Pc
<1>3. Number(c)
  BY DEF RegisterCredential
<1> HIDE DEF c
<1> QED BY <1>1, <1>2, <1>3, NumberTypes DEF RegisterCredential

\* A call begins or goes on, and data and members stay.
LEMMA CallTypes ==
  ASSUME Types, call' \in Call, CallKeeps(call'), Copies', Others',
         mem'.members = mem.members, Rolling' => IsData(prev')
  PROVE  Types'
<1>1. \A n : Known(n) => Known(n)'
  BY DEF Known
<1>2. CallShape'
  BY <1>1 DEF CallShape, CallKeeps, Naming, IsAt
<1> QED BY <1>2, TypesPartsNext

LEMMA QuietTypes ==
  ASSUME Types, call' \in Call, CallKeeps(call'), Rolling' => Rolling,
         UNCHANGED <<mem, disk, prev>>, Others'
  PROVE  Types'
<1>1. Copies' /\ (Rolling' => IsData(prev'))
  BY DEF Types, TypeOK, CallShape, Copies
<1> QED BY <1>1, CallTypes

LEMMA OthersStay ==
  ASSUME Types, UNCHANGED <<slot, used, env>>, kept' \subseteq Id PROVE Others'
BY DEF Types, TypeOK, Others, env

LEMMA BeginsTypes ==
  ASSUME Types, NEW c \in Call, CallKeeps(c), c.pc = "connect", call' = c,
         UNCHANGED <<mem, disk, slot, used, kept, prev, env>>
  PROVE  Types'
<1>1. Others'
  BY OthersStay DEF Types, TypeOK
<1>2. ~Rolling'
  BY DEF Rolling
<1> QED BY <1>1, <1>2, QuietTypes

LEMMA StartsTypes == ASSUME Types, Starts PROVE Types'
<1>1. ASSUME NEW l \in Lock, NEW k \in Kind, NEW n \in Name, NEW a \in BOOLEAN,
             AddCredential(l, k, n, a)
      PROVE  Types'
  BY <1>1, AddCredentialTypes
<1>2. ASSUME NEW p \in Place, NEW n \in Name, RegisterCredential(p, n) PROVE Types'
  BY <1>2, RegisterCredentialTypes
<1>3. ASSUME NEW i \in Id, DeleteOne(i) PROVE Types'
  <2> DEFINE c == [Idle EXCEPT !.op = "delete", !.pc = "connect", !.todo = {i},
                               !.lock = mem.creds[i].spot[1]]
  <2>1. mem.creds[i].spot[1] \in Lock
    BY <1>3, DataParts DEF DeleteOne, Types, TypeOK, Record, Spot
  <2>2. c \in Call /\ c.op = "delete" /\ c.pc = "connect"
    BY <2>1, IdleCall DEF Idle, Call, Op, Pc
  <2>3. CallKeeps(c)
    <3> HIDE DEF c
    <3> QED BY <2>2 DEF CallKeeps
  <2>4. call' = c /\ UNCHANGED <<mem, disk, slot, used, kept, prev, env>>
    BY <1>3 DEF DeleteOne, Begin
  <2> HIDE DEF c
  <2> QED BY <2>2, <2>3, <2>4, BeginsTypes
<1>4. ASSUME NEW l \in Lock, NEW n \in Name, NEW K, DeleteMember(l, n, K) PROVE Types'
  <2> DEFINE I == {i \in Of(mem, l) : /\ mem.creds[i].member = MemberOf(n)
                                      /\ mem.creds[i].spot[2] \in K}
             c == [Idle EXCEPT !.op = "delete", !.pc = "connect", !.todo = I, !.lock = l]
  <2>1. I \in SUBSET Id
    BY DataParts DEF Of, Types, TypeOK
  <2>2. c \in Call /\ c.op = "delete" /\ c.pc = "connect"
    <3> HIDE DEF I
    <3> QED BY <2>1, IdleCall DEF Idle, Call, Op, Pc
  <2>3. CallKeeps(c)
    <3> HIDE DEF c
    <3> QED BY <2>2 DEF CallKeeps
  <2>4. call' = c /\ UNCHANGED <<mem, disk, slot, used, kept, prev, env>>
    BY <1>4 DEF DeleteMember, Begin
  <2> HIDE DEF c
  <2> QED BY <2>2, <2>3, <2>4, BeginsTypes
<1>5. ASSUME NEW l \in Lock, ClearFingerprints(l) PROVE Types'
  <2> DEFINE c == [Idle EXCEPT !.op = "clear", !.pc = "connect", !.lock = l, !.kind = "finger"]
  <2>1. c \in Call /\ c.op = "clear" /\ c.pc = "connect" /\ c.lock = l
    BY <1>5, IdleCall DEF ClearFingerprints, Idle, Call, Op, Pc
  <2>2. CallKeeps(c)
    <3> HIDE DEF c
    <3> QED BY <2>1 DEF CallKeeps
  <2>3. call' = c /\ UNCHANGED <<mem, disk, slot, used, kept, prev, env>>
    BY <1>5 DEF ClearFingerprints, Begin
  <2> HIDE DEF c
  <2> QED BY <2>1, <2>2, <2>3, BeginsTypes
<1>6. ASSUME NEW l \in Lock \cup {None}, ClearCredentials(l) PROVE Types'
  <2> DEFINE c == [Idle EXCEPT !.op = "wipe", !.pc = "save"]
  <2>1. c \in Call /\ c.op = "wipe" /\ c.pc = "save"
    BY IdleCall DEF Idle, Call, Op, Pc
  <2>2. call' = c /\ ~Rolling' /\ CallKeeps(c)
    BY <1>6, <2>1 DEF ClearCredentials, Begin, Rolling, RollsBack, CallKeeps
  <2>3. IsData(mem')
    BY <1>6, NoDataTypes, ForgottenTypes DEF ClearCredentials, Change, Types, TypeOK
  <2>4. Copies' /\ Others'
    BY <1>6, <2>3, OthersStay DEF ClearCredentials, Copies, Types, TypeOK
  <2>5. CallShape'
    <3> HIDE DEF c
    <3> QED BY <2>1, <2>2 DEF CallShape, Naming, IsAt
  <2> HIDE DEF c
  <2> QED BY <2>1, <2>2, <2>4, <2>5, TypesPartsNext
<1>7. ASSUME NEW l \in Lock, ReportFactoryReset(l) PROVE Types'
  <2> DEFINE c == [Idle EXCEPT !.op = "reset", !.pc = "save", !.lock = l]
  <2>1. c \in Call /\ c.op = "reset" /\ c.pc = "save"
    BY IdleCall DEF Idle, Call, Op, Pc
  <2>2. call' = c /\ CallKeeps(c)
    BY <1>7, <2>1 DEF ReportFactoryReset, Begin, CallKeeps
  <2>3. IsData(mem') /\ mem'.members = mem.members /\ IsData(prev')
    BY <1>7, ForgottenTypes DEF ReportFactoryReset, Change, Types, TypeOK
  <2>4. Copies' /\ Others'
    BY <1>7, <2>3, OthersStay DEF ReportFactoryReset, Copies, Types, TypeOK
  <2> HIDE DEF c
  <2> QED BY <2>1, <2>2, <2>3, <2>4, CallTypes
<1>8. ASSUME NEW i \in Id, NEW o \in {"pause", "resume"}, SetPaused(o, i) PROVE Types'
  <2> DEFINE c == [Idle EXCEPT !.op = o, !.pc = "connect", !.id = i,
                               !.lock = mem.creds[i].spot[1]]
  <2>1. mem.creds[i].spot[1] \in Lock
    BY <1>8, DataParts DEF SetPaused, Current, Types, TypeOK, Record, Spot
  <2>2. c \in Call /\ c.op = o /\ c.pc = "connect"
    BY <2>1, IdleCall DEF Idle, Call, Op, Pc
  <2>3. CallKeeps(c)
    <3> HIDE DEF c
    <3> QED BY <2>2 DEF CallKeeps
  <2>4. call' = c /\ UNCHANGED <<mem, disk, slot, used, kept, prev, env>>
    BY <1>8 DEF SetPaused, Begin
  <2> HIDE DEF c
  <2> QED BY <2>2, <2>3, <2>4, BeginsTypes
<1> QED BY <1>1, <1>2, <1>3, <1>4, <1>5, <1>6, <1>7, <1>8 DEF Starts
\* The call goes on at another place, with the other fields as they are.
LEMMA StepTypes ==
  ASSUME Types, NEW q \in Pc, Step(q)
  PROVE  /\ call' \in Call /\ call'.pc = q /\ call'.op = call.op
         /\ call'.lock = call.lock /\ call'.kind = call.kind /\ call'.who = call.who
         /\ call'.hw = call.hw /\ call'.id = call.id
BY DEF Step, Types, TypeOK, Call

LEMMA MemberSavedTypes == ASSUME Types, MemberSaved PROVE Types'
<1> DEFINE q == IF call.op = "add" THEN "connect" ELSE "register"
<1>1. q \in Pc /\ Step(q)
  BY DEF MemberSaved, Pc
<1>2. Naming
  BY DEF MemberSaved, Types, CallShape
<1>3. CallKeeps(call') /\ ~Rolling'
  BY <1>1, <1>2, StepTypes DEF Types, CallShape, CallKeeps, Naming, Rolling, RollsBack
<1>4. Copies' /\ Others' /\ mem' = mem
  BY OthersStay DEF MemberSaved, Copies, Types, TypeOK
<1> QED BY <1>1, <1>3, <1>4, StepTypes, CallTypes

LEMMA EnrolTypes == ASSUME Types, NEW h \in Hw, NEW i \in Id, Enrol(h, i) PROVE Types'
<1> DEFINE p == <<call.lock, call.kind, h>>
           e == [id |-> i, member |-> MemberOf(call.who), admin |-> call.admin,
                 suspended |-> FALSE]
<1>1. call \in Call /\ call.op = "add" /\ Known(call.who) /\ call.lock \in Lock
      /\ call.kind \in Kind
  BY DEF Enrol, IsAt, Types, TypeOK, CallShape, Naming
<1>2. e \in Enrolled /\ p \in Place
  BY <1>1, MemberOfKnown, DataParts DEF Enrolled, Place, Types, TypeOK, Call
<1>3. slot' \in [Place -> Enrolled \cup {None}]
  BY <1>2 DEF Enrol, Types, TypeOK
<1>4. Others'
  BY <1>3 DEF Enrol, Types, TypeOK, Others, env
<1>5. call' = [call EXCEPT !.pc = "reply", !.id = i, !.hw = h]
  BY DEF Enrol
<1>6. /\ call' \in Call /\ call'.pc = "reply" /\ call'.op = "add" /\ call'.hw = h
      /\ call'.lock = call.lock /\ call'.kind = call.kind /\ call'.who = call.who
      /\ call'.id = i
  BY <1>1, <1>5 DEF Call, Pc
<1>7. CallKeeps(call') /\ ~Rolling'
  BY <1>1, <1>6 DEF CallKeeps, Rolling, RollsBack
<1> QED BY <1>4, <1>6, <1>7, QuietTypes DEF Enrol

\* A record of the member that the call is for.
LEMMA NewRecordTypes ==
  ASSUME Types, Naming, NEW h \in Hw \cup {NoSlot}, NEW pol \in Policy \cup {None},
         NEW of \in Id \cup {None}
  PROVE  [member |-> MemberOf(call.who), spot |-> <<call.lock, call.kind, h>>,
          policy |-> pol, pause |-> "active", of |-> of] \in Record
<1>1. MemberOf(call.who) \in Member /\ call.lock \in Lock /\ call.kind \in Kind
  BY MemberOfKnown, DataParts DEF Types, TypeOK, CallShape
<1> QED BY <1>1 DEF Record, Spot, Pause

LEMMA ConfirmedTypes ==
  ASSUME Types, Naming, NEW h PROVE Confirmed(h) \in Policy \cup {None}
<1>1. MemberOf(call.who) \in Member /\ call.admin \in BOOLEAN
  BY MemberOfKnown, DataParts DEF Types, TypeOK, CallShape, Call
<1> QED BY <1>1 DEF Confirmed, Policy

LEMMA RecordEnrolmentTypes ==
  ASSUME Types, NEW h \in {call.hw, NoSlot}, RecordEnrolment(h)
  PROVE  Types'
<1> DEFINE r == [member |-> MemberOf(call.who), spot |-> <<call.lock, call.kind, h>>,
                 policy |-> Confirmed(h), pause |-> "active", of |-> call.id]
<1>1. /\ call \in Call /\ call.op = "add" /\ call.pc = "reply" /\ Naming
      /\ call.id \in Id /\ call.hw \in Hw
  BY DEF RecordEnrolment, IsAt, Types, TypeOK, CallShape, Naming
<1>2. h \in Hw \cup {NoSlot} /\ r \in Record
  BY <1>1, ConfirmedTypes, NewRecordTypes
<1>3. mem' = Added(mem, call.id, r)
  BY DEF RecordEnrolment, Change
<1>4. IsData(mem') /\ mem'.members = mem.members
  <2> HIDE DEF r
  <2> QED BY <1>1, <1>2, <1>3, AddedTypes DEF Types, TypeOK
<1>5. Copies' /\ Others'
  BY <1>4, OthersStay DEF RecordEnrolment, Copies, Types, TypeOK
<1>6. call' = [call EXCEPT !.pc = "save", !.hw = h]
  BY DEF RecordEnrolment
<1>7. /\ call' \in Call /\ call'.pc = "save" /\ call'.op = "add" /\ call'.hw = h
      /\ call'.lock = call.lock /\ call'.kind = call.kind /\ call'.who = call.who
      /\ call'.id = call.id
  BY <1>1, <1>2, <1>6 DEF Call, Pc
<1>8. CallKeeps(call') /\ ~Rolling'
  BY <1>1, <1>7 DEF Types, CallShape, CallKeeps, Naming, Rolling, RollsBack
<1> QED BY <1>4, <1>5, <1>7, <1>8, CallTypes

LEMMA RegisterTypes == ASSUME Types, NEW i \in Id, Register(i) PROVE Types'
<1> DEFINE p == <<call.lock, call.kind, call.hw>>
           of == IF slot[p] = None THEN None ELSE slot[p].id
           r == [member |-> MemberOf(call.who), spot |-> p, policy |-> None,
                 pause |-> "active", of |-> of]
<1>1. /\ call \in Call /\ call.op = "register" /\ Naming /\ call.hw \in Hw
      /\ call.lock \in Lock /\ call.kind \in Kind
  BY DEF Register, IsAt, Types, TypeOK, CallShape, Naming
<1>2. of \in Id \cup {None}
  BY <1>1 DEF Types, TypeOK, Place, Enrolled
<1>3. r \in Record
  <2> HIDE DEF of
  <2> QED BY <1>1, <1>2, NewRecordTypes
<1>4. mem' = Added(mem, i, r)
  BY DEF Register, Change
<1>5. IsData(mem') /\ mem'.members = mem.members
  <2> HIDE DEF r
  <2> QED BY <1>3, <1>4, AddedTypes DEF Types, TypeOK
<1>6. Copies' /\ Others'
  BY <1>5 DEF Register, Copies, Others, Types, TypeOK, env
<1>7. Step("save") /\ "save" \in Pc
  BY DEF Register, Pc
<1>8. CallKeeps(call') /\ ~Rolling'
  BY <1>1, <1>7, StepTypes DEF Types, CallShape, CallKeeps, Naming, Rolling, RollsBack
<1> QED BY <1>5, <1>6, <1>7, <1>8, StepTypes, CallTypes

LEMMA DeleteTypes == ASSUME Types, NEW i \in Id, Delete(i) PROVE Types'
<1>1. PICK ok \in BOOLEAN : call' = [call EXCEPT !.pc = "reply", !.id = i, !.reply = ok]
  BY DEF Delete
<1>2. call \in Call /\ call.op = "delete"
  BY DEF Delete, IsAt, Types, TypeOK
<1>3. call' \in Call /\ call'.pc = "reply" /\ call'.op = "delete"
  BY <1>1, <1>2 DEF Call, Pc
<1>4. CallKeeps(call') /\ ~Rolling'
  BY <1>3 DEF CallKeeps, Rolling
<1>5. Others'
  BY DEF Delete, Erases, Types, TypeOK, Others, env
<1> QED BY <1>3, <1>4, <1>5, QuietTypes DEF Delete

\* Records are forgotten, and a save begins or the call goes on.
LEMMA ForgetsTypes ==
  ASSUME Types, NEW I, mem' = Forgotten(mem, I), kept' \subseteq Id,
         UNCHANGED <<disk, slot, used, prev, env>>, call' \in Call, CallKeeps(call'), ~Rolling'
  PROVE  Types'
<1>1. IsData(mem') /\ mem'.members = mem.members
  BY ForgottenTypes DEF Types, TypeOK
<1>2. Copies' /\ Others'
  BY <1>1, OthersStay DEF Copies, Types, TypeOK
<1> QED BY <1>1, <1>2, CallTypes

LEMMA ForgetTypes == ASSUME Types, Forget PROVE Types'
<1>1. call' = [call EXCEPT !.pc = "save", !.todo = @ \ {call.id}]
  BY DEF Forget
<1>2. call \in Call /\ call.op = "delete"
  BY DEF Forget, IsAt, Types, TypeOK
<1>3. call' \in Call /\ call'.pc = "save" /\ call'.op = "delete"
  BY <1>1, <1>2 DEF Call, Pc
<1>4. CallKeeps(call') /\ ~Rolling'
  BY <1>3 DEF CallKeeps, Rolling, RollsBack
<1> QED BY <1>3, <1>4, ForgetsTypes DEF Forget, Change, Types, TypeOK

LEMMA ClearTypes ==
  ASSUME Types,
         \/ ListFingers \/ ListAgain \/ Cleared
         \/ \E h \in Hw : EraseFinger(h) \/ ForgetFinger(h)
  PROVE  Types'
<1>0. call \in Call /\ call.slots \in SUBSET Hw /\ call.tried \in SUBSET Hw
  BY DEF Types, TypeOK, Call
<1>1. CASE ListFingers
  <2>1. PICK H \in SUBSET Hw : call' = [call EXCEPT !.pc = "erase", !.slots = H]
    BY <1>1 DEF ListFingers, Lists, Fingers
  <2>2. call.op = "clear" /\ call.lock \in Lock
    BY <1>1 DEF ListFingers, IsAt, Types, CallShape
  <2>3. call' \in Call /\ call'.pc = "erase" /\ call'.op = "clear" /\ call'.lock \in Lock
    BY <1>0, <2>1, <2>2 DEF Call, Pc
  <2>4. CallKeeps(call') /\ ~Rolling' /\ Others'
    BY <1>1, <2>3, OthersStay DEF CallKeeps, Rolling, ListFingers, Types, TypeOK
  <2> QED BY <1>1, <2>3, <2>4, QuietTypes DEF ListFingers
<1>2. CASE ListAgain
  <2>1. PICK H \in SUBSET Hw : call' = [call EXCEPT !.pc = "forget", !.slots = H]
    <3>1. \A seen : call.tried \ seen \in SUBSET Hw
      BY <1>0
    <3> QED BY <1>2, <3>1 DEF ListAgain
  <2>2. call.op = "clear" /\ call.lock \in Lock
    BY <1>2 DEF ListAgain, IsAt, Types, CallShape
  <2>3. call' \in Call /\ call'.pc = "forget" /\ call'.op = "clear" /\ call'.lock \in Lock
    BY <1>0, <2>1, <2>2 DEF Call, Pc
  <2>4. CallKeeps(call') /\ ~Rolling' /\ Others'
    BY <1>2, <2>3, OthersStay DEF CallKeeps, Rolling, ListAgain, Types, TypeOK
  <2> QED BY <1>2, <2>3, <2>4, QuietTypes DEF ListAgain
<1>3. CASE Cleared
  <2>1. ~Rolling' /\ Others'
    BY <1>3, OthersStay DEF Cleared, Idle, Rolling, Types, TypeOK
  <2> QED BY <1>3, <2>1, IdleCall, IdleKeeps, QuietTypes DEF Cleared
<1>4. ASSUME NEW h \in Hw, EraseFinger(h) PROVE Types'
  <2>1. PICK T \in SUBSET Hw : call' = [call EXCEPT !.slots = @ \ {h}, !.tried = @ \cup T]
    BY <1>4 DEF EraseFinger
  <2>2. call.op = "clear" /\ call.lock \in Lock /\ call.pc = "erase"
    BY <1>4 DEF EraseFinger, IsAt, Types, CallShape
  <2>3. call' \in Call /\ call'.pc = "erase" /\ call'.op = "clear" /\ call'.lock \in Lock
    BY <1>0, <2>1, <2>2 DEF Call
  <2>4. CallKeeps(call') /\ ~Rolling' /\ Others'
    BY <1>4, <2>3 DEF CallKeeps, Rolling, EraseFinger, Types, TypeOK, Others, env
  <2> QED BY <1>4, <2>3, <2>4, QuietTypes DEF EraseFinger
<1>5. ASSUME NEW h \in Hw, ForgetFinger(h) PROVE Types'
  <2>1. PICK q \in {"forget", "save"} : call' = [call EXCEPT !.slots = @ \ {h}, !.pc = q]
    BY <1>5 DEF ForgetFinger
  <2>2. call.op = "clear" /\ call.lock \in Lock
    BY <1>5 DEF ForgetFinger, IsAt, Types, CallShape
  <2>3. call' \in Call /\ call'.pc = q /\ call'.op = "clear" /\ call'.lock \in Lock
    BY <1>0, <2>1, <2>2 DEF Call, Pc
  <2>4. CallKeeps(call') /\ ~Rolling'
    BY <2>3 DEF CallKeeps, Rolling, RollsBack
  <2> QED BY <1>5, <2>3, <2>4, ForgetsTypes DEF ForgetFinger, Change, Types, TypeOK
<1> QED BY <1>1, <1>2, <1>3, <1>4, <1>5

LEMMA PauseTypes ==
  ASSUME Types, Intend \/ IntentSaved \/ Schedule \/ Confirm PROVE Types'
<1>1. CASE Intend
  <2>1. IsData(mem') /\ mem'.members = mem.members
    BY <1>1, NotedTypes DEF Intend, Current, Change, Pause
  <2>2. Copies' /\ Others' /\ IsData(prev')
    BY <1>1, <2>1, OthersStay DEF Intend, Copies, Types, TypeOK
  <2>3. Step("intent") /\ "intent" \in Pc
    BY <1>1 DEF Intend, Pc
  <2>4. CallKeeps(call')
    BY <1>1, <2>3, StepTypes DEF Intend, CallKeeps
  <2> QED BY <2>1, <2>2, <2>3, <2>4, StepTypes, CallTypes
<1>2. CASE IntentSaved
  <2>1. Copies' /\ Others' /\ mem' = mem
    BY <1>2, OthersStay DEF IntentSaved, Copies, Types, TypeOK
  <2>2. Step("send") /\ "send" \in Pc /\ call.op \in {"pause", "resume"}
    BY <1>2 DEF IntentSaved, Types, CallShape, Pc
  <2>3. CallKeeps(call') /\ ~Rolling'
    BY <2>2, StepTypes DEF CallKeeps, Rolling
  <2> QED BY <2>1, <2>2, <2>3, StepTypes, CallTypes
<1>3. CASE Schedule
  <2>1. slot' \in [Place -> Enrolled \cup {None}]
    <3> DEFINE p == mem.creds[call.id].spot
               e == [slot[p] EXCEPT !.suspended = (call.op = "pause")]
    <3>1. slot' = [slot EXCEPT ![p] = e]
      BY <1>3 DEF Schedule
    <3>2. p \in Place => e \in Enrolled
      BY <1>3 DEF Schedule, Types, TypeOK, Enrolled
    <3> HIDE DEF p, e
    <3> QED BY <3>1, <3>2 DEF Types, TypeOK
  <2>2. Others'
    BY <1>3, <2>1 DEF Schedule, Types, TypeOK, Others, env
  <2>3. Step("reply") /\ "reply" \in Pc /\ call.op \in {"pause", "resume"}
    BY <1>3 DEF Schedule, Types, CallShape, Pc
  <2>4. CallKeeps(call') /\ ~Rolling'
    BY <2>3, StepTypes DEF CallKeeps, Rolling
  <2> QED BY <1>3, <2>2, <2>3, <2>4, StepTypes, QuietTypes DEF Schedule
<1>4. CASE Confirm
  <2>1. IsData(mem') /\ mem'.members = mem.members
    <3>1. (IF call.op = "pause" THEN "paused" ELSE "active") \in Pause
      BY DEF Pause
    <3> QED BY <1>4, <3>1, NotedTypes DEF Confirm, Current, Change
  <2>2. Copies' /\ Others' /\ IsData(prev')
    BY <1>4, <2>1, OthersStay DEF Confirm, Copies, Types, TypeOK
  <2>3. Step("save") /\ "save" \in Pc
    BY <1>4 DEF Confirm, Pc
  <2>4. CallKeeps(call')
    BY <1>4, <2>3, StepTypes DEF Confirm, CallKeeps
  <2> QED BY <2>1, <2>2, <2>3, <2>4, StepTypes, CallTypes
<1> QED BY <1>1, <1>2, <1>3, <1>4

LEMMA SaveTypes == ASSUME Types, Saved \/ SaveFails \/ Raises PROVE Types'
<1>0. call \in Call
  BY DEF Types, TypeOK
<1>1. CASE Saved
  <2>1. Copies' /\ mem' = mem
    BY <1>1 DEF Saved, Copies, Types, TypeOK
  <2>2. kept' \subseteq Id
    BY <1>1 DEF Saved, Types, TypeOK, CallShape
  <2>3. /\ call' \in Call /\ CallKeeps(call') /\ ~Rolling'
    <3>1. CASE call' = [call EXCEPT !.pc = "connect"] /\ call.op = "delete"
      <4>1. call' \in Call /\ call'.pc = "connect" /\ call'.op = "delete"
        BY <1>0, <3>1 DEF Call, Pc
      <4> QED BY <4>1 DEF CallKeeps, Rolling
    <3>2. CASE call' = [call EXCEPT !.pc = "forget"] /\ call.op = "clear"
      <4>1. call' \in Call /\ call'.pc = "forget" /\ call'.op = "clear" /\ call'.lock = call.lock
        BY <1>0, <3>2 DEF Call, Pc
      <4> QED BY <3>2, <4>1 DEF CallKeeps, Rolling, Types, CallShape
    <3>3. CASE call' = Idle
      BY <3>3, IdleCall, IdleKeeps DEF Rolling, Idle
    <3> QED BY <1>1, <3>1, <3>2, <3>3 DEF Saved, Then
  <2> QED BY <1>1, <2>1, <2>2, <2>3, OthersStay, CallTypes DEF Saved
<1>2. CASE SaveFails
  <2>1. IsData(mem')
    BY <1>2 DEF SaveFails, Types, TypeOK, CallShape, Rolling, RollsBack, Naming
  <2>2. Copies' /\ Others'
    BY <1>2, <2>1, OthersStay DEF SaveFails, Copies, Types, TypeOK
  <2>3. CallShape' /\ call' \in Call
    BY <1>2, IdleCall DEF SaveFails, Idle, CallShape, Naming, IsAt, Rolling, RollsBack
  <2> QED BY <2>2, <2>3, TypesPartsNext
<1>3. CASE Raises
  <2>1. ~Rolling' /\ Others'
    BY <1>3, OthersStay DEF Raises, Idle, Rolling, Types, TypeOK
  <2> QED BY <1>3, <2>1, IdleCall, IdleKeeps, QuietTypes DEF Raises
<1> QED BY <1>1, <1>2, <1>3

LEMMA GoesTypes == ASSUME Types, Goes PROVE Types'
<1>1. CASE \E h \in {call.hw, NoSlot} : RecordEnrolment(h)
  BY <1>1, RecordEnrolmentTypes
<1>2. CASE ~\E h \in {call.hw, NoSlot} : RecordEnrolment(h)
  BY <1>2, MemberSavedTypes, EnrolTypes, RegisterTypes, DeleteTypes, ForgetTypes,
     ClearTypes, PauseTypes, SaveTypes DEF Goes
<1> QED BY <1>1, <1>2

LEMMA WorldTypes == ASSUME Types, World PROVE Types'
<1>0. CallKeeps(call) /\ call \in Call
  BY ShapeFromCall DEF Types, TypeOK
<1>1. CASE OthersSave
  <2>1. Copies' /\ mem' = mem /\ Others'
    BY <1>1, OthersStay DEF OthersSave, Copies, Types, TypeOK
  <2>2. call' = call /\ (Rolling' => IsData(prev'))
    BY <1>1 DEF OthersSave, Rolling, RollsBack, Types, CallShape
  <2> QED BY <1>0, <2>1, <2>2, CallTypes
<1>2. ASSUME NEW p \in Place, NEW m \in Member, NEW i \in Id, EnrolAtLock(p, m, i)
      PROVE  Types'
  <2>1. [id |-> i, member |-> m, admin |-> FALSE, suspended |-> FALSE] \in Enrolled
    BY DEF Enrolled
  <2>2. slot' \in [Place -> Enrolled \cup {None}]
    BY <1>2, <2>1 DEF EnrolAtLock, Types, TypeOK
  <2>3. Others'
    BY <1>2, <2>2, BoundAssumption DEF EnrolAtLock, Types, TypeOK, Others
  <2>4. call' = call /\ (Rolling' => Rolling)
    BY <1>2 DEF EnrolAtLock, Rolling, RollsBack
  <2> QED BY <1>0, <1>2, <2>3, <2>4, QuietTypes DEF EnrolAtLock
<1>3. ASSUME NEW p \in Place, RemoveAtLock(p) PROVE Types'
  <2>1. Others'
    BY <1>3, BoundAssumption DEF RemoveAtLock, Types, TypeOK, Others
  <2>2. call' = call /\ (Rolling' => Rolling)
    BY <1>3 DEF RemoveAtLock, Rolling, RollsBack
  <2> QED BY <1>0, <1>3, <2>1, <2>2, QuietTypes DEF RemoveAtLock
<1>4. ASSUME NEW l \in Lock, FactoryReset(l) PROVE Types'
  <2>1. Others'
    BY <1>4, BoundAssumption DEF FactoryReset, Types, TypeOK, Others
  <2>2. call' = call /\ (Rolling' => Rolling)
    BY <1>4 DEF FactoryReset, Rolling, RollsBack
  <2> QED BY <1>0, <1>4, <2>1, <2>2, QuietTypes DEF FactoryReset
<1>5. CASE Stop
  <2>1. Copies' /\ Others'
    BY <1>5, BoundAssumption DEF Stop, Copies, Types, TypeOK, Others
  <2>2. CallShape' /\ call' \in Call
    BY <1>5, IdleCall DEF Stop, Idle, CallShape, Naming, IsAt, Rolling, RollsBack
  <2> QED BY <2>1, <2>2, TypesPartsNext
<1> QED BY <1>1, <1>2, <1>3, <1>4, <1>5 DEF World

LEMMA InitTypes == Init => Types
<1> SUFFICES ASSUME Init PROVE Types
  OBVIOUS
<1>1. IsData(mem) /\ IsData(disk) /\ prev = None
  BY NoDataTypes DEF Init
<1>2. CallShape /\ call \in Call
  BY IdleCall DEF Init, Idle, CallShape, Naming, IsAt, Rolling, RollsBack
<1>3. local \in 0..MaxLocal /\ stops \in 0..MaxStops
  BY BoundAssumption DEF Init
<1> QED BY <1>1, <1>2, <1>3 DEF Init, Types, TypeOK

LEMMA NextTypes == Types /\ [Next]_vars => Types'
<1> SUFFICES ASSUME Types, [Next]_vars PROVE Types'
  OBVIOUS
<1>1. CASE UNCHANGED vars
  BY <1>1 DEF vars, env, Types, TypeOK, CallShape, Naming, IsAt, Rolling, RollsBack, Known
<1> QED BY <1>1, StartsTypes, GoesTypes, WorldTypes DEF Next

(* Type correctness: the store and its file, the slots and the call hold    *)
(* what they should (credential_store.py, services.py).                     *)
THEOREM TypeCorrect == Spec => []TypeOK
<1>1. Spec => []Types
  BY InitTypes, NextTypes, PTL DEF Spec
<1>2. Types => TypeOK
  BY DEF Types
<1> QED BY <1>1, <1>2, PTL
(***************************************************************************)
(* What a step does to the data: nothing, a save, a change in memory, or   *)
(* going back to what was there                                            *)
(***************************************************************************)
SameBack == Rolling' => Rolling /\ prev' = prev

Quiet    == UNCHANGED <<mem, disk>> /\ SameBack
Writes   == mem' = mem /\ disk' = mem /\ SameBack
Restores == /\ disk' = disk /\ ~Rolling'
            /\ mem' \in {mem, disk} \/ (Rolling /\ mem' = prev)

NamesOne == \E m \in NextMemberId(mem), n \in Name :
              ~Known(n) /\ mem' = [mem EXCEPT !.members = With(@, m, n)]
Drops    == (\E I : mem' = Forgotten(mem, I)) \/ mem' = NoData
Adds     == \E i \in Id, r \in Record :
              r.member \in DOMAIN mem.members /\ mem' = Added(mem, i, r)
Notes    == call.id \in DOMAIN mem.creds /\ \E s \in Pause : mem' = Noted(s)

Edits == /\ disk' = disk /\ (Rolling' => prev' = mem)
         /\ NamesOne \/ Drops \/ Adds \/ Notes

LEMMA StartsData == ASSUME Types, Starts PROVE Quiet \/ Edits
<1>1. ASSUME NEW c, NEW o \in {"add", "register"}, c.op = o, c \in Call, c.who \in Name,
             Number(c), disk' = disk
      PROVE  Quiet \/ Edits
  <2>1. ~Rolling'
    <3>1. PICK q : call' = [c EXCEPT !.pc = q]
      BY <1>1 DEF Number
    <3>2. call'.op = o
      BY <1>1, <3>1 DEF Call
    <3> QED BY <3>2 DEF Rolling, RollsBack
  <2> QED BY <1>1, <2>1 DEF Number, Change, Quiet, Edits, NamesOne, SameBack
<1>2. ASSUME NEW l \in Lock, NEW k \in Kind, NEW n \in Name, NEW a \in BOOLEAN,
             AddCredential(l, k, n, a)
      PROVE  Quiet \/ Edits
  <2> DEFINE c == [Idle EXCEPT !.op = "add", !.lock = l, !.kind = k, !.who = n, !.admin = a]
  <2>1. c \in Call /\ c.op = "add" /\ c.who = n
    BY IdleCall DEF Idle, Call, Op, Pc
  <2>2. Number(c) /\ disk' = disk
    BY <1>2 DEF AddCredential
  <2> HIDE DEF c
  <2> QED BY <1>1, <2>1, <2>2
<1>3. ASSUME NEW p \in Place, NEW n \in Name, RegisterCredential(p, n) PROVE Quiet \/ Edits
  <2> DEFINE c == [Idle EXCEPT !.op = "register", !.lock = p[1], !.kind = p[2],
                               !.hw = p[3], !.who = n]
  <2>1. p[1] \in Lock /\ p[2] \in Kind /\ p[3] \in Hw
    BY DEF Place
  <2>2. c \in Call /\ c.op = "register" /\ c.who = n
    BY <2>1, IdleCall DEF Idle, Call, Op, Pc
  <2>3. Number(c) /\ disk' = disk
    BY <1>3 DEF RegisterCredential
  <2> HIDE DEF c
  <2> QED BY <1>1, <2>2, <2>3
<1>4. ASSUME NEW i \in Id, DeleteOne(i) PROVE Quiet
  BY <1>4 DEF DeleteOne, Begin, Idle, Quiet, SameBack, Rolling
<1>5. ASSUME NEW l \in Lock, NEW n \in Name, NEW K, DeleteMember(l, n, K) PROVE Quiet
  BY <1>5 DEF DeleteMember, Begin, Idle, Quiet, SameBack, Rolling
<1>6. ASSUME NEW l \in Lock, ClearFingerprints(l) PROVE Quiet
  BY <1>6 DEF ClearFingerprints, Begin, Idle, Quiet, SameBack, Rolling
<1>7. ASSUME NEW l \in Lock \cup {None}, ClearCredentials(l) PROVE Edits
  <2>1. ~Rolling'
    BY <1>7 DEF ClearCredentials, Begin, Idle, Rolling, RollsBack
  <2> QED BY <1>7, <2>1 DEF ClearCredentials, Change, Edits, Drops
<1>8. ASSUME NEW l \in Lock, ReportFactoryReset(l) PROVE Edits
  BY <1>8 DEF ReportFactoryReset, Change, Edits, Drops
<1>9. ASSUME NEW i \in Id, NEW o \in {"pause", "resume"}, SetPaused(o, i) PROVE Quiet
  BY <1>9 DEF SetPaused, Begin, Idle, Quiet, SameBack, Rolling
<1> QED BY <1>2, <1>3, <1>4, <1>5, <1>6, <1>7, <1>8, <1>9 DEF Starts

\* Only saves and the two halves of a pause are at places where data may be
\* rolled back.
LEMMA GoesData == ASSUME Types, Goes PROVE Quiet \/ Writes \/ Restores \/ Edits
<1>0. call \in Call
  BY DEF Types, TypeOK
<1>1. CASE MemberSaved
  BY <1>0, <1>1 DEF MemberSaved, Step, Call, Writes, SameBack, Rolling
<1>2. ASSUME NEW h, NEW i, Enrol(h, i) PROVE Quiet
  BY <1>0, <1>2 DEF Enrol, Call, Quiet, SameBack, Rolling
<1>3. ASSUME NEW h \in {call.hw, NoSlot}, RecordEnrolment(h) PROVE Edits
  <2> DEFINE r == [member |-> MemberOf(call.who), spot |-> <<call.lock, call.kind, h>>,
                   policy |-> Confirmed(h), pause |-> "active", of |-> call.id]
  <2>1. call.op = "add" /\ Naming /\ call.id \in Id /\ h \in Hw \cup {NoSlot} /\ Known(call.who)
    BY <1>3 DEF RecordEnrolment, IsAt, Types, CallShape, Naming
  <2>2. r \in Record /\ r.member \in DOMAIN mem.members
    BY <2>1, ConfirmedTypes, NewRecordTypes, MemberOfKnown
  <2>3. mem' = Added(mem, call.id, r) /\ disk' = disk
    BY <1>3 DEF RecordEnrolment, Change
  <2>4. ~Rolling'
    BY <1>0, <1>3, <2>1 DEF RecordEnrolment, Call, Rolling, RollsBack
  <2> HIDE DEF r
  <2> QED BY <2>1, <2>2, <2>3, <2>4 DEF Edits, Adds
<1>4. ASSUME NEW i \in Id, Register(i) PROVE Edits
  <2> DEFINE p == <<call.lock, call.kind, call.hw>>
             of == IF slot[p] = None THEN None ELSE slot[p].id
             r == [member |-> MemberOf(call.who), spot |-> p, policy |-> None,
                   pause |-> "active", of |-> of]
  <2>1. /\ call.op = "register" /\ Naming /\ call.hw \in Hw /\ Known(call.who)
        /\ call.lock \in Lock /\ call.kind \in Kind
    BY <1>4 DEF Register, IsAt, Types, CallShape, Naming
  <2>2. of \in Id \cup {None}
    BY <2>1 DEF Types, TypeOK, Place, Enrolled
  <2>3. r \in Record /\ r.member \in DOMAIN mem.members
    <3> HIDE DEF of
    <3> QED BY <2>1, <2>2, NewRecordTypes, MemberOfKnown
  <2>4. mem' = Added(mem, i, r) /\ disk' = disk
    BY <1>4 DEF Register, Change
  <2>5. ~Rolling'
    BY <1>0, <1>4, <2>1 DEF Register, Step, Call, Rolling, RollsBack
  <2> HIDE DEF r
  <2> QED BY <2>3, <2>4, <2>5 DEF Edits, Adds
<1>5. ASSUME NEW i, Delete(i) PROVE Quiet
  BY <1>0, <1>5 DEF Delete, Call, Quiet, SameBack, Rolling
<1>6. CASE Forget
  <2>1. ~Rolling'
    BY <1>0, <1>6 DEF Forget, IsAt, Call, Rolling, RollsBack
  <2> QED BY <1>6, <2>1 DEF Forget, Change, Edits, Drops
<1>7. CASE ListFingers
  BY <1>0, <1>7 DEF ListFingers, Call, Quiet, SameBack, Rolling
<1>8. ASSUME NEW h, EraseFinger(h) PROVE Quiet
  BY <1>0, <1>8 DEF EraseFinger, IsAt, Call, Quiet, SameBack, Rolling
<1>9. CASE ListAgain
  BY <1>0, <1>9 DEF ListAgain, Call, Quiet, SameBack, Rolling
<1>10. ASSUME NEW h, ForgetFinger(h) PROVE Edits
  <2>1. ~Rolling'
    BY <1>0, <1>10 DEF ForgetFinger, IsAt, Call, Rolling, RollsBack
  <2> QED BY <1>10, <2>1 DEF ForgetFinger, Change, Edits, Drops
<1>11. CASE Cleared
  BY <1>11 DEF Cleared, Idle, Quiet, SameBack, Rolling
<1>12. CASE Intend
  BY <1>12 DEF Intend, Current, Change, Pause, Edits, Notes
<1>13. CASE IntentSaved
  BY <1>0, <1>13 DEF IntentSaved, Step, Call, Writes, SameBack, Rolling
<1>14. CASE Schedule
  BY <1>0, <1>14 DEF Schedule, Step, Call, Quiet, SameBack, Rolling
<1>15. CASE Confirm
  BY <1>15 DEF Confirm, Current, Change, Pause, Edits, Notes
<1>16. CASE Saved
  BY <1>0, <1>16 DEF Saved, Then, Idle, Call, Writes, SameBack, Rolling
<1>17. CASE SaveFails
  <2>1. ~Rolling' /\ disk' = disk
    BY <1>17 DEF SaveFails, Idle, Rolling
  <2>2. mem' = mem \/ (Rolling /\ mem' = prev)
    BY <1>17 DEF SaveFails, Rolling, RollsBack, Types, CallShape, Naming
  <2> QED BY <2>1, <2>2 DEF Restores
<1>18. CASE Raises
  BY <1>18 DEF Raises, Idle, Quiet, SameBack, Rolling
<1> QED BY <1>1, <1>2, <1>3, <1>4, <1>5, <1>6, <1>7, <1>8, <1>9, <1>10, <1>11, <1>12,
           <1>13, <1>14, <1>15, <1>16, <1>17, <1>18 DEF Goes

LEMMA WorldData == ASSUME Types, World PROVE Quiet \/ Writes \/ Restores
<1>1. CASE OthersSave
  BY <1>1 DEF OthersSave, Writes, SameBack, Rolling, RollsBack
<1>2. CASE Stop
  BY <1>2 DEF Stop, Restores, Idle, Rolling
<1>3. CASE UNCHANGED <<mem, disk, call, prev>>
  BY <1>3 DEF Quiet, SameBack, Rolling, RollsBack
<1> QED BY <1>1, <1>2, <1>3 DEF World, EnrolAtLock, RemoveAtLock, FactoryReset

LEMMA NextData ==
  ASSUME Types, [Next]_vars PROVE Quiet \/ Writes \/ Restores \/ Edits
<1>1. CASE UNCHANGED vars
  BY <1>1 DEF vars, Quiet, SameBack, Rolling, RollsBack
<1> QED BY <1>1, StartsData, GoesData, WorldData DEF Next

(***************************************************************************)
(* Records are sound                                                       *)
(***************************************************************************)
\* So is what a failing save puts back.
SoundInv == SoundIn(mem) /\ SoundIn(disk) /\ (Rolling => SoundIn(prev))

LEMMA NamedSound ==
  ASSUME NEW d, IsData(d), SoundIn(d), NEW m \in Member \ DOMAIN d.members, NEW n \in Name,
         \A k \in DOMAIN d.members : d.members[k] # n
  PROVE  SoundIn([d EXCEPT !.members = With(@, m, n)])
<1> DEFINE e == [d EXCEPT !.members = With(@, m, n)]
<1>1. e.creds = d.creds /\ e.members = With(d.members, m, n)
  BY WithMember
<1>2. /\ DOMAIN e.members = DOMAIN d.members \cup {m} /\ e.members[m] = n
      /\ \A k \in DOMAIN d.members : e.members[k] = d.members[k]
  BY <1>1 DEF With
<1> HIDE DEF e
<1> QED BY <1>1, <1>2 DEF SoundIn, e

LEMMA ForgottenSound ==
  ASSUME NEW d, IsData(d), SoundIn(d), NEW I PROVE SoundIn(Forgotten(d, I))
<1> DEFINE e == Forgotten(d, I)
<1>1. e.members = d.members /\ e.creds = Without(d.creds, I)
  BY ForgottenTypes
<1>2. DOMAIN e.creds \subseteq DOMAIN d.creds /\ \A i \in DOMAIN e.creds : e.creds[i] = d.creds[i]
  BY <1>1 DEF Without
<1> HIDE DEF e
<1> QED BY <1>1, <1>2 DEF SoundIn, e

LEMMA AddedSound ==
  ASSUME NEW d, IsData(d), SoundIn(d), NEW i \in Id, NEW r \in Record,
         r.member \in DOMAIN d.members
  PROVE  SoundIn(Added(d, i, r))
<1> DEFINE e == Added(d, i, r)
<1>1. e.members = d.members /\ e.creds = With(Without(d.creds, At(d, r.spot)), i, r)
  BY AddedTypes
<1>2. /\ e.creds[i] = r
      /\ \A j \in DOMAIN e.creds \ {i} :
           j \in DOMAIN d.creds /\ e.creds[j] = d.creds[j] /\ d.creds[j].spot # r.spot
  BY <1>1 DEF With, Without, At
<1> HIDE DEF e
<1> QED BY <1>1, <1>2 DEF SoundIn, e

LEMMA NotedSound ==
  ASSUME Types, SoundIn(mem), call.id \in DOMAIN mem.creds, NEW s \in Pause
  PROVE  SoundIn(Noted(s))
<1>1. Noted(s).members = mem.members
      /\ Noted(s).creds = [mem.creds EXCEPT ![call.id].pause = s]
  BY NotedTypes
<1>2. /\ DOMAIN Noted(s).creds = DOMAIN mem.creds
      /\ \A i \in DOMAIN mem.creds : /\ Noted(s).creds[i].spot = mem.creds[i].spot
                                     /\ Noted(s).creds[i].member = mem.creds[i].member
  BY <1>1, DataParts DEF Types, TypeOK, Record
<1> QED BY <1>1, <1>2 DEF SoundIn

LEMMA NextSound == ASSUME Types, SoundInv, [Next]_vars PROVE SoundInv'
<1>0. IsData(mem)
  BY DEF Types, TypeOK
<1>1. CASE Quiet
  BY <1>1 DEF Quiet, SameBack, SoundInv, SoundIn
<1>2. CASE Writes
  BY <1>2 DEF Writes, SameBack, SoundInv, SoundIn
<1>3. CASE Restores
  BY <1>3 DEF Restores, SoundInv, SoundIn
<1>4. CASE Edits
  <2>1. SoundIn(mem')
    <3>1. CASE NamesOne
      <4>1. PICK m \in NextMemberId(mem), n \in Name :
              ~Known(n) /\ mem' = [mem EXCEPT !.members = With(@, m, n)]
        BY <3>1 DEF NamesOne
      <4>2. m \in Member \ DOMAIN mem.members /\ \A k \in DOMAIN mem.members : mem.members[k] # n
        BY <4>1 DEF NextMemberId, Least, Known
      <4> QED BY <1>0, <4>1, <4>2, NamedSound DEF SoundInv
    <3>2. CASE Drops
      <4>1. SoundIn(NoData)
        BY DEF SoundIn, NoData
      <4> QED BY <1>0, <3>2, <4>1, ForgottenSound DEF Drops, SoundInv
    <3>3. CASE Adds
      BY <1>0, <3>3, AddedSound DEF Adds, SoundInv
    <3>4. CASE Notes
      BY <3>4, NotedSound DEF Notes, SoundInv
    <3> QED BY <1>4, <3>1, <3>2, <3>3, <3>4 DEF Edits
  <2> QED BY <1>4, <2>1 DEF Edits, SoundInv, SoundIn
<1> QED BY <1>1, <1>2, <1>3, <1>4, NextData

(* A hardware slot has at most one record, and every record has a member    *)
(* with a name of his own, in the store and in its file, whichever saves    *)
(* fail and whenever Home Assistant stops (credential_store.py:             *)
(* async_add_credential, get_member_by_name, next_member_id).               *)
THEOREM RecordsAreSoundHolds == Spec => []RecordsAreSound
<1>1. Init => Types /\ SoundInv
  <2>1. Init => SoundInv
    BY DEF Init, Idle, NoData, SoundInv, SoundIn, Rolling
  <2> QED BY <2>1, InitTypes
<1>2. Types /\ SoundInv /\ [Next]_vars => (Types /\ SoundInv)'
  BY NextTypes, NextSound
<1>3. Types /\ SoundInv => RecordsAreSound
  BY DEF SoundInv, RecordsAreSound
<1> QED BY <1>1, <1>2, <1>3, PTL DEF Spec

(***************************************************************************)
(* What has been reported as enrolled is recorded                          *)
(***************************************************************************)
LEMMA ForgottenDomain ==
  ASSUME NEW d, IsData(d), NEW I
  PROVE  DOMAIN Forgotten(d, I).creds = DOMAIN d.creds \ I
<1>1. Forgotten(d, I).creds = Without(d.creds, I)
  BY ForgottenTypes
<1>2. DOMAIN Without(d.creds, I) = DOMAIN d.creds \ I
  BY DEF Without
<1> QED BY <1>1, <1>2

LEMMA AddedDomain ==
  ASSUME NEW d, IsData(d), NEW i \in Id, NEW r \in Record
  PROVE  DOMAIN Added(d, i, r).creds = (DOMAIN d.creds \ At(d, r.spot)) \cup {i}
<1> DEFINE w == Without(d.creds, At(d, r.spot))
<1>1. Added(d, i, r).creds = With(w, i, r)
  BY AddedTypes
<1>2. DOMAIN w = DOMAIN d.creds \ At(d, r.spot)
  BY DEF Without
<1>3. DOMAIN With(w, i, r) = DOMAIN w \cup {i}
  <2> HIDE DEF w
  <2> QED BY DEF With
<1> HIDE DEF w
<1> QED BY <1>1, <1>2, <1>3

\* Also in what a failing save puts back; and what a save is about to report
\* is in memory.
KeptInv == /\ EnrolledIsRecorded
           /\ Rolling => kept \subseteq DOMAIN prev.creds
           /\ IsAt("add", "save") => call.id \in DOMAIN mem.creds

\* The copies come from each other, so that it is enough to look at memory.
LEMMA KeptStep ==
  ASSUME Types, KeptInv, [Next]_vars,
         kept' \subseteq DOMAIN mem'.creds,
         kept' \subseteq kept \/ (disk' = mem' /\ ~Rolling'),
         IsAt("add", "save")' => call'.id \in DOMAIN mem'.creds
  PROVE  KeptInv'
<1>1. /\ disk' \in {disk, mem}
      /\ Rolling' => (Rolling /\ prev' = prev) \/ prev' = mem
  BY NextData DEF Quiet, Writes, Restores, Edits, SameBack
<1>2. kept' \subseteq DOMAIN disk'.creds
  BY <1>1 DEF KeptInv, EnrolledIsRecorded
<1>3. Rolling' => kept' \subseteq DOMAIN prev'.creds
  BY <1>1 DEF KeptInv, EnrolledIsRecorded
<1> QED BY <1>2, <1>3 DEF KeptInv, EnrolledIsRecorded

LEMMA StartsKept == ASSUME Types, KeptInv, Starts PROVE KeptInv'
<1>0. IsData(mem) /\ [Next]_vars
  BY DEF Types, TypeOK, Next
<1>1. ASSUME NEW c \in Call, c.op = "add" => c.pc = "idle", c.op \in {"add", "register"},
             Number(c), kept' = kept
      PROVE  KeptInv'
  <2>1. DOMAIN mem'.creds = DOMAIN mem.creds
    <3>1. CASE mem' = mem
      BY <3>1
    <3>2. CASE ~Known(c.who)
      <4>1. PICK m \in NextMemberId(mem) : mem' = [mem EXCEPT !.members = With(@, m, c.who)]
        BY <1>1, <3>2 DEF Number, Change
      <4> QED BY <1>0, <4>1 DEF IsData
    <3> QED BY <1>1, <3>1, <3>2 DEF Number
  <2>2. ~IsAt("add", "save")'
    <3>1. PICK q \in {"member", "connect", "register"} : call' = [c EXCEPT !.pc = q]
      BY <1>1 DEF Number
    <3> QED BY <3>1 DEF IsAt, Call
  <2> QED BY <1>0, <1>1, <2>1, <2>2, KeptStep DEF KeptInv, EnrolledIsRecorded
<1>2. ASSUME NEW l \in Lock, NEW k \in Kind, NEW n \in Name, NEW a \in BOOLEAN,
             AddCredential(l, k, n, a)
      PROVE  KeptInv'
  <2> DEFINE c == [Idle EXCEPT !.op = "add", !.lock = l, !.kind = k, !.who = n, !.admin = a]
  <2>1. c \in Call /\ c.op = "add" /\ c.pc = "idle"
    BY IdleCall DEF Idle, Call, Op, Pc
  <2>2. Number(c) /\ kept' = kept
    BY <1>2 DEF AddCredential
  <2> HIDE DEF c
  <2> QED BY <1>1, <2>1, <2>2
<1>3. ASSUME NEW p \in Place, NEW n \in Name, RegisterCredential(p, n) PROVE KeptInv'
  <2> DEFINE c == [Idle EXCEPT !.op = "register", !.lock = p[1], !.kind = p[2],
                               !.hw = p[3], !.who = n]
  <2>1. p[1] \in Lock /\ p[2] \in Kind /\ p[3] \in Hw
    BY DEF Place
  <2>2. c \in Call /\ c.op = "register"
    BY <2>1, IdleCall DEF Idle, Call, Op, Pc
  <2>3. Number(c) /\ kept' = kept
    BY <1>3 DEF RegisterCredential
  <2> HIDE DEF c
  <2> QED BY <1>1, <2>2, <2>3
<1>4. ASSUME NEW c, c.op # "add", Begin(c), UNCHANGED <<mem, kept>> PROVE KeptInv'
  BY <1>0, <1>4, KeptStep DEF Begin, IsAt, KeptInv, EnrolledIsRecorded
<1>5. ASSUME NEW i \in Id, DeleteOne(i) PROVE KeptInv'
  BY <1>4, <1>5 DEF DeleteOne, Idle
<1>6. ASSUME NEW l \in Lock, NEW n \in Name, NEW K, DeleteMember(l, n, K) PROVE KeptInv'
  BY <1>4, <1>6 DEF DeleteMember, Idle
<1>7. ASSUME NEW l \in Lock, ClearFingerprints(l) PROVE KeptInv'
  BY <1>4, <1>7 DEF ClearFingerprints, Idle
<1>8. ASSUME NEW i \in Id, NEW o \in {"pause", "resume"}, SetPaused(o, i) PROVE KeptInv'
  BY <1>4, <1>8 DEF SetPaused, Idle
<1>9. ASSUME NEW l \in Lock \cup {None}, ClearCredentials(l) PROVE KeptInv'
  <2>1. ~IsAt("add", "save")'
    BY <1>9 DEF ClearCredentials, Begin, Idle, IsAt
  <2>2. CASE l = None
    BY <1>0, <1>9, <2>1, <2>2, KeptStep DEF ClearCredentials, Change, NoData
  <2>3. CASE l # None
    <3>1. mem' = Forgotten(mem, Of(mem, l)) /\ kept' = kept \ Of(mem, l)
      BY <1>9, <2>3 DEF ClearCredentials, Change
    <3>2. DOMAIN mem'.creds = DOMAIN mem.creds \ Of(mem, l)
      BY <1>0, <3>1, ForgottenDomain
    <3> QED BY <1>0, <2>1, <3>1, <3>2, KeptStep DEF KeptInv, EnrolledIsRecorded
  <2> QED BY <2>2, <2>3
<1>10. ASSUME NEW l \in Lock, ReportFactoryReset(l) PROVE KeptInv'
  <2>1. ~IsAt("add", "save")'
    BY <1>10 DEF ReportFactoryReset, Begin, Idle, IsAt
  <2>2. mem' = Forgotten(mem, Of(mem, l)) /\ kept' = kept \ Of(mem, l)
    BY <1>10 DEF ReportFactoryReset, Change
  <2>3. DOMAIN mem'.creds = DOMAIN mem.creds \ Of(mem, l)
    BY <1>0, <2>2, ForgottenDomain
  <2> QED BY <1>0, <2>1, <2>2, <2>3, KeptStep DEF KeptInv, EnrolledIsRecorded
<1> QED BY <1>2, <1>3, <1>5, <1>6, <1>7, <1>8, <1>9, <1>10 DEF Starts

LEMMA GoesKept == ASSUME Types, KeptInv, Goes PROVE KeptInv'
<1>0. IsData(mem) /\ call \in Call /\ [Next]_vars
  BY DEF Types, TypeOK, Next
<1>1. ASSUME UNCHANGED <<mem, kept>>, ~IsAt("add", "save")' PROVE KeptInv'
  BY <1>0, <1>1, KeptStep DEF KeptInv, EnrolledIsRecorded
<1>2. CASE MemberSaved
  BY <1>0, <1>1, <1>2 DEF MemberSaved, Step, Call, IsAt
<1>3. ASSUME NEW h, NEW i, Enrol(h, i) PROVE KeptInv'
  BY <1>0, <1>1, <1>3 DEF Enrol, Call, IsAt
<1>4. ASSUME NEW h \in {call.hw, NoSlot}, RecordEnrolment(h) PROVE KeptInv'
  <2> DEFINE p == <<call.lock, call.kind, h>>
             r == [member |-> MemberOf(call.who), spot |-> p,
                   policy |-> Confirmed(h), pause |-> "active", of |-> call.id]
  <2>1. Naming /\ call.id \in Id /\ h \in Hw \cup {NoSlot}
    BY <1>4 DEF RecordEnrolment, IsAt, Types, CallShape, Naming
  <2>2. r \in Record /\ r.spot = p
    BY <2>1, ConfirmedTypes, NewRecordTypes
  <2>3. mem' = Added(mem, call.id, r) /\ kept' = kept \ At(mem, p) /\ call'.id = call.id
    BY <1>0, <1>4 DEF RecordEnrolment, Change, Call
  <2> HIDE DEF r, p
  <2>4. DOMAIN mem'.creds = (DOMAIN mem.creds \ At(mem, p)) \cup {call.id}
    BY <1>0, <2>1, <2>2, <2>3, AddedDomain
  <2> QED BY <1>0, <2>3, <2>4, KeptStep DEF KeptInv, EnrolledIsRecorded
<1>5. ASSUME NEW i \in Id, Register(i) PROVE KeptInv'
  <2> DEFINE p == <<call.lock, call.kind, call.hw>>
             of == IF slot[p] = None THEN None ELSE slot[p].id
             r == [member |-> MemberOf(call.who), spot |-> p, policy |-> None,
                   pause |-> "active", of |-> of]
  <2>1. /\ call.op = "register" /\ Naming /\ call.hw \in Hw
        /\ call.lock \in Lock /\ call.kind \in Kind
    BY <1>5 DEF Register, IsAt, Types, CallShape, Naming
  <2>2. of \in Id \cup {None}
    BY <2>1 DEF Types, TypeOK, Place, Enrolled
  <2>3. r \in Record /\ r.spot = p
    <3> HIDE DEF of
    <3> QED BY <2>1, <2>2, NewRecordTypes
  <2>4. mem' = Added(mem, i, r) /\ kept' = kept \ At(mem, p)
    BY <1>5 DEF Register, Change
  <2>5. ~IsAt("add", "save")'
    BY <1>0, <1>5, <2>1 DEF Register, Step, Call, IsAt
  <2> HIDE DEF r, p
  <2>6. DOMAIN mem'.creds = (DOMAIN mem.creds \ At(mem, p)) \cup {i}
    BY <1>0, <2>3, <2>4, AddedDomain
  <2> QED BY <1>0, <2>4, <2>5, <2>6, KeptStep DEF KeptInv, EnrolledIsRecorded
<1>6. ASSUME NEW i, Delete(i) PROVE KeptInv'
  BY <1>0, <1>1, <1>6 DEF Delete, Call, IsAt
<1>7. ASSUME NEW I, mem' = Forgotten(mem, I), kept' = kept \ I, ~IsAt("add", "save")'
      PROVE  KeptInv'
  <2>1. DOMAIN mem'.creds = DOMAIN mem.creds \ I
    BY <1>0, <1>7, ForgottenDomain
  <2> QED BY <1>0, <1>7, <2>1, KeptStep DEF KeptInv, EnrolledIsRecorded
<1>8. CASE Forget
  <2>1. ~IsAt("add", "save")'
    BY <1>0, <1>8 DEF Forget, Call, IsAt
  <2> QED BY <1>7, <1>8, <2>1 DEF Forget, Change
<1>9. ASSUME NEW h, ForgetFinger(h) PROVE KeptInv'
  <2>1. ~IsAt("add", "save")'
    BY <1>0, <1>9 DEF ForgetFinger, Call, IsAt
  <2> QED BY <1>7, <1>9, <2>1 DEF ForgetFinger, Change
<1>10. CASE ListFingers \/ ListAgain \/ Cleared
  <2>1. UNCHANGED <<mem, kept>>
    BY <1>10 DEF ListFingers, ListAgain, Cleared
  <2>2. call'.op # "add"
    <3>1. CASE ListFingers
      BY <1>0, <3>1 DEF ListFingers, Call, IsAt
    <3>2. CASE ListAgain
      BY <1>0, <3>2 DEF ListAgain, Call, IsAt
    <3>3. CASE Cleared
      BY <3>3 DEF Cleared, Idle
    <3> QED BY <1>10, <3>1, <3>2, <3>3
  <2> QED BY <1>1, <2>1, <2>2 DEF IsAt
<1>11. ASSUME NEW h, EraseFinger(h) PROVE KeptInv'
  BY <1>0, <1>1, <1>11 DEF EraseFinger, Call, IsAt
<1>12. ASSUME NEW s \in Pause, call.op \in {"pause", "resume"}, Current(call.id),
              mem' = Noted(s), NEW q, Step(q), kept' = kept
       PROVE  KeptInv'
  <2>1. DOMAIN mem'.creds = DOMAIN mem.creds
    BY <1>12, NotedTypes DEF Current
  <2>2. ~IsAt("add", "save")'
    BY <1>0, <1>12 DEF Step, Call, IsAt
  <2> QED BY <1>0, <1>12, <2>1, <2>2, KeptStep DEF KeptInv, EnrolledIsRecorded
<1>13. CASE Intend
  BY <1>12, <1>13 DEF Intend, Change, Pause
<1>14. CASE Confirm
  BY <1>12, <1>14 DEF Confirm, Change, Pause
<1>15. CASE IntentSaved \/ Schedule \/ Raises
  BY <1>0, <1>1, <1>15 DEF IntentSaved, Schedule, Raises, Step, Idle, Call, IsAt
<1>16. CASE Saved
  <2>1. mem' = mem /\ disk' = mem' /\ kept' \subseteq DOMAIN mem.creds
    BY <1>16 DEF Saved, KeptInv, EnrolledIsRecorded, IsAt
  <2>2. ~Rolling' /\ ~IsAt("add", "save")'
    BY <1>0, <1>16 DEF Saved, Then, Idle, Call, Rolling, IsAt
  <2> QED BY <1>0, <2>1, <2>2, KeptStep
<1>17. CASE SaveFails
  <2>1. mem' = mem \/ (Rolling /\ mem' = prev)
    BY <1>17 DEF SaveFails, Rolling, RollsBack, Types, CallShape, Naming
  <2>2. kept' = kept /\ ~IsAt("add", "save")'
    BY <1>17 DEF SaveFails, Idle, IsAt
  <2> QED BY <1>0, <2>1, <2>2, KeptStep DEF KeptInv, EnrolledIsRecorded
<1> QED BY <1>2, <1>3, <1>4, <1>5, <1>6, <1>8, <1>9, <1>10, <1>11, <1>13, <1>14, <1>15,
           <1>16, <1>17 DEF Goes

LEMMA WorldKept == ASSUME Types, KeptInv, World \/ UNCHANGED vars PROVE KeptInv'
<1>0. [Next]_vars
  BY DEF Next
<1>1. CASE UNCHANGED <<mem, call, kept>>
  BY <1>0, <1>1, KeptStep DEF KeptInv, EnrolledIsRecorded, IsAt
<1>2. CASE Stop
  BY <1>0, <1>2, KeptStep DEF Stop, Idle, IsAt, KeptInv, EnrolledIsRecorded
<1> QED BY <1>1, <1>2 DEF World, OthersSave, EnrolAtLock, RemoveAtLock, FactoryReset, vars

\* An enrolment that has been reported as done stays in the store and in its
\* file until someone asks to forget it, whichever saves fail and are rolled
\* back and whenever Home Assistant stops (credential_store.py: async_save,
\* async_report_factory_reset, async_set_credential_pause_state).
THEOREM EnrolledIsRecordedHolds == Spec => []EnrolledIsRecorded
<1>1. Init => Types /\ KeptInv
  <2>1. Init => KeptInv
    BY DEF Init, Idle, KeptInv, EnrolledIsRecorded, Rolling, IsAt
  <2> QED BY <2>1, InitTypes
<1>2. Types /\ KeptInv /\ [Next]_vars => (Types /\ KeptInv)'
  BY NextTypes, StartsKept, GoesKept, WorldKept DEF Next
<1>3. Types /\ KeptInv => EnrolledIsRecorded
  BY DEF KeptInv
<1> QED BY <1>1, <1>2, <1>3, PTL DEF Spec

(***************************************************************************)
(* What the store says of a pause is true                                  *)
(***************************************************************************)
\* Credential i is in slot p when the slots hold s.
InSlot(s, p, i) == p \in Place /\ s[p] # None /\ s[p].id = i

TruePause(r, i, s) ==
  r.policy # None /\ InSlot(s, r.spot, i) =>
    (r.pause = "paused" => s[r.spot].suspended) /\ (r.pause = "active" => ~s[r.spot].suspended)

\* Data are right about slots s, and their ids are among U.
Right(d, s, U) == /\ DOMAIN d.creds \subseteq U
                  /\ \A i \in DOMAIN d.creds : TruePause(d.creds[i], i, s)

Asks == call.op \in {"pause", "resume"}

\* While the lock answers an enrolment, the credential is new; from the save of
\* "unknown" on a pause finds its record in that state, in memory and then also
\* in the file; and when the lock has confirmed, the slot is as it was asked.
Asking ==
  /\ IsAt("add", "reply") =>
       LET p == <<call.lock, call.kind, call.hw>> IN
         call.id \in used /\ (InSlot(slot, p, call.id) => ~slot[p].suspended)
  /\ Asks /\ call.pc \in {"intent", "send", "reply"} =>
       call.id \in DOMAIN mem.creds /\ mem.creds[call.id].pause = "unknown"
  /\ Asks /\ call.pc \in {"send", "reply"} => disk = mem
  /\ Asks /\ call.pc = "reply" =>
       LET p == mem.creds[call.id].spot IN
         InSlot(slot, p, call.id) =>
           (call.op = "pause" => slot[p].suspended) /\ (call.op = "resume" => ~slot[p].suspended)

PauseInv == /\ Right(mem, slot, used) /\ Right(disk, slot, used)
            /\ Rolling => Right(prev, slot, used)
            /\ Asking

\* A slot stays, becomes empty or takes a new credential, which is not suspended.
Calm(s, t, U, V) ==
  \A p \in Place : t[p] \in {s[p], None} \/ (t[p].id \in V \ U /\ ~t[p].suspended)

LEMMA RightStays ==
  ASSUME NEW d, NEW s, NEW t, NEW U, NEW V, Right(d, s, U), Calm(s, t, U, V), U \subseteq V
  PROVE  Right(d, t, V)
<1>1. ASSUME NEW i \in DOMAIN d.creds PROVE TruePause(d.creds[i], i, t)
  <2>1. i \in U /\ TruePause(d.creds[i], i, s)
    BY DEF Right
  <2>2. CASE InSlot(t, d.creds[i].spot, i)
    <3>1. t[d.creds[i].spot] = s[d.creds[i].spot]
      BY <2>1, <2>2 DEF InSlot, Calm
    <3> QED BY <2>1, <2>2, <3>1 DEF TruePause, InSlot
  <2> QED BY <2>2 DEF TruePause
<1> QED BY <1>1 DEF Right

LEMMA Slots ==
  ASSUME Types, [Next]_vars
  PROVE  Schedule \/ (Calm(slot, slot', used, used') /\ used \subseteq used')
<1>0. slot \in [Place -> Enrolled \cup {None}] /\ call \in Call
  BY DEF Types, TypeOK
<1>1. CASE UNCHANGED <<slot, used>>
  BY <1>1 DEF Calm
<1>2. ASSUME slot' = slot, used \subseteq used'
      PROVE  Calm(slot, slot', used, used') /\ used \subseteq used'
  BY <1>2 DEF Calm
<1>3. ASSUME NEW q, NEW i \in Id \ used, NEW r, r.id = i, ~r.suspended,
             slot' = [slot EXCEPT ![q] = r], used' = used \cup {i}
      PROVE  Calm(slot, slot', used, used') /\ used \subseteq used'
  BY <1>0, <1>3 DEF Calm
<1>4. ASSUME NEW q, slot' = [slot EXCEPT ![q] = None], used' = used
      PROVE  Calm(slot, slot', used, used') /\ used \subseteq used'
  BY <1>0, <1>4 DEF Calm
<1>5. CASE Starts
  BY <1>1, <1>5 DEF Starts, AddCredential, RegisterCredential, DeleteOne, DeleteMember,
                    ClearFingerprints, ClearCredentials, ReportFactoryReset, SetPaused
<1>6. CASE Goes
  <2>1. ASSUME NEW h \in Hw, NEW i \in Id, Enrol(h, i)
        PROVE  Calm(slot, slot', used, used') /\ used \subseteq used'
    <3> DEFINE r == [id |-> i, member |-> MemberOf(call.who), admin |-> call.admin,
                     suspended |-> FALSE]
    <3>1. r.id = i /\ ~r.suspended
      OBVIOUS
    <3>2. /\ i \in Id \ used /\ used' = used \cup {i}
          /\ slot' = [slot EXCEPT ![<<call.lock, call.kind, h>>] = r]
      BY <2>1 DEF Enrol
    <3> HIDE DEF r
    <3> QED BY <1>3, <3>1, <3>2
  <2>2. ASSUME NEW i \in Id, Register(i) PROVE slot' = slot /\ used \subseteq used'
    BY <2>2 DEF Register
  <2>3. ASSUME NEW i \in Id, Delete(i)
        PROVE  Calm(slot, slot', used, used') /\ used \subseteq used'
    <3>1. /\ used' = used
          /\ slot' = slot \/ slot' = [slot EXCEPT ![mem.creds[i].spot] = None]
      BY <2>3 DEF Delete, Erases
    <3> QED BY <1>2, <1>4, <3>1
  <2>4. ASSUME NEW h \in Hw, EraseFinger(h)
        PROVE  Calm(slot, slot', used, used') /\ used \subseteq used'
    <3>1. /\ used' = used
          /\ slot' = slot \/ slot' = [slot EXCEPT ![<<call.lock, "finger", h>>] = None]
      BY <2>4 DEF EraseFinger
    <3> QED BY <1>2, <1>4, <3>1
  <2>5. CASE UNCHANGED <<slot, used>> \/ Schedule
    BY <1>1, <2>5
  <2> QED BY <1>2, <1>6, <2>1, <2>2, <2>3, <2>4, <2>5
          DEF Goes, MemberSaved, RecordEnrolment, Forget, ListFingers, ListAgain, ForgetFinger,
              Cleared, Intend, IntentSaved, Confirm, Saved, SaveFails, Raises
<1>7. CASE World
  <2>1. ASSUME NEW p \in Place, NEW m \in Member, NEW i \in Id, EnrolAtLock(p, m, i)
        PROVE  Calm(slot, slot', used, used') /\ used \subseteq used'
    <3> DEFINE r == [id |-> i, member |-> m, admin |-> FALSE, suspended |-> FALSE]
    <3>1. r.id = i /\ ~r.suspended
      OBVIOUS
    <3>2. i \in Id \ used /\ used' = used \cup {i} /\ slot' = [slot EXCEPT ![p] = r]
      BY <2>1 DEF EnrolAtLock
    <3> HIDE DEF r
    <3> QED BY <1>3, <3>1, <3>2
  <2>2. ASSUME NEW p \in Place, RemoveAtLock(p)
        PROVE  Calm(slot, slot', used, used') /\ used \subseteq used'
    BY <1>4, <2>2 DEF RemoveAtLock
  <2>3. ASSUME NEW l \in Lock, FactoryReset(l)
        PROVE  Calm(slot, slot', used, used') /\ used \subseteq used'
    BY <2>3 DEF FactoryReset, Calm
  <2> QED BY <1>1, <1>7, <2>1, <2>2, <2>3 DEF World, OthersSave, Stop
<1> QED BY <1>1, <1>5, <1>6, <1>7 DEF Next, vars

LEMMA ForgottenRight ==
  ASSUME NEW d, IsData(d), NEW I, NEW s, NEW U, Right(d, s, U)
  PROVE  Right(Forgotten(d, I), s, U)
<1> DEFINE e == Forgotten(d, I)
<1>1. e.creds = Without(d.creds, I)
  BY ForgottenTypes
<1>2. DOMAIN e.creds \subseteq DOMAIN d.creds /\ \A i \in DOMAIN e.creds : e.creds[i] = d.creds[i]
  BY <1>1 DEF Without
<1> HIDE DEF e
<1> QED BY <1>2 DEF Right, e

LEMMA AddedRight ==
  ASSUME NEW d, IsData(d), NEW i \in Id, NEW r \in Record, NEW s, NEW U, Right(d, s, U),
         NEW V, U \cup {i} \subseteq V, TruePause(r, i, s)
  PROVE  Right(Added(d, i, r), s, V)
<1> DEFINE e == Added(d, i, r)
<1>1. e.creds = With(Without(d.creds, At(d, r.spot)), i, r)
  BY AddedTypes
<1>2. /\ DOMAIN e.creds \subseteq DOMAIN d.creds \cup {i} /\ e.creds[i] = r
      /\ \A j \in DOMAIN e.creds \ {i} : j \in DOMAIN d.creds /\ e.creds[j] = d.creds[j]
  BY <1>1 DEF With, Without
<1> HIDE DEF e
<1>3. ASSUME NEW j \in DOMAIN e.creds PROVE TruePause(e.creds[j], j, s)
  BY <1>2 DEF Right
<1> QED BY <1>2, <1>3 DEF Right, e

\* What becomes of the copies.
LEMMA PauseStep ==
  ASSUME Types, PauseInv, [Next]_vars, ~Schedule, Right(mem', slot', used') \/ ~Edits, Asking'
  PROVE  PauseInv'
<1>1. Calm(slot, slot', used, used') /\ used \subseteq used'
  BY Slots
<1>2. Right(mem, slot', used') /\ Right(disk, slot', used')
  BY <1>1, RightStays DEF PauseInv
<1>3. Rolling => Right(prev, slot', used')
  BY <1>1, RightStays DEF PauseInv
<1>4. /\ disk' \in {disk, mem}
      /\ Rolling' => (Rolling /\ prev' = prev) \/ prev' = mem
      /\ Edits \/ mem' \in {mem, disk} \/ (Rolling /\ mem' = prev)
  BY NextData DEF Quiet, Writes, Restores, Edits, SameBack
<1>5. Right(mem', slot', used')
  BY <1>2, <1>3, <1>4
<1>6. Right(disk', slot', used')
  BY <1>2, <1>4
<1>7. Rolling' => Right(prev', slot', used')
  BY <1>2, <1>3, <1>4
<1> QED BY <1>5, <1>6, <1>7 DEF PauseInv


\* The lock is neither enrolling nor being asked for a pause.
NotAsking(c) == /\ ~(c.op = "add" /\ c.pc = "reply")
                /\ ~(c.op \in {"pause", "resume"} /\ c.pc \in {"intent", "send", "reply"})

LEMMA Unasked == ASSUME NotAsking(call)' PROVE Asking'
BY DEF NotAsking, Asking, Asks, IsAt

LEMMA StartsPause == ASSUME Types, PauseInv, Starts PROVE PauseInv'
<1>0. IsData(mem) /\ [Next]_vars /\ ~Schedule
  <2>1. call = Idle
    BY DEF Starts, AddCredential, RegisterCredential, DeleteOne, DeleteMember,
           ClearFingerprints, ClearCredentials, ReportFactoryReset, SetPaused, Begin
  <2>2. ~Schedule
    BY <2>1 DEF Schedule, Idle
  <2> QED BY <2>2 DEF Types, TypeOK, Next
<1>1. UNCHANGED <<slot, used>> /\ Right(mem, slot, used)
  BY DEF PauseInv, Starts, AddCredential, RegisterCredential, DeleteOne, DeleteMember,
         ClearFingerprints, ClearCredentials, ReportFactoryReset, SetPaused
<1>2. ASSUME NEW c \in Call, c.op \in {"add", "register"}, Number(c) PROVE PauseInv'
  <2>1. Right(mem', slot', used')
    <3>1. CASE mem' = mem
      BY <1>1, <3>1
    <3>2. CASE ~Known(c.who)
      <4>1. PICK m \in NextMemberId(mem) : mem' = [mem EXCEPT !.members = With(@, m, c.who)]
        BY <1>2, <3>2 DEF Number, Change
      <4>2. mem'.creds = mem.creds
        BY <1>0, <4>1 DEF IsData
      <4> QED BY <1>1, <4>2 DEF Right
    <3> QED BY <1>2, <3>1, <3>2 DEF Number
  <2>2. NotAsking(call)'
    <3>1. PICK q \in {"member", "connect", "register"} : call' = [c EXCEPT !.pc = q]
      BY <1>2 DEF Number
    <3>2. call'.op \in {"add", "register"} /\ call'.pc = q
      BY <1>2, <3>1 DEF Call
    <3> QED BY <3>2 DEF NotAsking
  <2> QED BY <1>0, <2>1, <2>2, PauseStep, Unasked
<1>3. ASSUME NEW l \in Lock, NEW k \in Kind, NEW n \in Name, NEW a \in BOOLEAN,
             AddCredential(l, k, n, a)
      PROVE  PauseInv'
  <2> DEFINE c == [Idle EXCEPT !.op = "add", !.lock = l, !.kind = k, !.who = n, !.admin = a]
  <2>1. c \in Call /\ c.op = "add"
    BY IdleCall DEF Idle, Call, Op, Pc
  <2>2. Number(c)
    BY <1>3 DEF AddCredential
  <2> HIDE DEF c
  <2> QED BY <1>2, <2>1, <2>2
<1>4. ASSUME NEW p \in Place, NEW n \in Name, RegisterCredential(p, n) PROVE PauseInv'
  <2> DEFINE c == [Idle EXCEPT !.op = "register", !.lock = p[1], !.kind = p[2],
                               !.hw = p[3], !.who = n]
  <2>1. p[1] \in Lock /\ p[2] \in Kind /\ p[3] \in Hw
    BY DEF Place
  <2>2. c \in Call /\ c.op = "register"
    BY <2>1, IdleCall DEF Idle, Call, Op, Pc
  <2>3. Number(c)
    BY <1>4 DEF RegisterCredential
  <2> HIDE DEF c
  <2> QED BY <1>2, <2>2, <2>3
<1>5. ASSUME NotAsking(call)', Right(mem', slot', used') PROVE PauseInv'
  BY <1>0, <1>5, PauseStep, Unasked
<1>6. ASSUME NEW i \in Id, DeleteOne(i) PROVE PauseInv'
  BY <1>1, <1>5, <1>6 DEF DeleteOne, Begin, Idle, NotAsking
<1>7. ASSUME NEW l \in Lock, NEW n \in Name, NEW K, DeleteMember(l, n, K) PROVE PauseInv'
  BY <1>1, <1>5, <1>7 DEF DeleteMember, Begin, Idle, NotAsking
<1>8. ASSUME NEW l \in Lock, ClearFingerprints(l) PROVE PauseInv'
  BY <1>1, <1>5, <1>8 DEF ClearFingerprints, Begin, Idle, NotAsking
<1>9. ASSUME NEW l \in Lock \cup {None}, ClearCredentials(l) PROVE PauseInv'
  <2>1. NotAsking(call)'
    BY <1>9 DEF ClearCredentials, Begin, Idle, NotAsking
  <2>2. Right(NoData, slot, used)
    BY DEF Right, NoData
  <2>3. mem' \in {NoData, Forgotten(mem, Of(mem, l))}
    BY <1>9 DEF ClearCredentials, Change
  <2> QED BY <1>0, <1>1, <1>5, <2>1, <2>2, <2>3, ForgottenRight
<1>10. ASSUME NEW l \in Lock, ReportFactoryReset(l) PROVE PauseInv'
  <2>1. NotAsking(call)'
    BY <1>10 DEF ReportFactoryReset, Begin, Idle, NotAsking
  <2>2. mem' = Forgotten(mem, Of(mem, l))
    BY <1>10 DEF ReportFactoryReset, Change
  <2> QED BY <1>0, <1>1, <1>5, <2>1, <2>2, ForgottenRight
<1>11. ASSUME NEW i \in Id, NEW o \in {"pause", "resume"}, SetPaused(o, i) PROVE PauseInv'
  BY <1>1, <1>5, <1>11 DEF SetPaused, Begin, Idle, NotAsking
<1> QED BY <1>3, <1>4, <1>6, <1>7, <1>8, <1>9, <1>10, <1>11 DEF Starts

\* The record of the pause in progress is noted as s.
LEMMA NotedRight ==
  ASSUME Types, PauseInv, call.id \in DOMAIN mem.creds, NEW s \in Pause,
         TruePause([mem.creds[call.id] EXCEPT !.pause = s], call.id, slot)
  PROVE  /\ Right(Noted(s), slot, used) /\ call.id \in DOMAIN Noted(s).creds
         /\ Noted(s).creds[call.id].pause = s
<1>1. Noted(s).creds = [mem.creds EXCEPT ![call.id].pause = s]
  BY NotedTypes
<1>2. mem.creds[call.id] \in Record /\ Right(mem, slot, used)
  BY DataParts DEF Types, TypeOK, PauseInv
<1>3. /\ DOMAIN Noted(s).creds = DOMAIN mem.creds
      /\ Noted(s).creds[call.id] = [mem.creds[call.id] EXCEPT !.pause = s]
      /\ \A i \in DOMAIN mem.creds \ {call.id} : Noted(s).creds[i] = mem.creds[i]
  BY <1>1
<1>4. Noted(s).creds[call.id].pause = s
  BY <1>2, <1>3 DEF Record
<1>5. \A i \in DOMAIN mem.creds : TruePause(Noted(s).creds[i], i, slot)
  BY <1>2, <1>3 DEF Right
<1> QED BY <1>2, <1>3, <1>4, <1>5 DEF Right

LEMMA SchedulePause == ASSUME Types, PauseInv, Schedule PROVE PauseInv'
<1> DEFINE p == mem.creds[call.id].spot
<1>1. /\ slot \in [Place -> Enrolled \cup {None}] /\ call \in Call /\ slot[p] # None
      /\ Asks /\ call.op # "add" /\ disk = mem
      /\ call.id \in DOMAIN mem.creds /\ mem.creds[call.id].pause = "unknown"
      /\ \A i \in DOMAIN mem.creds : mem.creds[i].spot = p => i = call.id
      /\ Right(mem, slot, used)
  BY DEF Schedule, Types, TypeOK, CallShape, Asks, PauseInv, Asking, Current, At
<1>2. /\ slot' = [slot EXCEPT ![p].suspended = (call.op = "pause")]
      /\ call'.id = call.id /\ call'.op = call.op /\ call'.pc = "reply"
      /\ UNCHANGED <<mem, disk, used>>
  BY <1>1 DEF Schedule, Step, Call
<1>3. \A q \in Place : q # p => slot'[q] = slot[q]
  BY <1>1, <1>2
<1>4. Right(mem, slot', used)
  <2>1. ASSUME NEW i \in DOMAIN mem.creds PROVE TruePause(mem.creds[i], i, slot')
    <3>1. CASE i = call.id
      BY <1>1, <3>1 DEF TruePause
    <3>2. CASE i # call.id
      BY <1>1, <1>3, <3>2 DEF Right, TruePause, InSlot
    <3> QED BY <3>1, <3>2
  <2> QED BY <1>1, <2>1 DEF Right
<1>5. InSlot(slot', p, call.id) =>
        (call.op = "pause" => slot'[p].suspended) /\ (call.op = "resume" => ~slot'[p].suspended)
  <2> SUFFICES ASSUME p \in Place
               PROVE  (call.op = "pause" => slot'[p].suspended)
                        /\ (call.op = "resume" => ~slot'[p].suspended)
    BY DEF InSlot
  <2>1. slot[p] \in Enrolled
    BY <1>1
  <2>2. slot'[p] = [slot[p] EXCEPT !.suspended = (call.op = "pause")]
    BY <1>1, <1>2
  <2>3. slot'[p].suspended = (call.op = "pause")
    BY <2>1, <2>2 DEF Enrolled
  <2> QED BY <2>3
<1>6. Asking'
  BY <1>1, <1>2, <1>5 DEF Asking, Asks, IsAt
<1>7. ~Rolling'
  BY <1>2 DEF Rolling
<1> QED BY <1>1, <1>2, <1>4, <1>6, <1>7 DEF PauseInv

LEMMA GoesPause == ASSUME Types, PauseInv, Goes, ~Schedule PROVE PauseInv'
<1>0. /\ IsData(mem) /\ call \in Call /\ [Next]_vars /\ Right(mem, slot, used)
      /\ slot \in [Place -> Enrolled \cup {None}]
  BY DEF Types, TypeOK, Next, PauseInv
<1>1. Right(mem, slot', used')
  BY <1>0, Slots, RightStays
<1>2. ASSUME NotAsking(call)', mem' = mem PROVE PauseInv'
  BY <1>0, <1>1, <1>2, PauseStep, Unasked
<1>3. CASE MemberSaved
  BY <1>0, <1>2, <1>3 DEF MemberSaved, Step, Call, NotAsking
<1>4. ASSUME NEW h \in Hw, NEW i \in Id, Enrol(h, i) PROVE PauseInv'
  <2> DEFINE p == <<call.lock, call.kind, h>>
             r == [id |-> i, member |-> MemberOf(call.who), admin |-> call.admin,
                   suspended |-> FALSE]
  <2>1. /\ mem' = mem /\ used' = used \cup {i} /\ slot' = [slot EXCEPT ![p] = r]
        /\ call'.op = "add" /\ call'.id = i /\ call'.lock = call.lock
        /\ call'.kind = call.kind /\ call'.hw = h
    BY <1>0, <1>4 DEF Enrol, IsAt, Call
  <2>2. ~r.suspended
    OBVIOUS
  <2> HIDE DEF r
  <2>3. InSlot(slot', p, i) => ~slot'[p].suspended
    BY <1>0, <2>1, <2>2 DEF InSlot
  <2>4. Asking'
    BY <2>1, <2>3 DEF Asking, Asks, IsAt
  <2>5. ~Edits \/ Right(mem', slot', used')
    BY <1>1, <2>1
  <2> QED BY <1>0, <2>4, <2>5, PauseStep
<1>5. ASSUME NEW h \in {call.hw, NoSlot}, RecordEnrolment(h) PROVE PauseInv'
  <2> DEFINE p == <<call.lock, call.kind, h>>
             r == [member |-> MemberOf(call.who), spot |-> p,
                   policy |-> Confirmed(h), pause |-> "active", of |-> call.id]
  <2>1. Naming /\ call.id \in Id /\ h \in Hw \cup {NoSlot}
    BY <1>5 DEF RecordEnrolment, IsAt, Types, CallShape, Naming
  <2>2. r \in Record /\ r.spot = p /\ r.pause = "active"
    BY <2>1, ConfirmedTypes, NewRecordTypes
  <2>3. mem' = Added(mem, call.id, r) /\ UNCHANGED <<slot, used>>
    BY <1>5 DEF RecordEnrolment, Change
  <2> HIDE DEF r, p
  <2>4. call.id \in used
    BY <1>5 DEF RecordEnrolment, PauseInv, Asking
  <2>5. TruePause(r, call.id, slot)
    <3>1. CASE h = call.hw
      BY <1>5, <2>2, <3>1 DEF TruePause, RecordEnrolment, PauseInv, Asking, p
    <3>2. CASE h = NoSlot
      BY <3>2 DEF TruePause, Confirmed, r
    <3> QED BY <3>1, <3>2
  <2>6. Right(mem', slot', used')
    BY <1>0, <2>1, <2>2, <2>3, <2>4, <2>5, AddedRight
  <2>7. NotAsking(call)'
    BY <1>0, <1>5 DEF RecordEnrolment, IsAt, Call, NotAsking
  <2> QED BY <1>0, <2>6, <2>7, PauseStep, Unasked
<1>6. ASSUME NEW i \in Id, Register(i) PROVE PauseInv'
  <2> DEFINE p == <<call.lock, call.kind, call.hw>>
             of == IF slot[p] = None THEN None ELSE slot[p].id
             r == [member |-> MemberOf(call.who), spot |-> p, policy |-> None,
                   pause |-> "active", of |-> of]
  <2>1. /\ call.op = "register" /\ Naming /\ call.hw \in Hw
        /\ call.lock \in Lock /\ call.kind \in Kind
    BY <1>6 DEF Register, IsAt, Types, CallShape, Naming
  <2>2. of \in Id \cup {None}
    BY <2>1 DEF Types, TypeOK, Place, Enrolled
  <2>3. r \in Record /\ r.policy = None
    <3> HIDE DEF of
    <3> QED BY <2>1, <2>2, NewRecordTypes
  <2>4. mem' = Added(mem, i, r) /\ slot' = slot /\ used' = used \cup {i}
    BY <1>6 DEF Register, Change
  <2>5. NotAsking(call)'
    BY <1>0, <1>6, <2>1 DEF Register, Step, Call, NotAsking
  <2> HIDE DEF r, p
  <2>6. TruePause(r, i, slot)
    BY <2>3 DEF TruePause
  <2>7. Right(mem', slot', used')
    BY <1>0, <2>3, <2>4, <2>6, AddedRight
  <2> QED BY <1>0, <2>5, <2>7, PauseStep, Unasked
<1>7. ASSUME NEW i \in Id, Delete(i) PROVE PauseInv'
  BY <1>0, <1>2, <1>7 DEF Delete, Call, IsAt, NotAsking
<1>8. ASSUME NEW I, mem' = Forgotten(mem, I), UNCHANGED <<slot, used>>, NotAsking(call)'
      PROVE  PauseInv'
  BY <1>0, <1>8, ForgottenRight, PauseStep, Unasked
<1>9. CASE Forget
  <2>1. NotAsking(call)'
    BY <1>0, <1>9 DEF Forget, Call, IsAt, NotAsking
  <2> QED BY <1>8, <1>9, <2>1 DEF Forget, Change
<1>10. ASSUME NEW h, ForgetFinger(h) PROVE PauseInv'
  <2>1. NotAsking(call)'
    BY <1>0, <1>10 DEF ForgetFinger, Call, IsAt, NotAsking
  <2> QED BY <1>8, <1>10, <2>1 DEF ForgetFinger, Change
<1>11. CASE ListFingers
  BY <1>0, <1>2, <1>11 DEF ListFingers, Call, IsAt, NotAsking
<1>12. CASE ListAgain
  BY <1>0, <1>2, <1>12 DEF ListAgain, Call, IsAt, NotAsking
<1>13. CASE Cleared
  BY <1>2, <1>13 DEF Cleared, Idle, NotAsking
<1>14. ASSUME NEW h \in Hw, EraseFinger(h) PROVE PauseInv'
  BY <1>0, <1>2, <1>14 DEF EraseFinger, Call, IsAt, NotAsking
<1>15. CASE Intend
  <2>1. /\ mem' = Noted("unknown") /\ UNCHANGED <<slot, used>> /\ call.id \in DOMAIN mem.creds
        /\ call'.op = call.op /\ call'.id = call.id /\ call'.pc = "intent" /\ call.op # "add"
    BY <1>0, <1>15 DEF Intend, Change, Current, Step, Call
  <2>2. mem.creds[call.id] \in Record
    BY <1>0, <2>1, DataParts
  <2>3. TruePause([mem.creds[call.id] EXCEPT !.pause = "unknown"], call.id, slot)
    BY <2>2 DEF TruePause, Record
  <2>4. /\ Right(mem', slot', used') /\ call.id \in DOMAIN mem'.creds
        /\ mem'.creds[call.id].pause = "unknown"
    BY <2>1, <2>3, NotedRight DEF Pause
  <2>5. Asking'
    BY <2>1, <2>4 DEF Asking, Asks, IsAt
  <2> QED BY <1>0, <2>4, <2>5, PauseStep
<1>16. CASE IntentSaved
  <2>1. /\ mem' = mem /\ disk' = mem /\ call.op \in {"pause", "resume"} /\ call.pc = "intent"
        /\ call'.op = call.op /\ call'.id = call.id /\ call'.pc = "send"
    BY <1>0, <1>16 DEF IntentSaved, Step, Call, Types, CallShape
  <2>2. call.id \in DOMAIN mem.creds /\ mem.creds[call.id].pause = "unknown"
    BY <2>1 DEF PauseInv, Asking, Asks
  <2>3. Asking'
    BY <2>1, <2>2 DEF Asking, Asks, IsAt
  <2> QED BY <1>0, <1>1, <2>1, <2>3, PauseStep
<1>17. CASE Confirm
  <2> DEFINE s == IF call.op = "pause" THEN "paused" ELSE "active"
             r == mem.creds[call.id]
  <2>1. /\ mem' = Noted(s) /\ UNCHANGED <<slot, used>> /\ call.id \in DOMAIN mem.creds
        /\ Asks /\ call.pc = "reply" /\ call'.pc = "save"
    BY <1>0, <1>17 DEF Confirm, Change, Current, Step, Call, Asks
  <2>2. r \in Record
    BY <1>0, <2>1, DataParts
  <2>3. InSlot(slot, r.spot, call.id) =>
          (call.op = "pause" => slot[r.spot].suspended)
            /\ (call.op = "resume" => ~slot[r.spot].suspended)
    BY <2>1 DEF PauseInv, Asking
  <2>4. TruePause([r EXCEPT !.pause = s], call.id, slot)
    BY <2>1, <2>2, <2>3 DEF TruePause, Record, Asks
  <2>5. Right(mem', slot', used')
    BY <2>1, <2>4, NotedRight DEF Pause
  <2>6. NotAsking(call)'
    BY <2>1 DEF NotAsking
  <2> QED BY <1>0, <2>5, <2>6, PauseStep, Unasked
<1>18. CASE Saved
  <2>1. NotAsking(call)'
    BY <1>0, <1>18 DEF Saved, Then, Idle, Call, NotAsking
  <2> QED BY <1>2, <1>18, <2>1 DEF Saved
<1>19. CASE SaveFails
  <2>1. NotAsking(call)'
    BY <1>19 DEF SaveFails, Idle, NotAsking
  <2>2. mem' = mem \/ (Rolling /\ mem' = prev)
    BY <1>19 DEF SaveFails, Rolling, RollsBack, Types, CallShape, Naming
  <2>3. Right(mem', slot', used')
    BY <1>1, <1>19, <2>2 DEF PauseInv, SaveFails
  <2> QED BY <1>0, <2>1, <2>3, PauseStep, Unasked
<1>20. CASE Raises
  BY <1>2, <1>20 DEF Raises, Idle, NotAsking
<1> QED BY <1>3, <1>4, <1>5, <1>6, <1>7, <1>9, <1>10, <1>11, <1>12, <1>13, <1>14, <1>15,
           <1>16, <1>17, <1>18, <1>19, <1>20 DEF Goes

LEMMA WorldPause == ASSUME Types, PauseInv, World \/ UNCHANGED vars PROVE PauseInv'
<1>0. [Next]_vars
  BY DEF Next
<1>1. CASE Stop
  <2>1. NotAsking(call)' /\ mem' = disk /\ UNCHANGED <<slot, used>>
    BY <1>1 DEF Stop, Idle, NotAsking
  <2>2. ~Schedule
    BY <1>1 DEF Stop, Schedule, Step, Idle
  <2> QED BY <1>0, <2>1, <2>2, PauseStep, Unasked DEF PauseInv
<1>2. CASE ~Stop
  <2>1. UNCHANGED <<mem, call>> /\ disk' \in {disk, mem}
    BY <1>2 DEF World, OthersSave, EnrolAtLock, RemoveAtLock, FactoryReset, vars
  <2>2. ~Schedule
    BY <2>1 DEF Schedule, Step, Types, TypeOK, Call
  <2>3. Calm(slot, slot', used, used') /\ used \subseteq used'
    BY <1>0, <2>2, Slots
  <2>4. Right(mem', slot', used')
    BY <2>1, <2>3, RightStays DEF PauseInv
  <2>5. Asking'
    <3>1. IsAt("add", "reply") =>
            LET p == <<call.lock, call.kind, call.hw>> IN
              InSlot(slot', p, call.id) => ~slot'[p].suspended
      BY <2>3 DEF PauseInv, Asking, Calm, InSlot
    <3>2. Asks /\ call.pc = "reply" =>
            LET p == mem.creds[call.id].spot IN
              InSlot(slot', p, call.id) => InSlot(slot, p, call.id) /\ slot'[p] = slot[p]
      BY <2>3 DEF PauseInv, Asking, Calm, InSlot, Right
    <3> QED BY <2>1, <2>3, <3>1, <3>2 DEF PauseInv, Asking, Asks, IsAt
  <2> QED BY <1>0, <2>2, <2>4, <2>5, PauseStep
<1> QED BY <1>1, <1>2

\* A record of an enrolment that says "paused", or "active", is right about the
\* credential as long as that is in its slot, and so is the file, whichever
\* saves fail, replies are lost and stops intervene (services.py:
\* _async_set_credential_paused, credential_store.py: async_set_credential_pause_state).
THEOREM CredentialPauseTrueHolds == Spec => []CredentialPauseTrue
<1>1. Init => Types /\ PauseInv
  <2>1. Init => PauseInv
    BY DEF Init, Idle, PauseInv, Right, NoData, Rolling, RollsBack, Asking, Asks, IsAt
  <2> QED BY <2>1, InitTypes
<1>2. Types /\ PauseInv /\ [Next]_vars => (Types /\ PauseInv)'
  BY NextTypes, StartsPause, GoesPause, SchedulePause, WorldPause DEF Next
<1>3. PauseInv => CredentialPauseTrue
  BY DEF PauseInv, CredentialPauseTrue, PausesIn, Right, TruePause, InSlot, Holds
<1> QED BY <1>1, <1>2, <1>3, PTL DEF Spec

(***************************************************************************)
(* Nothing is forgotten that is in its slot                                *)
(***************************************************************************)
\* What is in a slot under the id of a record with a policy belongs to the
\* member of that policy.
OwnedBy(r, s) ==
  r.policy # None /\ InSlot(s, r.spot, r.of) => s[r.spot].member = r.policy.member

Owned(d, s, U) ==
  \A i \in DOMAIN d.creds : LET r == d.creds[i] IN
    /\ r.of \in U \cup {None}
    /\ r.policy # None => r.spot \in Place
    /\ OwnedBy(r, s)

Filled(s, U) == \A p \in Place : s[p] # None => s[p].id \in U

\* The credentials that the records of a place are of are not there.
Left(p) == \A i \in At(mem, p) : ~InSlot(slot, p, mem.creds[i].of)

\* A lock that answers has done what it says: the new credential is the
\* member's, the record to be deleted is of nothing that is still in the slot,
\* and so are the fingerprints which the second list no longer has.
Answered ==
  /\ IsAt("add", "reply") =>
       LET p == <<call.lock, call.kind, call.hw>> IN
         call.id \in used /\ (InSlot(slot, p, call.id) => slot[p].member = MemberOf(call.who))
  /\ IsAt("delete", "reply") /\ call.reply /\ call.id \in DOMAIN mem.creds =>
       ~InSlot(slot, mem.creds[call.id].spot, mem.creds[call.id].of)
  /\ call.op = "clear" /\ call.pc \in {"forget", "save"} =>
       \A h \in call.slots : Left(<<call.lock, "finger", h>>)

GoneInv == /\ Filled(slot, used)
           /\ Owned(mem, slot, used) /\ Owned(disk, slot, used)
           /\ Rolling => Owned(prev, slot, used)
           /\ Answered

\* Whatever is in a slot was there, the same member's, or is new.
Tame(s, t, U, V) ==
  \A p \in Place : t[p] # None =>
    \/ s[p] # None /\ t[p].id = s[p].id /\ t[p].member = s[p].member
    \/ t[p].id \in V \ U

LEMMA TameSlots ==
  ASSUME Types, [Next]_vars PROVE Tame(slot, slot', used, used') /\ used \subseteq used'
<1>1. CASE Calm(slot, slot', used, used') /\ used \subseteq used'
  BY <1>1 DEF Calm, Tame
<1>2. CASE Schedule
  <2> DEFINE q == mem.creds[call.id].spot
  <2>1. /\ slot' = [slot EXCEPT ![q].suspended = (call.op = "pause")] /\ used' = used
        /\ slot \in [Place -> Enrolled \cup {None}] /\ slot[q] # None
    BY <1>2 DEF Schedule, Types, TypeOK
  <2>2. ASSUME NEW p \in Place
        PROVE  slot'[p] # None =>
                 slot[p] # None /\ slot'[p].id = slot[p].id /\ slot'[p].member = slot[p].member
    <3>1. CASE p = q
      <4>1. slot[p] \in Enrolled /\ slot'[p] = [slot[p] EXCEPT !.suspended = (call.op = "pause")]
        BY <2>1, <3>1
      <4> QED BY <2>1, <3>1, <4>1 DEF Enrolled
    <3>2. CASE p # q
      BY <2>1, <3>2
    <3> QED BY <3>1, <3>2
  <2> QED BY <2>1, <2>2 DEF Tame
<1> QED BY <1>1, <1>2, Slots

\* An old credential in a slot was there before.
LEMMA WasThere ==
  ASSUME Types, [Next]_vars, NEW p, NEW i \in used \cup {None}, InSlot(slot', p, i)
  PROVE  InSlot(slot, p, i) /\ slot'[p].member = slot[p].member
<1>1. Tame(slot, slot', used, used') /\ slot' \in [Place -> Enrolled \cup {None}] /\ used' \subseteq Id
  BY TameSlots, NextTypes DEF Types, TypeOK
<1>2. p \in Place /\ slot'[p] # None /\ slot'[p].id = i /\ slot'[p] \in Enrolled
  BY <1>1 DEF InSlot
<1>3. i \in used
  BY <1>2, NoneAssumption DEF Enrolled
<1> QED BY <1>1, <1>2, <1>3 DEF Tame, InSlot

LEMMA OwnedStays ==
  ASSUME Types, [Next]_vars, NEW d, Owned(d, slot, used) PROVE Owned(d, slot', used')
<1>1. ASSUME NEW i \in DOMAIN d.creds
      PROVE  /\ d.creds[i].of \in used' \cup {None}
             /\ d.creds[i].policy # None => d.creds[i].spot \in Place
             /\ OwnedBy(d.creds[i], slot')
  <2>1. /\ d.creds[i].of \in used \cup {None} /\ OwnedBy(d.creds[i], slot)
        /\ d.creds[i].policy # None => d.creds[i].spot \in Place
    BY DEF Owned
  <2>2. used \subseteq used'
    BY TameSlots
  <2>3. OwnedBy(d.creds[i], slot')
    BY <2>1, WasThere DEF OwnedBy
  <2> QED BY <2>1, <2>2, <2>3
<1> QED BY <1>1 DEF Owned

LEMMA ForgottenOwned ==
  ASSUME NEW d, IsData(d), NEW I, NEW s, NEW U, Owned(d, s, U)
  PROVE  Owned(Forgotten(d, I), s, U)
<1> DEFINE e == Forgotten(d, I)
<1>1. e.creds = Without(d.creds, I)
  BY ForgottenTypes
<1>2. DOMAIN e.creds \subseteq DOMAIN d.creds /\ \A i \in DOMAIN e.creds : e.creds[i] = d.creds[i]
  BY <1>1 DEF Without
<1> HIDE DEF e
<1> QED BY <1>2 DEF Owned, e

LEMMA AddedOwned ==
  ASSUME NEW d, IsData(d), NEW i \in Id, NEW r \in Record, NEW s, NEW U, Owned(d, s, U),
         r.of \in U \cup {None}, r.policy # None => r.spot \in Place, OwnedBy(r, s)
  PROVE  Owned(Added(d, i, r), s, U)
<1> DEFINE e == Added(d, i, r)
<1>1. e.creds = With(Without(d.creds, At(d, r.spot)), i, r)
  BY AddedTypes
<1>2. \A j \in DOMAIN e.creds : (j \in DOMAIN d.creds /\ e.creds[j] = d.creds[j]) \/ e.creds[j] = r
  BY <1>1 DEF With, Without
<1> HIDE DEF e
<1>3. ASSUME NEW j \in DOMAIN e.creds
      PROVE  /\ e.creds[j].of \in U \cup {None}
             /\ e.creds[j].policy # None => e.creds[j].spot \in Place
             /\ OwnedBy(e.creds[j], s)
  BY <1>2 DEF Owned
<1> QED BY <1>3 DEF Owned, e

LEMMA NotedOwned ==
  ASSUME Types, Owned(mem, slot, used), call.id \in DOMAIN mem.creds, NEW p \in Pause
  PROVE  Owned(Noted(p), slot, used)
<1>1. Noted(p).creds = [mem.creds EXCEPT ![call.id].pause = p]
  BY NotedTypes
<1>2. ASSUME NEW i \in DOMAIN mem.creds
      PROVE  /\ Noted(p).creds[i].of = mem.creds[i].of
             /\ Noted(p).creds[i].policy = mem.creds[i].policy
             /\ Noted(p).creds[i].spot = mem.creds[i].spot
  <2>1. mem.creds[i] \in Record
    BY DataParts DEF Types, TypeOK
  <2> QED BY <1>1, <2>1 DEF Record
<1>3. DOMAIN Noted(p).creds = DOMAIN mem.creds
  BY <1>1
<1> QED BY <1>2, <1>3 DEF Owned, OwnedBy

\* The records change by an addition, which two actions make, or they go, get
\* another pause state, or come from a copy.
Recalls == mem' \in {mem, disk} \/ (Rolling /\ mem' = prev)
Adding  == \/ \E h \in {call.hw, NoSlot} : RecordEnrolment(h)
           \/ \E i \in Id : Register(i)

LEMMA RecordsChange ==
  ASSUME Types, [Next]_vars
  PROVE  Recalls \/ mem'.creds = mem.creds \/ Drops \/ Notes \/ Adding
<1>1. ASSUME NEW c, c.who \in Name, Number(c) PROVE mem' = mem \/ mem'.creds = mem.creds
  <2>1. CASE ~Known(c.who)
    <3>1. PICK m \in NextMemberId(mem) : mem' = [mem EXCEPT !.members = With(@, m, c.who)]
      BY <1>1, <2>1 DEF Number, Change
    <3>2. m \in Member
      BY DEF NextMemberId, Least
    <3> QED BY <1>1, <3>1, <3>2, WithMember DEF Types, TypeOK
  <2> QED BY <1>1, <2>1 DEF Number
<1>2. ASSUME NEW l \in Lock, NEW k \in Kind, NEW n \in Name, NEW a \in BOOLEAN,
             AddCredential(l, k, n, a)
      PROVE  mem' = mem \/ mem'.creds = mem.creds
  <2> DEFINE c == [Idle EXCEPT !.op = "add", !.lock = l, !.kind = k, !.who = n, !.admin = a]
  <2>1. c.who = n /\ Number(c)
    BY <1>2 DEF AddCredential, Idle
  <2> HIDE DEF c
  <2> QED BY <1>1, <2>1
<1>3. ASSUME NEW q \in Place, NEW n \in Name, RegisterCredential(q, n)
      PROVE  mem' = mem \/ mem'.creds = mem.creds
  <2> DEFINE c == [Idle EXCEPT !.op = "register", !.lock = q[1], !.kind = q[2],
                               !.hw = q[3], !.who = n]
  <2>1. c.who = n /\ Number(c)
    BY <1>3 DEF RegisterCredential, Idle
  <2> HIDE DEF c
  <2> QED BY <1>1, <2>1
<1>4. CASE Starts
  <2>1. CASE \/ \E i \in Id : DeleteOne(i)
             \/ \E l \in Lock, n \in Name, K \in {Kind} \cup {{k} : k \in Kind} : DeleteMember(l, n, K)
             \/ \E l \in Lock : ClearFingerprints(l)
             \/ \E i \in Id, o \in {"pause", "resume"} : SetPaused(o, i)
    BY <2>1 DEF DeleteOne, DeleteMember, ClearFingerprints, SetPaused, Recalls
  <2>2. CASE \/ \E l \in Lock \cup {None} : ClearCredentials(l)
             \/ \E l \in Lock : ReportFactoryReset(l)
    BY <2>2 DEF ClearCredentials, ReportFactoryReset, Change, Drops
  <2> QED BY <1>2, <1>3, <1>4, <2>1, <2>2 DEF Starts, Recalls
<1>5. CASE Goes
  <2>1. CASE SaveFails
    BY <2>1 DEF SaveFails, Rolling, RollsBack, Types, CallShape, Naming, Recalls
  <2>2. CASE Forget \/ \E h \in Hw : ForgetFinger(h)
    BY <2>2 DEF Forget, ForgetFinger, Change, Drops
  <2>3. CASE Intend \/ Confirm
    BY <2>3 DEF Intend, Confirm, Current, Change, Pause, Notes
  <2>4. CASE \/ MemberSaved \/ ListFingers \/ ListAgain \/ Cleared \/ IntentSaved \/ Schedule
             \/ Saved \/ Raises \/ (\E h \in Hw, i \in Id : Enrol(h, i))
             \/ (\E i \in Id : Delete(i)) \/ (\E h \in Hw : EraseFinger(h))
    BY <2>4 DEF MemberSaved, ListFingers, ListAgain, Cleared, IntentSaved, Schedule, Saved,
                Raises, Enrol, Delete, EraseFinger, Recalls
  <2> QED BY <1>5, <2>1, <2>2, <2>3, <2>4 DEF Goes, Adding
<1>6. CASE World \/ UNCHANGED vars
  BY <1>6 DEF World, OthersSave, EnrolAtLock, RemoveAtLock, FactoryReset, Stop, vars, Recalls
<1> QED BY <1>4, <1>5, <1>6 DEF Next

LEMMA RecordEnrolmentOwned ==
  ASSUME Types, GoneInv, NEW h \in {call.hw, NoSlot}, RecordEnrolment(h)
  PROVE  Owned(mem', slot, used)
<1> DEFINE q == <<call.lock, call.kind, h>>
           r == [member |-> MemberOf(call.who), spot |-> q,
                 policy |-> Confirmed(h), pause |-> "active", of |-> call.id]
<1>1. /\ Naming /\ call.id \in Id /\ h \in Hw \cup {NoSlot} /\ IsData(mem)
      /\ call.hw \in Hw /\ call.lock \in Lock /\ call.kind \in Kind
  BY DEF RecordEnrolment, IsAt, Types, TypeOK, CallShape, Naming
<1>2. r \in Record /\ r.spot = q /\ r.of = call.id /\ r.policy = Confirmed(h)
  BY <1>1, ConfirmedTypes, NewRecordTypes
<1>3. mem' = Added(mem, call.id, r)
  BY DEF RecordEnrolment, Change
<1> HIDE DEF r
<1>4. call.id \in used
  BY DEF RecordEnrolment, GoneInv, Answered
<1>5. OwnedBy(r, slot) /\ (r.policy # None => r.spot \in Place)
  <2>1. CASE h = NoSlot
    BY <1>2, <2>1 DEF OwnedBy, Confirmed
  <2>2. CASE h = call.hw
    <3>1. r.policy.member = MemberOf(call.who) /\ r.spot \in Place
      BY <1>1, <1>2, <2>2, NoSlotAssumption DEF Confirmed, Place
    <3>2. InSlot(slot, q, call.id) => slot[q].member = MemberOf(call.who)
      BY <2>2 DEF RecordEnrolment, GoneInv, Answered
    <3> QED BY <1>2, <3>1, <3>2 DEF OwnedBy
  <2> QED BY <2>1, <2>2
<1> HIDE DEF q
<1> QED BY <1>1, <1>2, <1>3, <1>4, <1>5, AddedOwned DEF GoneInv

LEMMA RegisterOwned ==
  ASSUME Types, GoneInv, NEW i \in Id, Register(i) PROVE Owned(mem', slot, used)
<1> DEFINE p == <<call.lock, call.kind, call.hw>>
           of == IF slot[p] = None THEN None ELSE slot[p].id
           r == [member |-> MemberOf(call.who), spot |-> p, policy |-> None,
                 pause |-> "active", of |-> of]
<1>1. /\ call.op = "register" /\ Naming /\ call.hw \in Hw /\ IsData(mem)
      /\ call.lock \in Lock /\ call.kind \in Kind
  BY DEF Register, IsAt, Types, TypeOK, CallShape, Naming
<1>2. of \in used \cup {None} /\ of \in Id \cup {None}
  BY <1>1 DEF GoneInv, Filled, Place, Types, TypeOK
<1>3. r \in Record /\ r.policy = None /\ r.of = of
  <2> HIDE DEF of
  <2> QED BY <1>1, <1>2, NewRecordTypes
<1>4. mem' = Added(mem, i, r)
  BY DEF Register, Change
<1> HIDE DEF r, p, of
<1> QED BY <1>1, <1>2, <1>3, <1>4, AddedOwned DEF OwnedBy, GoneInv

LEMMA NextOwned ==
  ASSUME Types, GoneInv, [Next]_vars
  PROVE  /\ Filled(slot', used')
         /\ Owned(mem', slot', used') /\ Owned(disk', slot', used')
         /\ Rolling' => Owned(prev', slot', used')
<1>1. /\ Owned(mem, slot', used') /\ Owned(disk, slot', used')
      /\ Rolling => Owned(prev, slot', used')
  BY OwnedStays DEF GoneInv
<1>2. Filled(slot', used')
  BY TameSlots DEF GoneInv, Filled, Tame
<1>3. /\ disk' \in {disk, mem}
      /\ Rolling' => (Rolling /\ prev' = prev) \/ prev' = mem
  BY NextData DEF Quiet, Writes, Restores, Edits, SameBack
<1>4. Owned(mem', slot', used')
  <2>1. CASE Recalls
    BY <1>1, <2>1 DEF Recalls
  <2>2. CASE mem'.creds = mem.creds
    BY <1>1, <2>2 DEF Owned
  <2>3. CASE Drops
    <3>1. Owned(NoData, slot', used')
      BY DEF Owned, NoData
    <3> QED BY <1>1, <2>3, <3>1, ForgottenOwned DEF Drops, Types, TypeOK
  <2>4. CASE Notes
    <3>1. Owned(mem', slot, used)
      BY <2>4, NotedOwned DEF Notes, GoneInv
    <3> QED BY <3>1, OwnedStays
  <2>5. CASE Adding
    <3>1. Owned(mem', slot, used)
      BY <2>5, RecordEnrolmentOwned, RegisterOwned DEF Adding
    <3> QED BY <3>1, OwnedStays
  <2> QED BY <2>1, <2>2, <2>3, <2>4, <2>5, RecordsChange
<1> QED BY <1>1, <1>2, <1>3, <1>4

\* A call about which Answered says nothing.
Unanswered(c) == /\ ~(c.op \in {"add", "delete"} /\ c.pc = "reply")
                 /\ ~(c.op = "clear" /\ c.pc \in {"forget", "save"})

Answers == \/ \E h \in Hw, i \in Id : Enrol(h, i)
           \/ \E i \in Id : Delete(i)
           \/ ListAgain
           \/ \E h \in Hw : ForgetFinger(h)
           \/ Saved /\ call.op = "clear"

LEMMA CallsAnswered ==
  ASSUME Types, [Next]_vars
  PROVE  Answers \/ Unanswered(call') \/ UNCHANGED <<call, mem>>
<1>0. call \in Call
  BY DEF Types, TypeOK
<1>1. CASE Starts
  <2>1. ASSUME NEW c \in Call, c.op \in {"add", "register"}, Number(c) PROVE Unanswered(call')
    <3>1. PICK q \in {"member", "connect", "register"} : call' = [c EXCEPT !.pc = q]
      BY <2>1 DEF Number
    <3>2. call'.op \in {"add", "register"} /\ call'.pc = q
      BY <2>1, <3>1 DEF Call
    <3> QED BY <3>2 DEF Unanswered
  <2>2. ASSUME NEW l \in Lock, NEW k \in Kind, NEW n \in Name, NEW a \in BOOLEAN,
               AddCredential(l, k, n, a)
        PROVE  Unanswered(call')
    <3> DEFINE c == [Idle EXCEPT !.op = "add", !.lock = l, !.kind = k, !.who = n, !.admin = a]
    <3>1. c \in Call /\ c.op = "add" /\ Number(c)
      BY <2>2, IdleCall DEF Idle, Call, Op, Pc, AddCredential
    <3> HIDE DEF c
    <3> QED BY <2>1, <3>1
  <2>3. ASSUME NEW q \in Place, NEW n \in Name, RegisterCredential(q, n) PROVE Unanswered(call')
    <3> DEFINE c == [Idle EXCEPT !.op = "register", !.lock = q[1], !.kind = q[2],
                                 !.hw = q[3], !.who = n]
    <3>1. q[1] \in Lock /\ q[2] \in Kind /\ q[3] \in Hw
      BY DEF Place
    <3>2. c \in Call /\ c.op = "register" /\ Number(c)
      BY <2>3, <3>1, IdleCall DEF Idle, Call, Op, Pc, RegisterCredential
    <3> HIDE DEF c
    <3> QED BY <2>1, <3>2
  <2>4. ASSUME NEW i \in Id, DeleteOne(i) PROVE Unanswered(call')
    BY <2>4 DEF DeleteOne, Begin, Idle, Unanswered
  <2>5. ASSUME NEW l \in Lock, NEW n \in Name, NEW K, DeleteMember(l, n, K)
        PROVE  Unanswered(call')
    BY <2>5 DEF DeleteMember, Begin, Idle, Unanswered
  <2>6. ASSUME NEW l \in Lock, ClearFingerprints(l) PROVE Unanswered(call')
    BY <2>6 DEF ClearFingerprints, Begin, Idle, Unanswered
  <2>7. ASSUME NEW i \in Id, NEW o \in {"pause", "resume"}, SetPaused(o, i)
        PROVE  Unanswered(call')
    BY <2>7 DEF SetPaused, Begin, Idle, Unanswered
  <2>8. ASSUME NEW l \in Lock \cup {None}, ClearCredentials(l) PROVE Unanswered(call')
    BY <2>8 DEF ClearCredentials, Begin, Idle, Unanswered
  <2>9. ASSUME NEW l \in Lock, ReportFactoryReset(l) PROVE Unanswered(call')
    BY <2>9 DEF ReportFactoryReset, Begin, Idle, Unanswered
  <2> QED BY <1>1, <2>2, <2>3, <2>4, <2>5, <2>6, <2>7, <2>8, <2>9 DEF Starts
<1>2. CASE Goes /\ ~Answers
  <2>1. CASE Cleared \/ SaveFails \/ Raises
    BY <2>1 DEF Cleared, SaveFails, Raises, Idle, Unanswered
  <2>2. CASE MemberSaved
    BY <1>0, <2>2 DEF MemberSaved, Step, Call, Unanswered
  <2>3. CASE \E h \in {call.hw, NoSlot} : RecordEnrolment(h)
    BY <1>0, <2>3 DEF RecordEnrolment, IsAt, Call, Unanswered
  <2>4. CASE \E i \in Id : Register(i)
    BY <1>0, <2>4 DEF Register, IsAt, Step, Call, Unanswered
  <2>5. CASE Forget
    BY <1>0, <2>5 DEF Forget, IsAt, Call, Unanswered
  <2>6. CASE ListFingers \/ \E h \in Hw : EraseFinger(h)
    BY <1>0, <2>6 DEF ListFingers, EraseFinger, IsAt, Call, Unanswered
  <2>7. CASE Intend \/ IntentSaved \/ Confirm
    BY <1>0, <2>7 DEF Intend, IntentSaved, Confirm, Step, Call, Unanswered, Types, CallShape
  <2>8. CASE Schedule
    <3>1. call.op \in {"pause", "resume"} /\ call'.op = call.op
      BY <1>0, <2>8 DEF Schedule, Step, Call, Types, CallShape
    <3> QED BY <3>1 DEF Unanswered
  <2>9. CASE Saved
    <3>1. call.op # "clear"
      BY <1>2, <2>9 DEF Answers
    <3> QED BY <1>0, <2>9, <3>1 DEF Saved, Then, Idle, Call, Unanswered
  <2> QED BY <1>2, <2>1, <2>2, <2>3, <2>4, <2>5, <2>6, <2>7, <2>8, <2>9 DEF Goes, Answers
<1>3. CASE World \/ UNCHANGED vars
  BY <1>3 DEF World, OthersSave, EnrolAtLock, RemoveAtLock, FactoryReset, Stop, vars, Idle, Unanswered
<1> QED BY <1>1, <1>2, <1>3 DEF Next

\* Nothing old comes back to a place that it had left.
LEMMA LeftStays ==
  ASSUME Types, GoneInv, [Next]_vars, mem' = mem, NEW p, Left(p) PROVE Left(p)'
<1>1. ASSUME NEW i \in At(mem, p) PROVE ~InSlot(slot', p, mem.creds[i].of)
  <2>1. mem.creds[i].of \in used \cup {None} /\ ~InSlot(slot, p, mem.creds[i].of)
    BY DEF GoneInv, Owned, At, Left
  <2> QED BY <2>1, WasThere
<1> QED BY <1>1 DEF Left, At

LEMMA NextAnswered ==
  ASSUME ~CutShort, Types, GoneInv, [Next]_vars PROVE Answered'
<1>0. call \in Call /\ slot \in [Place -> Enrolled \cup {None}] /\ IsData(mem)
  BY DEF Types, TypeOK
<1>1. CASE Unanswered(call')
  BY <1>1 DEF Unanswered, Answered, IsAt
<1>2. CASE UNCHANGED <<call, mem>>
  <2>1. used \subseteq used'
    BY TameSlots
  <2>2. IsAt("add", "reply")' =>
          LET p == <<call.lock, call.kind, call.hw>> IN
            call.id \in used' /\ (InSlot(slot', p, call.id) => slot'[p].member = MemberOf(call.who))
    BY <1>2, <2>1, WasThere DEF GoneInv, Answered, IsAt
  <2>3. IsAt("delete", "reply")' /\ call.reply /\ call.id \in DOMAIN mem.creds =>
          ~InSlot(slot', mem.creds[call.id].spot, mem.creds[call.id].of)
    BY <1>2, WasThere DEF GoneInv, Owned, Answered, IsAt
  <2>4. call.op = "clear" /\ call.pc \in {"forget", "save"} =>
          \A h \in call.slots : Left(<<call.lock, "finger", h>>)'
    BY <1>2, LeftStays DEF GoneInv, Answered
  <2>5. \A n : MemberOf(n)' = MemberOf(n)
    BY <1>2 DEF MemberOf
  <2> QED BY <1>2, <2>2, <2>3, <2>4, <2>5 DEF Answered, Left
<1>3. ASSUME NEW h \in Hw, NEW i \in Id, Enrol(h, i) PROVE Answered'
  <2> DEFINE p == <<call.lock, call.kind, h>>
             c == [id |-> i, member |-> MemberOf(call.who), admin |-> call.admin,
                   suspended |-> FALSE]
  <2>1. /\ mem' = mem /\ used' = used \cup {i} /\ slot' = [slot EXCEPT ![p] = c]
        /\ call'.op = "add" /\ call'.id = i /\ call'.lock = call.lock
        /\ call'.kind = call.kind /\ call'.hw = h /\ call'.who = call.who
    BY <1>0, <1>3 DEF Enrol, IsAt, Call
  <2>2. c.member = MemberOf(call.who)
    OBVIOUS
  <2> HIDE DEF c
  <2>3. InSlot(slot', p, i) => slot'[p].member = MemberOf(call.who)
    BY <1>0, <2>1, <2>2 DEF InSlot
  <2>4. MemberOf(call.who)' = MemberOf(call.who)
    BY <2>1 DEF MemberOf
  <2> QED BY <2>1, <2>3, <2>4 DEF Answered, IsAt
<1>4. ASSUME NEW i \in Id, Delete(i) PROVE Answered'
  <2> DEFINE r == mem.creds[i]
  <2>1. PICK ok \in BOOLEAN : /\ Erases(r.spot, r.policy.member, ok)
                              /\ call' = [call EXCEPT !.pc = "reply", !.id = i, !.reply = ok]
    BY <1>4 DEF Delete
  <2>2. /\ call.op = "delete" /\ call'.op = "delete" /\ call'.id = i
        /\ call'.reply = ok /\ mem' = mem /\ Editable(r)
    BY <1>0, <1>4, <2>1 DEF Delete, IsAt, Call
  <2>3. ASSUME i \in DOMAIN mem.creds, ok PROVE ~InSlot(slot', r.spot, r.of)
    <3>1. r.spot \in Place /\ OwnedBy(r, slot) /\ r.policy # None
      BY <2>2, <2>3 DEF GoneInv, Owned, Editable
    <3>2. CASE slot' = [slot EXCEPT ![r.spot] = None]
      BY <1>0, <3>1, <3>2 DEF InSlot
    <3>3. CASE slot' = slot /\ ~(slot[r.spot] # None /\ slot[r.spot].member = r.policy.member)
      BY <3>1, <3>3 DEF InSlot, OwnedBy
    <3> QED BY <2>1, <2>3, <3>2, <3>3 DEF Erases
  <2> QED BY <2>2, <2>3 DEF Answered, IsAt
<1>5. CASE ListAgain
  <2>1. /\ call.op = "clear" /\ call'.op = "clear" /\ call'.lock = call.lock
        /\ call'.slots = call.tried \ Fingers(call.lock)
        /\ UNCHANGED <<mem, slot>> /\ call.tried \subseteq Hw
    BY <1>0, <1>5 DEF ListAgain, Lists, IsAt, Call
  <2>2. ASSUME NEW h \in call'.slots PROVE Left(<<call.lock, "finger", h>>)'
    <3>1. slot[<<call.lock, "finger", h>>] = None
      BY <2>1 DEF Fingers
    <3> QED BY <2>1, <3>1 DEF Left, InSlot
  <2> QED BY <2>1, <2>2 DEF Answered, IsAt
<1>6. ASSUME NEW h \in Hw, ForgetFinger(h) PROVE Answered'
  <2> DEFINE I == At(mem, <<call.lock, "finger", h>>)
  <2>1. /\ call.op = "clear" /\ call.pc = "forget" /\ call'.op = "clear"
        /\ call'.lock = call.lock /\ call'.slots \subseteq call.slots
        /\ mem' = Forgotten(mem, I) /\ slot' = slot
    BY <1>0, <1>6 DEF ForgetFinger, Change, IsAt, Call
  <2> HIDE DEF I
  <2>2. /\ DOMAIN mem'.creds \subseteq DOMAIN mem.creds
        /\ \A i \in DOMAIN mem'.creds : mem'.creds[i] = mem.creds[i]
    <3>1. mem'.creds = Without(mem.creds, I)
      BY <1>0, <2>1, ForgottenTypes
    <3> QED BY <3>1 DEF Without
  <2>3. \A p : Left(p) => Left(p)'
    BY <2>1, <2>2 DEF Left, At
  <2> QED BY <2>1, <2>3 DEF Answered, GoneInv, IsAt
<1>7. CASE Saved /\ call.op = "clear"
  <2>1. /\ call.pc = "save" /\ call'.op = "clear" /\ call'.lock = call.lock
        /\ call'.slots = call.slots /\ UNCHANGED <<mem, slot>>
    BY <1>0, <1>7 DEF Saved, Then, Call
  <2>2. \A p : Left(p) => Left(p)'
    BY <2>1 DEF Left
  <2> QED BY <1>7, <2>1, <2>2 DEF Answered, GoneInv, IsAt
<1> QED BY <1>1, <1>2, <1>3, <1>4, <1>5, <1>6, <1>7, CallsAnswered DEF Answers

\* Only two steps of these calls forget a record.
LEMMA ForgettingSteps ==
  ASSUME Types, [Next]_vars, call.op \in {"delete", "clear"}, stops' = stops
  PROVE  mem' = mem \/ Forget \/ \E h \in Hw : ForgetFinger(h)
<1>1. ~Starts
  <2>1. Starts => call = Idle
    BY DEF Starts, AddCredential, RegisterCredential, DeleteOne, DeleteMember,
           ClearFingerprints, ClearCredentials, ReportFactoryReset, SetPaused, Begin
  <2> QED BY <2>1 DEF Idle
<1>2. CASE Goes /\ ~Forget /\ ~\E h \in Hw : ForgetFinger(h)
  BY <1>2 DEF Goes, MemberSaved, Enrol, RecordEnrolment, Register, Delete, ListFingers, EraseFinger,
         ListAgain, Cleared, Intend, IntentSaved, Schedule, Confirm, Saved, SaveFails, Raises,
         RollsBack, IsAt, Types, CallShape
<1>3. CASE World \/ UNCHANGED vars
  <2>1. ~Stop
    BY BoundAssumption DEF Stop, Types, TypeOK
  <2> QED BY <1>3, <2>1 DEF World, OthersSave, EnrolAtLock, RemoveAtLock, FactoryReset, vars
<1> QED BY <1>1, <1>2, <1>3 DEF Next

\* A deletion, or a clearance of fingerprints, forgets no credential that is
\* still in its slot, provided that a list of fingerprints whose summary frame
\* has come is complete (services.py: _async_delete_credential,
\* _async_clear_fingerprints).
THEOREM GoneBeforeForgottenHolds ==
  ASSUME ~CutShort PROVE Spec => GoneBeforeForgotten
<1> DEFINE A == call.op \in {"delete", "clear"} /\ stops' = stops =>
                  \A i \in DOMAIN mem.creds \ DOMAIN mem'.creds :
                    ~Holds(mem.creds[i].spot, mem.creds[i].of)
<1>1. Init => Types /\ GoneInv
  <2>1. Init => GoneInv
    BY DEF Init, Idle, GoneInv, Filled, Owned, NoData, Rolling, RollsBack, Answered, IsAt
  <2> QED BY <2>1, InitTypes
<1>2. Types /\ GoneInv /\ [Next]_vars => (Types /\ GoneInv)'
  BY NextTypes, NextOwned, NextAnswered DEF GoneInv
<1>3. Types /\ GoneInv /\ [Next]_vars => A
  <2> SUFFICES ASSUME Types, GoneInv, [Next]_vars, call.op \in {"delete", "clear"}, stops' = stops,
                      NEW i \in DOMAIN mem.creds \ DOMAIN mem'.creds
               PROVE  ~Holds(mem.creds[i].spot, mem.creds[i].of)
    OBVIOUS
  <2>1. IsData(mem) /\ mem' # mem
    BY DEF Types, TypeOK
  <2>2. CASE Forget
    <3>1. i = call.id
      BY <2>1, <2>2, ForgottenDomain DEF Forget, Change
    <3> QED BY <2>2, <3>1 DEF Forget, GoneInv, Answered, InSlot, Holds
  <2>3. ASSUME NEW h \in Hw, ForgetFinger(h) PROVE ~Holds(mem.creds[i].spot, mem.creds[i].of)
    <3> DEFINE p == <<call.lock, "finger", h>>
    <3>1. i \in At(mem, p) /\ Left(p)
      BY <2>1, <2>3, ForgottenDomain DEF ForgetFinger, Change, GoneInv, Answered, IsAt
    <3> QED BY <3>1 DEF Left, At, InSlot, Holds
  <2> QED BY <2>1, <2>2, <2>3, ForgettingSteps
<1> QED BY <1>1, <1>2, <1>3, PTL DEF Spec, GoneBeforeForgotten
=============================================================================
