---------------------------- MODULE UnlockReports ----------------------------
(***************************************************************************)
(* What a coordinator makes of the reports of its lock about unlocks       *)
(* (_process_dp_reports in coordinator.py) and of the unlock commands it   *)
(* sends itself (async_unlock, unlock_attribution.py).                     *)
(*                                                                         *)
(* The lock reports an unlock twice: the motor datapoint goes on and off,  *)
(* which is pushed while a session is open and else seen in a status       *)
(* snapshot, and an event record with the lock's own time stamp, which it  *)
(* keeps and repeats until it is acknowledged.  A report is processed      *)
(* without an await, so that each one is an action here.  Records are held *)
(* by the lock and arrive in any order; motor pushes arrive in order and   *)
(* are lost when the link drops.  Clocks are synchronised and read the     *)
(* same; a tick stands for some seconds.  Battery, alarm and other         *)
(* datapoints, labels and names are left out.                              *)
(***************************************************************************)
EXTENDS Naturals, Sequences

CONSTANTS
  Unlock,       \* physical unlocks
  Command,      \* unlock commands written; a retry is a command of its own
  User,         \* credential slots: datapoint and user id of a record
  Bluetooth,    \* datapoint 19 with its constant user id
  None,
  MatchWindow,  \* 5 s: a report belongs to a command sent at most so long ago
  PreMotor,     \* 1 s: a matched report may precede the motor by this
  MotorWindow,  \* 20 s: a record belongs to a motor run younger than this
  Expiry,       \* 30 s: a command is forgotten afterwards
  LiveAge,      \* 300 s: an older record is history
  MaxKeys,      \* 128: size of the duplicate filter
  MaxPush,      \* bound: motor values in flight
  MaxTime,      \* bound: last tick
  MaxRestarts   \* bound: restarts of Home Assistant

ASSUME WindowAssumption ==
  /\ {MatchWindow, PreMotor, MotorWindow, Expiry, LiveAge} \subseteq Nat
  /\ MaxKeys \in Nat \ {0} /\ MaxPush \in Nat
  /\ MaxTime \in Nat \ {0} /\ MaxRestarts \in Nat
ASSUME NameAssumption == Bluetooth \notin User /\ None \notin Command \cup Unlock

VARIABLES
  now,
  happened,   \* per unlock: when, and reported as what
  running,    \* the unlock whose motor run is in progress
  motorPush,  \* motor values on their way
  held,       \* records that the lock has not dropped yet
  link,       \* a session is open
  keys,       \* _recent_event_keys
  motorState, \* state["motor_state"]
  motorAt,    \* _motor_unlock_at
  claimed,    \* _motor_unlock_claimed
  requests,   \* UnlockAttribution._requests
  before,     \* _ha_report_before_motor
  last,       \* the record behind the last_unlock_* fields
  userKnown,  \* state["last_unlock_user"] is not None
  lastTs,     \* state["last_unlock_event_ts"]
  committed,  \* _last_unlock_committed_ts
  history,    \* records in recent_unlocks
  sending,    \* the command of the async_unlock in progress
  seeded,     \* seed_unlock_baseline was called since the start
  saved,      \* what the sensor restores after a restart
  restarts,
  sent,       \* ghost: all commands written
  cancelled,  \* ghost: those whose write failed before a report matched them
  attributed, \* ghost: reports attributed to commands
  burst,      \* ghost: live records since a motor run was last given its record
  announced,  \* ghost: bus events per unlock, from motor runs and from records
  confirmed   \* ghost: motor runs announced with the name of a command

lockVars == <<happened, running, held>>
fieldVars == <<last, userKnown, lastTs, committed, history, burst>>
motorVars == <<motorState, motorAt>>
bootVars  == <<seeded, saved, restarts>>
commandVars == <<sending, sent, cancelled>>
vars == <<now, happened, running, motorPush, held, link, keys, motorState,
          motorAt, claimed, requests, before, last, userKnown, lastTs, committed,
          history, burst, sending, seeded, saved, restarts, sent, cancelled, attributed,
          announced, confirmed>>

-----------------------------------------------------------------------------

Time    == 0..MaxTime
Source  == User \cup {Bluetooth}
Event   == [at : Time, who : Source]
Push    == [on : BOOLEAN, of : Unlock \cup {None}]
Request == [sent : Time, claimed : BOOLEAN]
Dict(S, T) == UNION {[D -> T] : D \in SUBSET S}
Never   == [i \in {} |-> None]
NoReport == [at |-> 0, cmd |-> None]
NothingSaved == [ts |-> 0, last |-> None, user |-> FALSE, history |-> {}]

ReportsTypeOK ==
  /\ now \in Time
  /\ happened \in Dict(Unlock, Event)
  /\ running \in Unlock \cup {None}
  /\ motorPush \in Seq(Push)
  /\ held \in SUBSET DOMAIN happened
  /\ link \in BOOLEAN
  /\ keys \in Seq(Source \X Time) /\ Len(keys) <= MaxKeys + 1
  /\ motorState \in {"unknown", "on", "off"}
  /\ motorAt \in Time \cup {None}
  /\ claimed \in BOOLEAN
  /\ requests \in Dict(Command, Request)
  /\ before \in [at : Time, cmd : Command \cup {None}]
  /\ last \in DOMAIN happened \cup {None}
  /\ userKnown \in BOOLEAN
  /\ lastTs \in Time /\ committed \in Time
  /\ history \in SUBSET DOMAIN happened /\ burst \in SUBSET DOMAIN happened
  /\ sending \in Command \cup {None}
  /\ seeded \in BOOLEAN
  /\ saved \in [ts : Time, last : Unlock \cup {None}, user : BOOLEAN,
                history : SUBSET Unlock]
  /\ restarts \in 0..MaxRestarts
  /\ sent \in SUBSET Command
  /\ cancelled \in SUBSET sent
  /\ attributed \in SUBSET (Unlock \X Command)
  /\ announced \in [Unlock -> [motor : 0..2, record : 0..2]]
  /\ confirmed \in SUBSET (Unlock \X Command)

Init ==
  /\ now = 1
  /\ happened = Never /\ running = None /\ motorPush = <<>> /\ held = {}
  /\ link = FALSE
  /\ keys = <<>> /\ motorState = "unknown" /\ motorAt = None /\ claimed = TRUE
  /\ requests = Never /\ before = NoReport
  /\ last = None /\ userKnown = FALSE /\ lastTs = 0
  /\ committed = 0 /\ history = {} /\ burst = {}
  /\ sending = None
  /\ seeded = TRUE /\ saved = NothingSaved /\ restarts = 0
  /\ sent = {} /\ cancelled = {} /\ attributed = {} /\ confirmed = {}
  /\ announced = [u \in Unlock |-> [motor |-> 0, record |-> 0]]

-----------------------------------------------------------------------------
(* Commands (UnlockAttribution).                                           *)

(* _expire.                                                                *)
Alive == [c \in {d \in DOMAIN requests : now - requests[d].sent <= Expiry}
            |-> requests[c]]

(* match: the only command in the window before the record, if it is not   *)
(* taken yet; None else.                                                   *)
Candidates(ts) ==
  {c \in DOMAIN Alive : Alive[c].sent <= ts /\ ts - Alive[c].sent <= MatchWindow}

(* Mutant: a command that has its report already is used again.            *)
MatchAgain(ts) ==
  IF \E c \in Command : Candidates(ts) = {c}
  THEN CHOOSE c \in Command : Candidates(ts) = {c}
  ELSE None

Match(ts) ==
  IF \E c \in Command : Candidates(ts) = {c} /\ ~Alive[c].claimed
  THEN CHOOSE c \in Command : Candidates(ts) = {c}
  ELSE None

(* async_unlock, connected: start is called right before the write.        *)
SendUnlock(c) ==
  /\ link /\ sending = None /\ c \notin sent
  /\ sending' = c
  /\ sent' = sent \cup {c}
  /\ requests' = [d \in DOMAIN Alive \cup {c} |->
                    IF d = c THEN [sent |-> now, claimed |-> FALSE] ELSE Alive[d]]
  /\ UNCHANGED <<now, lockVars, motorPush, link, keys, motorVars, claimed,
                 before, fieldVars, bootVars, cancelled, attributed, announced,
                 confirmed>>

UnlockSent ==
  /\ sending # None
  /\ sending' = None
  /\ UNCHANGED <<now, lockVars, motorPush, link, keys, motorVars, claimed,
                 requests, before, fieldVars, bootVars, sent, cancelled,
                 attributed, announced,
                 confirmed>>

(* Mutant: the request stays.                                              *)
KeepFailed ==
  /\ sending # None
  /\ sending' = None
  /\ cancelled' = IF sending \in DOMAIN requests /\ ~requests[sending].claimed
                  THEN cancelled \cup {sending} ELSE cancelled
  /\ UNCHANGED <<now, lockVars, motorPush, link, keys, motorVars, claimed,
                 requests, before, fieldVars, bootVars, sent, attributed,
                 announced, confirmed>>

(* The write raises: cancel forgets the request unless a report took it.   *)
UnlockFailed ==
  /\ sending # None
  /\ sending' = None
  /\ IF sending \in DOMAIN requests /\ ~requests[sending].claimed
     THEN /\ requests' = [d \in DOMAIN requests \ {sending} |-> requests[d]]
          /\ cancelled' = cancelled \cup {sending}
     ELSE UNCHANGED <<requests, cancelled>>
  /\ UNCHANGED <<now, lockVars, motorPush, link, keys, motorVars, claimed,
                 before, fieldVars, bootVars, sent, attributed, announced,
                 confirmed>>

-----------------------------------------------------------------------------
(* Reports.                                                                *)

Key(u) == <<happened[u].who, happened[u].at>>
Known(key) == \E i \in 1..Len(keys) : keys[i] = key

(* Mutants: no key is kept; no key is dropped.                             *)
NotRemembering(key) == keys
NotForgetting(key)  == IF Known(key) THEN keys ELSE Append(keys, key)

(* The duplicate filter keeps the MaxKeys youngest keys.                   *)
Remembering(key) ==
  LET grown == IF Known(key) THEN keys ELSE Append(keys, key) IN
  IF Len(grown) > MaxKeys THEN Tail(grown) ELSE grown

MotorRecent == motorAt # None /\ now - motorAt < MotorWindow
FreshMotor  == ~claimed /\ MotorRecent
Live(u)     == FreshMotor \/ now - happened[u].at <= LiveAge

(* Mutant: the record that arrives last owns the fields.                   *)
AnyOrder(u) == TRUE

Supersedes(u) == FreshMotor \/ happened[u].at >= lastTs

Capped(n) == IF n < 2 THEN n + 1 ELSE 2
Larger(a, b) == IF a > b THEN a ELSE b

(* A record with a known key and no fresh motor run.                       *)
Duplicate(u) ==
  /\ Known(Key(u)) /\ ~FreshMotor
  /\ UNCHANGED <<keys, claimed, requests, before, fieldVars, attributed,
                 announced>>

(* Any other record.                                                       *)
NewRecord(u) ==
  LET ts == happened[u].at
      c  == IF happened[u].who = Bluetooth THEN Match(ts) ELSE None IN
  /\ ~Known(Key(u)) \/ FreshMotor
  /\ keys' = Remembering(Key(u))
  /\ claimed' = (claimed \/ FreshMotor)
  /\ requests' = IF happened[u].who # Bluetooth THEN requests
                 ELSE [d \in DOMAIN Alive |->
                         IF d = c THEN [Alive[d] EXCEPT !.claimed = TRUE]
                         ELSE Alive[d]]
  /\ attributed' = IF c = None THEN attributed ELSE attributed \cup {<<u, c>>}
  /\ committed' = Larger(committed, ts)
  /\ history' = history \cup {u}
  /\ burst' = IF FreshMotor THEN {u} ELSE IF Live(u) THEN burst \cup {u} ELSE burst
  /\ IF Live(u) /\ Supersedes(u)
     THEN /\ last' = u /\ userKnown' = TRUE /\ lastTs' = ts
          /\ before' = IF c # None /\ ~FreshMotor
                       THEN [at |-> now, cmd |-> c] ELSE NoReport
     ELSE UNCHANGED <<last, userKnown, lastTs, before>>
  /\ announced' = IF Live(u) /\ ~MotorRecent
                  THEN [announced EXCEPT ![u].record = Capped(@)]
                  ELSE announced

(* The lock repeats a record until it has its acknowledgement.             *)
RecordArrives(u) ==
  /\ link /\ u \in held
  /\ Duplicate(u) \/ NewRecord(u)
  /\ held' \in {held, held \ {u}}
  /\ UNCHANGED <<now, happened, running, motorPush, link, motorVars, bootVars,
                 commandVars, confirmed>>

(* The run is taken for the matched report just before it, or its user is  *)
(* pending: the fields of the unlock before are cleared.                   *)
Confirmed == before.cmd # None /\ now - before.at <= PreMotor

(* Mutants: the report stays for the next run; the identity stays.         *)
ReportKept   == before
IdentityKept == last

ReportAfterRun == NoReport
LastAfterRun   == IF Confirmed THEN last ELSE None

MotorArrives ==
  LET on == Head(motorPush).on
      u  == Head(motorPush).of IN
  /\ motorPush # <<>>
  /\ motorPush' = Tail(motorPush)
  /\ motorState' = IF on THEN "on" ELSE "off"
  /\ IF on /\ motorState = "off"
     THEN /\ motorAt' = now
          /\ before' = ReportAfterRun
          /\ claimed' = Confirmed
          /\ last' = LastAfterRun
          /\ userKnown' = (userKnown /\ Confirmed)
          /\ confirmed' = IF Confirmed THEN confirmed \cup {<<u, before.cmd>>}
                          ELSE confirmed
          /\ announced' = [announced EXCEPT ![u].motor = Capped(@)]
     ELSE UNCHANGED <<motorAt, before, claimed, last, userKnown, announced,
                     confirmed>>
  /\ UNCHANGED <<now, lockVars, link, keys, requests, lastTs, committed,
                 history, burst, bootVars, commandVars, attributed>>

-----------------------------------------------------------------------------
(* The lock.                                                               *)

Pushed(on, u) ==
  IF link THEN /\ Len(motorPush) < MaxPush
               /\ motorPush' = Append(motorPush, [on |-> on, of |-> u])
          ELSE motorPush' = motorPush

(* Somebody unlocks: at the door, with a phone, or by a command.  The lock  *)
(* does not report which: a command and a phone look alike.                *)
DoorUnlocks(u, who) ==
  /\ u \notin DOMAIN happened /\ running = None
  /\ happened' = [v \in DOMAIN happened \cup {u} |->
                    IF v = u THEN [at |-> now, who |-> who]
                    ELSE happened[v]]
  /\ running' = u
  /\ held' = held \cup {u}
  /\ Pushed(TRUE, u)
  /\ UNCHANGED <<now, link, keys, motorVars, claimed, requests, before,
                 fieldVars, bootVars, commandVars, attributed, announced,
                 confirmed>>

MotorStops ==
  /\ running # None
  /\ running' = None
  /\ Pushed(FALSE, None)
  /\ UNCHANGED <<now, happened, held, link, keys, motorVars, claimed, requests,
                 before, fieldVars, bootVars, commandVars, attributed, announced,
                 confirmed>>

(* A connection reads the status, the motor's included.                    *)
Connect ==
  /\ ~link /\ link' = TRUE
  /\ motorPush' = <<[on |-> running # None, of |-> running]>>
  /\ UNCHANGED <<now, lockVars, keys, motorVars, claimed, requests, before,
                 fieldVars, bootVars, commandVars, attributed, announced,
                 confirmed>>

LinkDrops ==
  /\ link /\ link' = FALSE
  /\ motorPush' = <<>>
  /\ UNCHANGED <<now, lockVars, keys, motorVars, claimed, requests, before,
                 fieldVars, bootVars, commandVars, attributed, announced,
                 confirmed>>

-----------------------------------------------------------------------------
(* Restarts.  Home Assistant stores the state of the sensor when it stops. *)
(* Afterwards connections start while the entities are still being added.  *)

Restart ==
  /\ restarts < MaxRestarts
  /\ restarts' = restarts + 1
  /\ saved' = IF seeded THEN [ts |-> lastTs, last |-> last, user |-> userKnown,
                              history |-> history] ELSE saved
  /\ seeded' = FALSE
  /\ link' = FALSE /\ motorPush' = <<>>
  /\ keys' = <<>> /\ motorState' = "unknown" /\ motorAt' = None
  /\ claimed' = TRUE /\ requests' = Never /\ before' = NoReport
  /\ last' = None /\ userKnown' = FALSE /\ lastTs' = 0 /\ committed' = 0
  /\ history' = {} /\ burst' = {}
  /\ sending' = None
  /\ UNCHANGED <<now, lockVars, sent, cancelled, attributed, announced,
                 confirmed>>

(* seed_unlock_baseline with the attributes of the sensor; it keeps its key *)
(* only with the method and the user id that were restored.                *)
Baseline == <<happened[saved.last].who, saved.ts>>

(* Mutant: the time stamp alone is restored.                               *)
SeededTimeOnly == keys

SeededKeys ==
  IF saved.ts = 0 \/ saved.last = None \/ ~saved.user THEN keys
  ELSE IF Known(Baseline) THEN keys ELSE Append(keys, Baseline)

(* The sensors are added; what is not None already they leave as it is.    *)
(* The user id is not put back.                                            *)
Seed ==
  /\ ~seeded /\ seeded' = TRUE
  /\ IF saved.ts > committed
     THEN committed' = saved.ts /\ lastTs' = saved.ts
     ELSE UNCHANGED <<committed, lastTs>>
  /\ keys' = SeededKeys
  /\ last' = IF last = None THEN saved.last ELSE last
  /\ history' = IF history = {} THEN saved.history ELSE history
  /\ UNCHANGED <<now, lockVars, motorPush, link, motorVars, claimed, requests,
                 before, userKnown, burst, saved, restarts, commandVars,
                 attributed, announced, confirmed>>

Tick ==
  /\ now < MaxTime
  /\ now' = now + 1
  /\ UNCHANGED <<lockVars, motorPush, link, keys, motorVars, claimed, requests,
                 before, fieldVars, bootVars, commandVars, attributed, announced,
                 confirmed>>

-----------------------------------------------------------------------------

Next ==
  \/ \E c \in Command : SendUnlock(c)
  \/ UnlockSent \/ UnlockFailed
  \/ \E u \in Unlock : RecordArrives(u)
  \/ MotorArrives
  \/ \E u \in Unlock, who \in Source : DoorUnlocks(u, who)
  \/ MotorStops \/ Connect \/ LinkDrops
  \/ Restart \/ Seed \/ Tick

Spec == Init /\ [][Next]_vars

-----------------------------------------------------------------------------
(* Safety.                                                                 *)

(* However often the lock repeats a record, and whatever motor runs come   *)
(* between, it announces its unlock on the bus at most once, and a motor   *)
(* run at most once: the duplicate filter and the motor evidence together  *)
(* ("downstream dedup handles the repeats", event_collect.py).             *)
AnnouncedOnceEach ==
  \A u \in Unlock : announced[u].motor <= 1 /\ announced[u].record <= 1

(* Each command can claim one report (docs/integration.md), repeats,       *)
(* overlapping commands and expiry included.                               *)
OneReportPerCommand ==
  \A p, q \in attributed : p[2] = q[2] => p = q

(* A command whose write failed is never named as the initiator of a later *)
(* report (docs/integration.md: failed writes cannot attribute an event).  *)
FailedStaysOut == \A p \in attributed : p[2] \notin cancelled

(* A report that came before its motor run names one run only (_process_dp_ *)
(* reports: "Preserve it once").                                           *)
ConfirmedOnce == \A p, q \in confirmed : p[2] = q[2] => p = q

(* While a fresh motor run waits for its record, the fields do not show    *)
(* the unlocker before ("never retain a previous unlocker's identity"),    *)
(* but for one whom the sensor, added in the middle of the run, has put    *)
(* back after a restart.                                                   *)
NoStaleIdentity == FreshMotor => last \in {None, saved.last}

(* "A live burst after a proxy hiccup can deliver two unlocks in either    *)
(* order; the newest one owns the last unlock fields" (coordinator.py:376): *)
(* a record that is history never does, nor one that is older than another *)
(* live one, wherever repeats and motor runs come between.  Only a motor   *)
(* run begins anew: it clears the fields until it is given a record, which *)
(* owns them whatever its age (coordinator.py:381).  A restart begins anew *)
(* with what the sensor puts back.                                         *)
NewestOwnsFields ==
  restarts = 0 =>
    IF last = None THEN burst = {} \/ ~claimed
    ELSE last \in burst /\ \A u \in burst : happened[u].at <= happened[last].at

(* After a restart the record that the sensor showed before announces      *)
(* nothing, once the sensor is added (seed_unlock_baseline).               *)
SeededStaysQuiet ==
  [][\A u \in Unlock : seeded /\ announced'[u].record > announced[u].record
                         => u # saved.last]_vars

=============================================================================
