------------------------- MODULE UnlockReportsProofs -------------------------
(***************************************************************************)
(* Theorems about UnlockReports, for any unlocks, commands, windows and    *)
(* times.  In this order: a command names at most one report, and a failed *)
(* one none; a report names at most one motor run; no stale identity while *)
(* a run waits for its record; types; a motor run is announced once; so is *)
(* a record, as long as the duplicate filter has room (Roomy), and after a *)
(* restart the record that the sensor put back; the newest unlock owns the *)
(* fields.                                                                 *)
(***************************************************************************)
EXTENDS UnlockReports, SequenceTheorems, FiniteSetTheorems, TLAPS

RequestsTyped == \A c \in DOMAIN requests : requests[c] \in Request

RequestsSent ==
  /\ DOMAIN requests \subseteq sent
  /\ cancelled \subseteq sent
  /\ cancelled \cap DOMAIN requests = {}

AttributedClaimed ==
  \A p \in attributed :
    /\ p[2] \in sent
    /\ p[2] \notin cancelled
    /\ p[2] \in DOMAIN requests => requests[p[2]].claimed

CommandInv ==
  /\ now \in Time
  /\ sending \in Command \cup {None}
  /\ RequestsTyped
  /\ RequestsSent
  /\ AttributedClaimed
  /\ OneReportPerCommand

commandState == <<now, sending, requests, sent, cancelled, attributed>>

-----------------------------------------------------------------------------

(* _expire only drops requests.                                            *)
LEMMA AliveKept ==
  /\ DOMAIN Alive \subseteq DOMAIN requests
  /\ \A c \in DOMAIN Alive : Alive[c] = requests[c]
  BY DEF Alive

(* match returns None or an unclaimed request that is in the list.         *)
LEMMA MatchIsUnclaimed ==
  ASSUME NEW ts, Match(ts) # None
  PROVE  /\ Match(ts) \in DOMAIN Alive
         /\ ~Alive[Match(ts)].claimed
<1>1. \E c \in Command : Candidates(ts) = {c} /\ ~Alive[c].claimed
  BY DEF Match
<1>2. PICK d \in Command : Candidates(ts) = {d} /\ ~Alive[d].claimed
  BY <1>1
<1>3. Match(ts) = CHOOSE c \in Command : Candidates(ts) = {c}
  BY <1>1 DEF Match
<1>4. Candidates(ts) = {Match(ts)}
  BY <1>2, <1>3
<1>5. Match(ts) = d
  BY <1>2, <1>4
<1>. QED
  BY <1>2, <1>5 DEF Candidates

LEMMA CommandInvInit == Init => CommandInv
<1>. SUFFICES ASSUME Init PROVE CommandInv
  OBVIOUS
<1>1. now \in Time
  BY WindowAssumption DEF Init, Time
<1>. QED
  BY <1>1 DEF Init, CommandInv, RequestsTyped, RequestsSent, AttributedClaimed,
              OneReportPerCommand, Never

LEMMA SendUnlockStep ==
  ASSUME CommandInv, NEW c \in Command, SendUnlock(c)
  PROVE  CommandInv'
<1>. USE DEF CommandInv
<1>1. (now \in Time)' /\ (sending \in Command \cup {None})'
  <2>1. sending' = c /\ now' = now
    BY DEF SendUnlock
  <2>. QED
    BY <2>1
<1>2. /\ DOMAIN requests' = DOMAIN Alive \cup {c}
      /\ requests'[c] = [sent |-> now, claimed |-> FALSE]
      /\ \A d \in DOMAIN Alive \ {c} : requests'[d] = requests[d]
  BY AliveKept DEF SendUnlock
<1>3. sent' = sent \cup {c} /\ c \notin sent
  BY DEF SendUnlock
<1>4. UNCHANGED <<cancelled, attributed>>
  BY DEF SendUnlock
<1>5. RequestsTyped'
  <2>1. [sent |-> now, claimed |-> FALSE] \in Request
    BY DEF Request
  <2>2. \A d \in DOMAIN Alive \ {c} : requests'[d] \in Request
    BY <1>2, AliveKept DEF RequestsTyped
  <2>. QED
    BY <1>2, <2>1, <2>2 DEF RequestsTyped
<1>6. RequestsSent'
  BY <1>2, <1>3, <1>4, AliveKept DEF RequestsSent
<1>7. AttributedClaimed'
  BY <1>2, <1>3, <1>4, AliveKept DEF AttributedClaimed
<1>8. OneReportPerCommand'
  BY <1>4 DEF OneReportPerCommand
<1>. QED
  BY <1>1, <1>5, <1>6, <1>7, <1>8

LEMMA UnlockFailedStep ==
  ASSUME CommandInv, UnlockFailed
  PROVE  CommandInv'
<1>. USE DEF CommandInv
<1>1. (now \in Time)' /\ (sending \in Command \cup {None})'
  BY DEF UnlockFailed
<1>2. UNCHANGED <<sent, attributed>>
  BY DEF UnlockFailed
<1>3. CASE sending \in DOMAIN requests /\ ~requests[sending].claimed
  <2>1. /\ requests' = [d \in DOMAIN requests \ {sending} |-> requests[d]]
        /\ cancelled' = cancelled \cup {sending}
    BY <1>3 DEF UnlockFailed
  <2>2. \A p \in attributed : p[2] # sending
    BY <1>3 DEF AttributedClaimed
  <2>3. RequestsTyped'
    BY <2>1 DEF RequestsTyped
  <2>4. RequestsSent'
    BY <1>2, <1>3, <2>1 DEF RequestsSent
  <2>5. AttributedClaimed'
    BY <1>2, <2>1, <2>2 DEF AttributedClaimed
  <2>. QED
    BY <1>1, <1>2, <2>3, <2>4, <2>5 DEF OneReportPerCommand
<1>4. CASE ~(sending \in DOMAIN requests /\ ~requests[sending].claimed)
  <2>1. UNCHANGED <<requests, cancelled>>
    BY <1>4 DEF UnlockFailed
  <2>. QED
    BY <1>1, <1>2, <2>1
       DEF RequestsTyped, RequestsSent, AttributedClaimed, OneReportPerCommand
<1>. QED
  BY <1>3, <1>4

(* A record other than a duplicate: the command that it takes, if any, was *)
(* in the list and free, hence named by no report so far.                  *)
LEMMA NewRecordStep ==
  ASSUME CommandInv, NEW u \in Unlock, NewRecord(u),
         UNCHANGED <<now, sending, sent, cancelled>>
  PROVE  CommandInv'
<1>. USE DEF CommandInv
<1>. DEFINE ts == happened[u].at
            c  == IF happened[u].who = Bluetooth THEN Match(ts) ELSE None
<1>1. attributed' = IF c = None THEN attributed ELSE attributed \cup {<<u, c>>}
  BY DEF NewRecord
<1>2. requests' = IF happened[u].who # Bluetooth THEN requests
                  ELSE [d \in DOMAIN Alive |->
                          IF d = c THEN [Alive[d] EXCEPT !.claimed = TRUE]
                          ELSE Alive[d]]
  BY DEF NewRecord
<1>3. DOMAIN requests' \subseteq DOMAIN requests
  BY <1>2, AliveKept
<1>4. c # None => /\ c \in DOMAIN Alive
                  /\ ~Alive[c].claimed
                  /\ happened[u].who = Bluetooth
  BY MatchIsUnclaimed
<1>. HIDE DEF c, ts
<1>5. \A d \in DOMAIN requests' :
        /\ requests'[d] \in Request
        /\ requests[d].claimed => requests'[d].claimed
        /\ d = c /\ c # None => requests'[d].claimed
  <2>1. CASE happened[u].who # Bluetooth
    BY <1>2, <1>4, <2>1 DEF RequestsTyped
  <2>2. CASE happened[u].who = Bluetooth
    <3>1. SUFFICES ASSUME NEW d \in DOMAIN requests'
                   PROVE  /\ requests'[d] \in Request
                          /\ requests[d].claimed => requests'[d].claimed
                          /\ d = c /\ c # None => requests'[d].claimed
      OBVIOUS
    <3>2. d \in DOMAIN Alive /\ Alive[d] = requests[d] /\ requests[d] \in Request
      BY <1>2, <2>2, AliveKept DEF RequestsTyped
    <3>3. requests'[d] = IF d = c THEN [Alive[d] EXCEPT !.claimed = TRUE]
                         ELSE Alive[d]
      BY <1>2, <2>2, <3>2
    <3>. QED
      BY <3>2, <3>3 DEF Request
  <2>. QED
    BY <2>1, <2>2
<1>6. c # None => /\ c \in sent /\ c \notin cancelled
                  /\ \A p \in attributed : p[2] # c
  BY <1>4, AliveKept DEF RequestsSent, AttributedClaimed
<1>7. RequestsTyped'
  BY <1>5 DEF RequestsTyped
<1>8. RequestsSent'
  BY <1>3 DEF RequestsSent
<1>9. AttributedClaimed'
  <2>1. \A p \in attributed : p[2] \in DOMAIN requests' => requests'[p[2]].claimed
    BY <1>3, <1>5 DEF AttributedClaimed
  <2>. QED
    BY <1>1, <1>5, <1>6, <2>1 DEF AttributedClaimed
<1>10. OneReportPerCommand'
  BY <1>1, <1>6 DEF OneReportPerCommand
<1>. QED
  BY <1>7, <1>8, <1>9, <1>10

LEMMA CommandInvUnchanged ==
  ASSUME CommandInv, UNCHANGED commandState
  PROVE  CommandInv'
  BY DEF CommandInv, commandState, RequestsTyped, RequestsSent,
         AttributedClaimed, OneReportPerCommand

LEMMA RecordArrivesStep ==
  ASSUME CommandInv, NEW u \in Unlock, RecordArrives(u)
  PROVE  CommandInv'
<1>1. UNCHANGED <<now, sending, sent, cancelled>>
  BY DEF RecordArrives, commandVars
<1>2. CASE Duplicate(u)
  BY <1>1, <1>2, CommandInvUnchanged DEF Duplicate, commandState
<1>3. CASE NewRecord(u)
  BY <1>1, <1>3, NewRecordStep
<1>. QED
  BY <1>2, <1>3 DEF RecordArrives

LEMMA CommandInvStep == CommandInv /\ [Next]_vars => CommandInv'
<1>. SUFFICES ASSUME CommandInv, [Next]_vars PROVE CommandInv'
  OBVIOUS
<1>1. CASE \E c \in Command : SendUnlock(c)
  BY <1>1, SendUnlockStep
<1>2. CASE UnlockSent
  BY <1>2 DEF UnlockSent, CommandInv, RequestsTyped, RequestsSent,
              AttributedClaimed, OneReportPerCommand
<1>3. CASE UnlockFailed
  BY <1>3, UnlockFailedStep
<1>4. CASE \E u \in Unlock : RecordArrives(u)
  BY <1>4, RecordArrivesStep
<1>5. CASE MotorArrives
  BY <1>5, CommandInvUnchanged DEF MotorArrives, commandState, commandVars
<1>6. CASE \E u \in Unlock, who \in Source : DoorUnlocks(u, who)
  BY <1>6, CommandInvUnchanged DEF DoorUnlocks, commandState, commandVars
<1>7. CASE MotorStops \/ Connect \/ LinkDrops
  BY <1>7, CommandInvUnchanged
     DEF MotorStops, Connect, LinkDrops, commandState, commandVars
<1>8. CASE Restart
  BY <1>8 DEF Restart, CommandInv, RequestsTyped, RequestsSent,
              AttributedClaimed, OneReportPerCommand, Never
<1>9. CASE Seed
  BY <1>9, CommandInvUnchanged DEF Seed, commandState, commandVars
<1>10. CASE Tick
  <2>1. now' \in Time
    BY <1>10, WindowAssumption DEF Tick, CommandInv, Time
  <2>. QED
    BY <1>10, <2>1 DEF Tick, commandVars, CommandInv, RequestsTyped,
                       RequestsSent, AttributedClaimed, OneReportPerCommand
<1>11. CASE UNCHANGED vars
  BY <1>11, CommandInvUnchanged DEF vars, commandState
<1>. QED
  BY <1>1, <1>2, <1>3, <1>4, <1>5, <1>6, <1>7, <1>8, <1>9, <1>10, <1>11 DEF Next

LEMMA CommandInvHolds == Spec => []CommandInv
  BY CommandInvInit, CommandInvStep, PTL DEF Spec

-----------------------------------------------------------------------------

(* Each command is named as the initiator of one unlock at most, whatever  *)
(* repeats, overlaps, expires or restarts (async_unlock, match).           *)
THEOREM OneReportPerCommandHolds == Spec => []OneReportPerCommand
<1>1. CommandInv => OneReportPerCommand
  BY DEF CommandInv
<1>. QED
  BY <1>1, CommandInvHolds, PTL

(* A command whose write failed is never named (cancel).                   *)
THEOREM FailedStaysOutHolds == Spec => []FailedStaysOut
<1>1. CommandInv => FailedStaysOut
  BY DEF CommandInv, AttributedClaimed, FailedStaysOut
<1>. QED
  BY <1>1, CommandInvHolds, PTL

-----------------------------------------------------------------------------
(* What names a motor run was attributed before, and was not used yet.     *)

Named(c) == \E p \in attributed : p[2] = c

ConfirmInv ==
  /\ \A p \in confirmed : Named(p[2])
  /\ before.cmd # None =>
       /\ Named(before.cmd)
       /\ \A p \in confirmed : p[2] # before.cmd
  /\ ConfirmedOnce

LEMMA ConfirmInvInit == Init => ConfirmInv
  BY DEF Init, ConfirmInv, ConfirmedOnce, NoReport

LEMMA ConfirmInvUnchanged ==
  ASSUME ConfirmInv, UNCHANGED <<attributed, before, confirmed>>
  PROVE  ConfirmInv'
  BY DEF ConfirmInv, ConfirmedOnce, Named

LEMMA NewRecordConfirm ==
  ASSUME CommandInv, ConfirmInv, NEW u \in Unlock, NewRecord(u),
         UNCHANGED confirmed
  PROVE  ConfirmInv'
<1>. DEFINE ts == happened[u].at
            c  == IF happened[u].who = Bluetooth THEN Match(ts) ELSE None
<1>1. attributed' = IF c = None THEN attributed ELSE attributed \cup {<<u, c>>}
  BY DEF NewRecord
<1>2. \/ before' = before
      \/ before' = NoReport
      \/ c # None /\ before' = [at |-> now, cmd |-> c]
  BY DEF NewRecord
<1>3. c # None => ~Named(c)
  <2>1. c # None => c \in DOMAIN Alive /\ ~Alive[c].claimed
    BY MatchIsUnclaimed
  <2>. HIDE DEF c
  <2>. QED
    BY <2>1, AliveKept DEF CommandInv, AttributedClaimed, Named
<1>. HIDE DEF c, ts
<1>4. \A d : Named(d) => Named(d)'
  BY <1>1 DEF Named
<1>5. c # None => \E p \in attributed' : p[2] = c
  <2>1. c # None => <<u, c>> \in attributed'
    BY <1>1
  <2>2. <<u, c>>[2] = c
    OBVIOUS
  <2>. QED
    BY <2>1, <2>2, Zenon
<1>6. \A p \in confirmed' : Named(p[2])'
  BY <1>4 DEF ConfirmInv
<1>7. before'.cmd # None => /\ Named(before.cmd)'
                            /\ \A p \in confirmed' : p[2] # before'.cmd
  <2>1. CASE before' = before
    BY <1>4, <2>1 DEF ConfirmInv, Named
  <2>2. CASE before' = NoReport
    BY <2>2 DEF NoReport
  <2>3. CASE c # None /\ before' = [at |-> now, cmd |-> c]
    <3>1. before'.cmd = c /\ \A p \in confirmed : p[2] # c
      BY <1>3, <2>3 DEF ConfirmInv
    <3>. QED
      BY <1>5, <2>3, <3>1 DEF Named
  <2>. QED
    BY <1>2, <2>1, <2>2, <2>3
<1>. QED
  BY <1>6, <1>7 DEF ConfirmInv, ConfirmedOnce

(* A run uses the report up, so that the next run cannot name it again.    *)
LEMMA MotorConfirm ==
  ASSUME ConfirmInv, MotorArrives
  PROVE  ConfirmInv'
<1>. DEFINE u == Head(motorPush).of
<1>1. UNCHANGED attributed
  BY DEF MotorArrives
<1>2. CASE UNCHANGED <<before, confirmed>>
  BY <1>1, <1>2, ConfirmInvUnchanged
<1>3. CASE before' = NoReport /\ confirmed' = confirmed
  BY <1>1, <1>3 DEF ConfirmInv, ConfirmedOnce, Named, NoReport
<1>4. CASE /\ before' = NoReport /\ before.cmd # None
           /\ confirmed' = confirmed \cup {<<u, before.cmd>>}
  <2>1. before'.cmd = None
    BY <1>4 DEF NoReport
  <2>2. \A p \in confirmed' : Named(p[2])'
    BY <1>1, <1>4 DEF ConfirmInv, Named
  <2>3. ConfirmedOnce'
    BY <1>4 DEF ConfirmInv, ConfirmedOnce
  <2>. QED
    BY <2>1, <2>2, <2>3 DEF ConfirmInv
<1>. QED
  BY <1>2, <1>3, <1>4 DEF MotorArrives, Confirmed, ReportAfterRun

LEMMA ConfirmInvStep == CommandInv /\ ConfirmInv /\ [Next]_vars => ConfirmInv'
<1>. SUFFICES ASSUME CommandInv, ConfirmInv, [Next]_vars PROVE ConfirmInv'
  OBVIOUS
<1>1. CASE \E c \in Command : SendUnlock(c)
  BY <1>1, ConfirmInvUnchanged DEF SendUnlock
<1>2. CASE UnlockSent \/ UnlockFailed
  BY <1>2, ConfirmInvUnchanged DEF UnlockSent, UnlockFailed
<1>3. CASE \E u \in Unlock : RecordArrives(u)
  <2>1. PICK u \in Unlock : RecordArrives(u)
    BY <1>3
  <2>2. UNCHANGED confirmed
    BY <2>1 DEF RecordArrives
  <2>3. CASE Duplicate(u)
    BY <2>2, <2>3, ConfirmInvUnchanged DEF Duplicate
  <2>4. CASE NewRecord(u)
    BY <2>2, <2>4, NewRecordConfirm
  <2>. QED
    BY <2>1, <2>3, <2>4 DEF RecordArrives
<1>4. CASE MotorArrives
  BY <1>4, MotorConfirm
<1>5. CASE \E u \in Unlock, who \in Source : DoorUnlocks(u, who)
  BY <1>5, ConfirmInvUnchanged DEF DoorUnlocks
<1>6. CASE MotorStops \/ Connect \/ LinkDrops \/ Seed \/ Tick
  BY <1>6, ConfirmInvUnchanged DEF MotorStops, Connect, LinkDrops, Seed, Tick
<1>7. CASE Restart
  BY <1>7 DEF Restart, ConfirmInv, ConfirmedOnce, Named, NoReport
<1>8. CASE UNCHANGED vars
  BY <1>8, ConfirmInvUnchanged DEF vars
<1>. QED
  BY <1>1, <1>2, <1>3, <1>4, <1>5, <1>6, <1>7, <1>8 DEF Next

(* A report that came before its motor run names one run at most.          *)
THEOREM ConfirmedOnceHolds == Spec => []ConfirmedOnce
<1>1. ConfirmInv => ConfirmedOnce
  BY DEF ConfirmInv
<1>. QED
  BY <1>1, CommandInvHolds, ConfirmInvInit, ConfirmInvStep, PTL DEF Spec

-----------------------------------------------------------------------------
(* No stale identity.  A run is fresh only until a record is taken for it,  *)
(* and that is when the fields get a name again.                            *)

ClockTyped == now \in Time /\ motorAt \in Time \cup {None}

FreshInv == ClockTyped /\ NoStaleIdentity

LEMMA FreshUnchanged ==
  ASSUME FreshInv, UNCHANGED <<now, motorAt, claimed, last, saved>>
  PROVE  FreshInv'
BY DEF FreshInv, ClockTyped, NoStaleIdentity, FreshMotor, MotorRecent

LEMMA RecordFresh ==
  ASSUME FreshInv, NEW u \in Unlock, RecordArrives(u)
  PROVE  FreshInv'
<1>1. UNCHANGED <<now, motorAt, saved>>
  BY DEF RecordArrives, motorVars, bootVars
<1>2. CASE Duplicate(u)
  BY <1>1, <1>2, FreshUnchanged DEF Duplicate, fieldVars
<1>3. CASE NewRecord(u)
  <2>1. claimed' = (claimed \/ FreshMotor)
    BY <1>3 DEF NewRecord
  <2>2. ~FreshMotor'
    BY <1>1, <2>1 DEF FreshMotor, MotorRecent
  <2> QED BY <1>1, <2>2 DEF FreshInv, ClockTyped, NoStaleIdentity
<1> QED BY <1>2, <1>3 DEF RecordArrives

LEMMA MotorFresh == ASSUME FreshInv, MotorArrives PROVE FreshInv'
<1>1. UNCHANGED <<now, saved>>
  BY DEF MotorArrives, bootVars
<1>2. CASE UNCHANGED <<motorAt, claimed, last>>
  BY <1>1, <1>2, FreshUnchanged
<1>3. CASE motorAt' = now /\ claimed' = Confirmed /\ last' = LastAfterRun
  BY <1>1, <1>3 DEF LastAfterRun, FreshInv, ClockTyped, NoStaleIdentity, FreshMotor
<1> QED BY <1>2, <1>3 DEF MotorArrives

LEMMA TickFresh == ASSUME FreshInv, Tick PROVE FreshInv'
<1>1. /\ now' = now + 1 /\ now' \in Time
      /\ UNCHANGED <<motorAt, claimed, last, saved>>
  BY WindowAssumption DEF Tick, FreshInv, ClockTyped, Time, motorVars, fieldVars, bootVars
<1>2. FreshMotor' => FreshMotor
  BY <1>1, WindowAssumption DEF FreshMotor, MotorRecent, FreshInv, ClockTyped, Time
<1> QED BY <1>1, <1>2 DEF FreshInv, ClockTyped, NoStaleIdentity

LEMMA NextFresh == FreshInv /\ [Next]_vars => FreshInv'
<1> SUFFICES ASSUME FreshInv, [Next]_vars PROVE FreshInv'
  OBVIOUS
<1>1. ASSUME NEW u \in Unlock, RecordArrives(u) PROVE FreshInv'
  BY <1>1, RecordFresh
<1>2. CASE MotorArrives
  BY <1>2, MotorFresh
<1>3. CASE Tick
  BY <1>3, TickFresh
<1>4. CASE Restart
  BY <1>4 DEF Restart, FreshInv, ClockTyped, NoStaleIdentity, FreshMotor, MotorRecent
<1>5. CASE Seed
  <2>1. /\ UNCHANGED <<now, motorAt, claimed, saved>>
        /\ last' = IF last = None THEN saved.last ELSE last
    BY <1>5 DEF Seed, motorVars
  <2> QED BY <2>1 DEF FreshInv, ClockTyped, NoStaleIdentity, FreshMotor, MotorRecent
<1>6. ASSUME NEW c \in Command, SendUnlock(c) PROVE FreshInv'
  BY <1>6, FreshUnchanged DEF SendUnlock, motorVars, fieldVars, bootVars
<1>7. ASSUME NEW u \in Unlock, NEW who \in Source, DoorUnlocks(u, who) PROVE FreshInv'
  BY <1>7, FreshUnchanged DEF DoorUnlocks, motorVars, fieldVars, bootVars
<1>8. CASE UnlockSent \/ UnlockFailed \/ MotorStops \/ Connect \/ LinkDrops
  BY <1>8, FreshUnchanged
     DEF UnlockSent, UnlockFailed, MotorStops, Connect, LinkDrops, motorVars, fieldVars, bootVars
<1>9. CASE UNCHANGED vars
  BY <1>9, FreshUnchanged DEF vars
<1> QED BY <1>1, <1>2, <1>3, <1>4, <1>5, <1>6, <1>7, <1>8, <1>9 DEF Next

(* However runs, records, repeats and restarts interleave, a motor run that *)
(* waits for its record shows nobody, or whom a restart has put back        *)
(* (_process_dp_reports in coordinator.py, async_added_to_hass in           *)
(* sensor.py).                                                              *)
THEOREM NoStaleIdentityHolds == Spec => []NoStaleIdentity
<1>1. Init => FreshInv
  BY WindowAssumption DEF Init, FreshInv, ClockTyped, Time, NoStaleIdentity, FreshMotor, MotorRecent
<1>2. FreshInv => NoStaleIdentity
  BY DEF FreshInv
<1> QED BY <1>1, <1>2, NextFresh, PTL DEF Spec

-----------------------------------------------------------------------------
(* Types, with what the sequences and what the sensor saved are about.     *)

LEMMA DictMember ==
  ASSUME NEW S, NEW T, NEW D, D \subseteq S, NEW f \in [D -> T]
  PROVE  f \in Dict(S, T)
BY DEF Dict

LEMMA DictParts ==
  ASSUME NEW S, NEW T, NEW f \in Dict(S, T)
  PROVE  DOMAIN f \subseteq S /\ f \in [DOMAIN f -> T]
BY DEF Dict

(* A motor value that says "on" is about an unlock, the others are not.    *)
PushTypes ==
  /\ motorPush \in Seq(Push)
  /\ \A i \in 1..Len(motorPush) :
       motorPush[i].of \in IF motorPush[i].on THEN DOMAIN happened ELSE {None}

LockTypes ==
  /\ now \in Time
  /\ happened \in Dict(Unlock, Event)
  /\ running \in DOMAIN happened \cup {None}
  /\ held \in SUBSET DOMAIN happened
  /\ link \in BOOLEAN
  /\ PushTypes

CommandTypes ==
  /\ requests \in Dict(Command, Request)
  /\ sending \in Command \cup {None}
  /\ sent \in SUBSET Command /\ cancelled \in SUBSET sent
  /\ before \in [at : Time, cmd : Command \cup {None}]
  /\ attributed \in SUBSET (Unlock \X Command)
  /\ confirmed \in SUBSET (Unlock \X Command)

FieldTypes ==
  /\ motorState \in {"unknown", "on", "off"}
  /\ motorAt \in Time \cup {None} /\ claimed \in BOOLEAN
  /\ last \in DOMAIN happened \cup {None} /\ userKnown \in BOOLEAN
  /\ lastTs \in Time /\ committed \in Time
  /\ history \in SUBSET DOMAIN happened /\ burst \in SUBSET DOMAIN happened
  /\ announced \in [Unlock -> [motor : 0..2, record : 0..2]]

(* The filter holds one key too many only once the sensor has added one.   *)
BootTypes ==
  /\ keys \in Seq(Source \X Time)
  /\ Len(keys) <= IF seeded THEN MaxKeys + 1 ELSE MaxKeys
  /\ seeded \in BOOLEAN /\ restarts \in 0..MaxRestarts
  /\ saved \in [ts : Time, last : DOMAIN happened \cup {None}, user : BOOLEAN,
                history : SUBSET DOMAIN happened]

TypeInv == LockTypes /\ CommandTypes /\ FieldTypes /\ BootTypes

LEMMA TypeInvImplies == TypeInv => ReportsTypeOK
<1> SUFFICES ASSUME TypeInv PROVE ReportsTypeOK
  OBVIOUS
<1>1. DOMAIN happened \subseteq Unlock
  BY DictParts DEF TypeInv, LockTypes
<1>2. Len(keys) <= MaxKeys + 1
  <2>1. Len(keys) \in Nat
    BY LenProperties DEF TypeInv, BootTypes
  <2> QED BY <2>1, WindowAssumption DEF TypeInv, BootTypes
<1>3. saved \in [ts : Time, last : Unlock \cup {None}, user : BOOLEAN,
                history : SUBSET Unlock]
  BY <1>1 DEF TypeInv, BootTypes
<1> QED BY <1>1, <1>2, <1>3
        DEF TypeInv, LockTypes, PushTypes, CommandTypes, FieldTypes, BootTypes,
            ReportsTypeOK

LEMMA TypeInvInit == Init => TypeInv
<1> SUFFICES ASSUME Init PROVE TypeInv
  OBVIOUS
<1>0. 0 \in Time /\ 1 \in Time
  BY WindowAssumption DEF Time
<1>1. Never \in [{} -> Event] /\ Never \in [{} -> Request]
  BY DEF Never
<1>2. happened \in Dict(Unlock, Event) /\ requests \in Dict(Command, Request)
  BY <1>1, DictMember DEF Init
<1>3. motorPush \in Seq(Push) /\ Len(motorPush) = 0
      /\ keys \in Seq(Source \X Time) /\ Len(keys) = 0
  BY EmptySeq DEF Init
<1>4. LockTypes
  <2>1. PushTypes
    BY <1>3 DEF PushTypes
  <2> QED BY <1>0, <1>2, <2>1 DEF Init, LockTypes
<1>5. CommandTypes
  BY <1>0, <1>2 DEF Init, CommandTypes, NoReport
<1>6. FieldTypes
  <2>1. announced \in [Unlock -> [motor : 0..2, record : 0..2]]
    <3>1. [motor |-> 0, record |-> 0] \in [motor : 0..2, record : 0..2]
      OBVIOUS
    <3>2. announced = [u \in Unlock |-> [motor |-> 0, record |-> 0]]
      BY DEF Init
    <3> HIDE DEF Init
    <3> QED BY <3>1, <3>2
  <2> QED BY <1>0, <2>1 DEF Init, FieldTypes
<1>7. BootTypes
  BY <1>0, <1>3, WindowAssumption DEF Init, BootTypes, NothingSaved
<1> QED BY <1>4, <1>5, <1>6, <1>7 DEF TypeInv

(* What DoorUnlocks does to the records.                                   *)
LEMMA Happens ==
  ASSUME happened \in Dict(Unlock, Event), now \in Time,
         NEW u \in Unlock, NEW who \in Source, DoorUnlocks(u, who)
  PROVE  /\ u \notin DOMAIN happened
         /\ happened' \in Dict(Unlock, Event)
         /\ DOMAIN happened' = DOMAIN happened \cup {u}
         /\ happened'[u] = [at |-> now, who |-> who]
         /\ \A v \in DOMAIN happened : happened'[v] = happened[v]
<1>1. u \notin DOMAIN happened
  BY DEF DoorUnlocks
<1>2. happened' = [v \in DOMAIN happened \cup {u} |->
                     IF v = u THEN [at |-> now, who |-> who] ELSE happened[v]]
  BY DEF DoorUnlocks
<1>3. [at |-> now, who |-> who] \in Event
  BY DEF Event
<1>4. DOMAIN happened \subseteq Unlock /\ \A v \in DOMAIN happened : happened[v] \in Event
  BY DictParts
<1>5. happened' \in [DOMAIN happened \cup {u} -> Event]
  BY <1>2, <1>3, <1>4
<1>6. happened' \in Dict(Unlock, Event)
  BY <1>4, <1>5, DictMember
<1> QED BY <1>1, <1>2, <1>6

LEMMA PushedTypes ==
  ASSUME PushTypes, NEW on \in BOOLEAN, NEW u \in Unlock \cup {None}, Pushed(on, u),
         DOMAIN happened \subseteq DOMAIN happened',
         u \in IF on THEN DOMAIN happened' ELSE {None}
  PROVE  PushTypes'
<1>1. CASE link
  <2> DEFINE p == [on |-> on, of |-> u]
  <2>1. motorPush' = Append(motorPush, p) /\ p \in Push
    BY <1>1 DEF Pushed, Push
  <2>2. /\ motorPush' \in Seq(Push) /\ Len(motorPush') = Len(motorPush) + 1
        /\ \A i \in 1..Len(motorPush) : motorPush'[i] = motorPush[i]
        /\ motorPush'[Len(motorPush) + 1] = p /\ Len(motorPush) \in Nat
    BY <2>1, AppendProperties, LenProperties DEF PushTypes
  <2>3. p.on = on /\ p.of = u
    OBVIOUS
  <2> HIDE DEF p
  <2>4. ASSUME NEW i \in 1..Len(motorPush')
        PROVE  motorPush'[i].of \in IF motorPush'[i].on THEN DOMAIN happened' ELSE {None}
    <3>1. CASE i = Len(motorPush) + 1
      BY <2>2, <2>3, <3>1
    <3>2. CASE i # Len(motorPush) + 1
      <4>1. i \in 1..Len(motorPush)
        BY <2>2, <3>2
      <4> QED BY <2>2, <4>1 DEF PushTypes
    <3> QED BY <3>1, <3>2
  <2> QED BY <2>2, <2>4 DEF PushTypes
<1>2. CASE ~link
  BY <1>2 DEF Pushed, PushTypes
<1> QED BY <1>1, <1>2

(* The first value is taken.                                               *)
LEMMA TakenPush ==
  ASSUME PushTypes, motorPush # <<>>, motorPush' = Tail(motorPush)
  PROVE  /\ motorPush' \in Seq(Push)
         /\ Len(motorPush) \in Nat \ {0} /\ Len(motorPush') = Len(motorPush) - 1
         /\ \A i \in 1..Len(motorPush') : motorPush'[i] = motorPush[i + 1]
         /\ Head(motorPush) = motorPush[1]
         /\ Head(motorPush).of \in IF Head(motorPush).on THEN DOMAIN happened ELSE {None}
<1>1. Len(motorPush) \in Nat \ {0} /\ Head(motorPush) = motorPush[1]
  BY EmptySeq DEF PushTypes
<1>2. 1 \in 1..Len(motorPush)
  BY <1>1
<1> QED BY <1>1, <1>2, HeadTailProperties DEF PushTypes

LEMMA LockTypesStep == TypeInv /\ [Next]_vars => LockTypes'
<1> SUFFICES ASSUME TypeInv, [Next]_vars PROVE LockTypes'
  OBVIOUS
<1>0. LockTypes
  BY DEF TypeInv
<1>f. ASSUME UNCHANGED <<now, lockVars, motorPush, link>> PROVE LockTypes'
  BY <1>0, <1>f DEF LockTypes, PushTypes, lockVars
<1>1. CASE \/ \E c \in Command : SendUnlock(c)
           \/ UnlockSent \/ UnlockFailed \/ Seed \/ UNCHANGED vars
  BY <1>1, <1>f DEF SendUnlock, UnlockSent, UnlockFailed, Seed, vars, lockVars
<1>2. ASSUME NEW u \in Unlock, RecordArrives(u) PROVE LockTypes'
  BY <1>0, <1>2 DEF RecordArrives, LockTypes, PushTypes
<1>3. CASE MotorArrives
  <2>1. motorPush # <<>> /\ motorPush' = Tail(motorPush)
        /\ UNCHANGED <<now, happened, running, held, link>>
    BY <1>3 DEF MotorArrives, lockVars
  <2>2. PushTypes'
    <3>1. \A i \in 1..Len(motorPush') : i + 1 \in 1..Len(motorPush)
      BY <1>0, <2>1, TakenPush DEF LockTypes
    <3> QED BY <1>0, <2>1, <3>1, TakenPush DEF LockTypes, PushTypes
  <2> QED BY <1>0, <2>1, <2>2 DEF LockTypes
<1>4. ASSUME NEW u \in Unlock, NEW who \in Source, DoorUnlocks(u, who) PROVE LockTypes'
  <2>1. /\ happened' \in Dict(Unlock, Event)
        /\ DOMAIN happened' = DOMAIN happened \cup {u}
    BY <1>0, <1>4, Happens DEF LockTypes
  <2>2. PushTypes'
    <3>1. Pushed(TRUE, u)
      BY <1>4 DEF DoorUnlocks
    <3> QED BY <1>0, <2>1, <3>1, PushedTypes DEF LockTypes
  <2> QED BY <1>0, <1>4, <2>1, <2>2 DEF DoorUnlocks, LockTypes
<1>5. CASE MotorStops
  <2>1. Pushed(FALSE, None) /\ UNCHANGED happened
    BY <1>5 DEF MotorStops
  <2>2. PushTypes'
    BY <1>0, <2>1, PushedTypes DEF LockTypes
  <2> QED BY <1>0, <1>5, <2>2 DEF MotorStops, LockTypes
<1>6. CASE Connect
  <2> DEFINE p == [on |-> running # None, of |-> running]
  <2>1. motorPush' = <<p>> /\ UNCHANGED <<now, happened, running, held>> /\ link' = TRUE
    BY <1>6 DEF Connect, lockVars
  <2>2. running \in Unlock \cup {None} /\ None \notin DOMAIN happened
    BY <1>0, DictParts, NameAssumption DEF LockTypes
  <2>3. p \in Push /\ p.of \in IF p.on THEN DOMAIN happened ELSE {None}
    BY <1>0, <2>2 DEF Push, LockTypes
  <2> HIDE DEF p
  <2>4. motorPush' \in Seq(Push) /\ Len(motorPush') = 1 /\ motorPush'[1] = p
    BY <2>1, <2>3
  <2>5. PushTypes'
    BY <2>1, <2>3, <2>4 DEF PushTypes
  <2> QED BY <1>0, <2>1, <2>5 DEF LockTypes
<1>7. CASE LinkDrops \/ Restart
  <2>1. motorPush' = <<>> /\ link' = FALSE /\ UNCHANGED <<now, happened, running, held>>
    BY <1>7 DEF LinkDrops, Restart, lockVars
  <2>2. motorPush' \in Seq(Push) /\ Len(motorPush') = 0
    BY <2>1, EmptySeq
  <2>3. PushTypes'
    BY <2>2 DEF PushTypes
  <2> QED BY <1>0, <2>1, <2>3 DEF LockTypes
<1>8. CASE Tick
  <2>1. now' \in Time
    BY <1>0, <1>8, WindowAssumption DEF Tick, LockTypes, Time
  <2> QED BY <1>0, <1>8, <2>1 DEF Tick, LockTypes, PushTypes, lockVars
<1> QED BY <1>1, <1>2, <1>3, <1>4, <1>5, <1>6, <1>7, <1>8 DEF Next

LEMMA AliveTypes ==
  ASSUME requests \in Dict(Command, Request)
  PROVE  /\ DOMAIN Alive \subseteq Command
         /\ \A c \in DOMAIN Alive : Alive[c] \in Request
BY AliveKept, DictParts

LEMMA RequestsDict ==
  ASSUME NEW D, D \subseteq Command, NEW f, f = [c \in D |-> f[c]],
         \A c \in D : f[c] \in Request
  PROVE  f \in Dict(Command, Request)
<1>1. f \in [D -> Request]
  OBVIOUS
<1> QED BY <1>1, DictMember

LEMMA MatchTypes == \A ts : Match(ts) \in Command \cup {None}
BY DEF Match

LEMMA NewRecordCommandTypes ==
  ASSUME TypeInv, NEW u \in Unlock, NewRecord(u),
         UNCHANGED <<sending, sent, cancelled, confirmed>>
  PROVE  CommandTypes'
<1>0. CommandTypes /\ now \in Time
  BY DEF TypeInv, LockTypes
<1> DEFINE ts == happened[u].at
           c  == IF happened[u].who = Bluetooth THEN Match(ts) ELSE None
           f  == [d \in DOMAIN Alive |-> IF d = c THEN [Alive[d] EXCEPT !.claimed = TRUE]
                                        ELSE Alive[d]]
<1>1. c \in Command \cup {None}
  BY MatchTypes
<1>2. /\ requests' = requests \/ requests' = f
      /\ attributed' = IF c = None THEN attributed ELSE attributed \cup {<<u, c>>}
      /\ \/ before' = [at |-> now, cmd |-> c] \/ before' = NoReport
         \/ before' = before
  BY DEF NewRecord
<1>3. \A d \in DOMAIN Alive : f[d] \in Request
  BY <1>0, AliveTypes DEF CommandTypes, Request
<1>4. f \in Dict(Command, Request)
  <2>1. f = [d \in DOMAIN Alive |-> f[d]] /\ DOMAIN Alive \subseteq Command
    BY <1>0, AliveTypes DEF CommandTypes
  <2> HIDE DEF f
  <2> QED BY <1>3, <2>1, RequestsDict
<1>5. NoReport \in [at : Time, cmd : Command \cup {None}]
  BY WindowAssumption DEF NoReport, Time
<1> HIDE DEF c, f
<1>6. attributed' \in SUBSET (Unlock \X Command)
  BY <1>0, <1>1, <1>2 DEF CommandTypes
<1>7. before' \in [at : Time, cmd : Command \cup {None}]
  BY <1>0, <1>1, <1>2, <1>5 DEF CommandTypes
<1>8. requests' \in Dict(Command, Request)
  BY <1>0, <1>2, <1>4 DEF CommandTypes
<1> QED BY <1>0, <1>6, <1>7, <1>8 DEF CommandTypes

LEMMA CommandTypesStep == TypeInv /\ CommandInv /\ [Next]_vars => CommandTypes'
<1> SUFFICES ASSUME TypeInv, CommandInv, [Next]_vars PROVE CommandTypes'
  OBVIOUS
<1>0. CommandTypes /\ now \in Time
  BY DEF TypeInv, LockTypes
<1>f. ASSUME UNCHANGED <<requests, commandVars, before, attributed, confirmed>>
      PROVE  CommandTypes'
  BY <1>0, <1>f DEF CommandTypes, commandVars
<1>1. CASE \/ Seed \/ Tick \/ MotorStops \/ Connect \/ LinkDrops \/ UNCHANGED vars
           \/ \E u \in Unlock, who \in Source : DoorUnlocks(u, who)
  BY <1>1, <1>f DEF Seed, Tick, MotorStops, Connect, LinkDrops, DoorUnlocks, vars, commandVars
<1>2. ASSUME NEW c \in Command, SendUnlock(c) PROVE CommandTypes'
  <2> DEFINE f == [d \in DOMAIN Alive \cup {c} |->
                     IF d = c THEN [sent |-> now, claimed |-> FALSE] ELSE Alive[d]]
  <2>1. requests' = f
    BY <1>2 DEF SendUnlock
  <2>2. \A d \in DOMAIN Alive \cup {c} : f[d] \in Request
    BY <1>0, AliveTypes DEF CommandTypes, Request
  <2>3. f = [d \in DOMAIN Alive \cup {c} |-> f[d]] /\ DOMAIN Alive \cup {c} \subseteq Command
    BY <1>0, AliveTypes DEF CommandTypes
  <2> HIDE DEF f
  <2>4. f \in Dict(Command, Request)
    BY <2>2, <2>3, RequestsDict
  <2> QED BY <1>0, <1>2, <2>1, <2>4 DEF SendUnlock, CommandTypes
<1>3. CASE UnlockSent
  BY <1>0, <1>3 DEF UnlockSent, CommandTypes
<1>4. CASE UnlockFailed
  <2>0. sending' = None /\ UNCHANGED <<before, sent, attributed, confirmed>>
    BY <1>4 DEF UnlockFailed
  <2>1. CASE sending \in DOMAIN requests /\ ~requests[sending].claimed
    <3> DEFINE f == [d \in DOMAIN requests \ {sending} |-> requests[d]]
    <3>1. requests' = f /\ cancelled' = cancelled \cup {sending}
      BY <1>4, <2>1 DEF UnlockFailed
    <3>2. DOMAIN requests \subseteq Command /\ \A d \in DOMAIN requests : requests[d] \in Request
      BY <1>0, DictParts DEF CommandTypes
    <3>3. f = [d \in DOMAIN requests \ {sending} |-> f[d]]
          /\ \A d \in DOMAIN requests \ {sending} : f[d] \in Request
      BY <3>2
    <3> HIDE DEF f
    <3>4. f \in Dict(Command, Request)
      BY <3>2, <3>3, RequestsDict
    <3>5. sending \in sent
      BY <2>1 DEF CommandInv, RequestsSent
    <3> QED BY <1>0, <2>0, <3>1, <3>4, <3>5 DEF CommandTypes
  <2>2. CASE ~(sending \in DOMAIN requests /\ ~requests[sending].claimed)
    <3>1. UNCHANGED <<requests, cancelled>>
      BY <1>4, <2>2 DEF UnlockFailed
    <3> QED BY <1>0, <2>0, <3>1 DEF CommandTypes
  <2> QED BY <2>1, <2>2
<1>5. ASSUME NEW u \in Unlock, RecordArrives(u) PROVE CommandTypes'
  <2>1. CASE Duplicate(u)
    BY <1>5, <1>f, <2>1 DEF RecordArrives, Duplicate, commandVars
  <2>2. CASE NewRecord(u)
    BY <1>5, <2>2, NewRecordCommandTypes DEF RecordArrives, commandVars
  <2> QED BY <1>5, <2>1, <2>2 DEF RecordArrives
<1>6. CASE MotorArrives
  <2> DEFINE u == Head(motorPush).of
  <2>0. UNCHANGED <<requests, commandVars, attributed>>
    BY <1>6 DEF MotorArrives
  <2>1. before' = before \/ before' = NoReport
    BY <1>6 DEF MotorArrives, ReportAfterRun
  <2>2. NoReport \in [at : Time, cmd : Command \cup {None}]
    BY WindowAssumption DEF NoReport, Time
  <2>3. \/ confirmed' = confirmed
        \/ /\ Head(motorPush).on /\ before.cmd # None
           /\ confirmed' = confirmed \cup {<<u, before.cmd>>}
    BY <1>6 DEF MotorArrives, Confirmed
  <2>4. Head(motorPush).on => u \in Unlock
    BY <1>6, TakenPush, DictParts DEF MotorArrives, TypeInv, LockTypes
  <2>5. confirmed' \in SUBSET (Unlock \X Command)
    <3>1. before.cmd # None => before.cmd \in Command
      BY <1>0 DEF CommandTypes
    <3> HIDE DEF u
    <3> QED BY <1>0, <2>3, <2>4, <3>1 DEF CommandTypes
  <2> QED BY <1>0, <2>0, <2>1, <2>2, <2>5 DEF CommandTypes, commandVars
<1>7. CASE Restart
  <2>1. Never \in Dict(Command, Request)
    <3>1. Never \in [{} -> Request]
      BY DEF Never
    <3> QED BY <3>1, DictMember
  <2>2. NoReport \in [at : Time, cmd : Command \cup {None}]
    BY WindowAssumption DEF NoReport, Time
  <2> QED BY <1>0, <1>7, <2>1, <2>2 DEF Restart, CommandTypes
<1> QED BY <1>1, <1>2, <1>3, <1>4, <1>5, <1>6, <1>7 DEF Next

LEMMA HappenedTypes ==
  ASSUME TypeInv, NEW u \in DOMAIN happened
  PROVE  /\ u \in Unlock /\ happened[u].at \in Time /\ happened[u].who \in Source
         /\ Key(u) \in Source \X Time
<1>1. u \in Unlock /\ happened[u] \in Event
  BY DictParts DEF TypeInv, LockTypes
<1> QED BY <1>1 DEF Event, Key

LEMMA AnnouncedTypes ==
  ASSUME NEW f \in [Unlock -> [motor : 0..2, record : 0..2]], NEW u \in Unlock
  PROVE  /\ [f EXCEPT ![u].record = Capped(@)] \in [Unlock -> [motor : 0..2, record : 0..2]]
         /\ [f EXCEPT ![u].motor = Capped(@)] \in [Unlock -> [motor : 0..2, record : 0..2]]
<1>1. Capped(f[u].record) \in 0..2 /\ Capped(f[u].motor) \in 0..2
  BY DEF Capped
<1> QED BY <1>1

LEMMA NewRecordFieldTypes ==
  ASSUME TypeInv, NEW u \in DOMAIN happened, NewRecord(u),
         UNCHANGED <<happened, motorState, motorAt>>
  PROVE  FieldTypes'
<1>0. FieldTypes
  BY DEF TypeInv
<1>1. u \in Unlock /\ happened[u].at \in Time
  BY HappenedTypes
<1>2. claimed' \in BOOLEAN
  BY <1>0 DEF NewRecord, FieldTypes
<1>3. /\ last' \in DOMAIN happened \cup {None} /\ userKnown' \in BOOLEAN /\ lastTs' \in Time
      /\ history' \in SUBSET DOMAIN happened
  BY <1>0, <1>1 DEF NewRecord, FieldTypes
<1>b. burst' \in SUBSET DOMAIN happened
  BY <1>0 DEF NewRecord, FieldTypes
<1>4. committed' \in Time
  BY <1>0, <1>1 DEF NewRecord, FieldTypes, Larger
<1>5. announced' \in [Unlock -> [motor : 0..2, record : 0..2]]
  BY <1>0, <1>1, AnnouncedTypes DEF NewRecord, FieldTypes
<1> QED BY <1>0, <1>2, <1>3, <1>b, <1>4, <1>5 DEF FieldTypes

LEMMA FieldTypesStep == TypeInv /\ [Next]_vars => FieldTypes'
<1> SUFFICES ASSUME TypeInv, [Next]_vars PROVE FieldTypes'
  OBVIOUS
<1>0. FieldTypes /\ now \in Time
  BY DEF TypeInv, LockTypes
<1>f. ASSUME UNCHANGED <<happened, motorVars, claimed, fieldVars, announced>>
      PROVE  FieldTypes'
  BY <1>0, <1>f DEF FieldTypes, motorVars, fieldVars
<1>1. CASE \/ \E c \in Command : SendUnlock(c)
           \/ UnlockSent \/ UnlockFailed \/ Tick \/ MotorStops \/ Connect \/ LinkDrops
           \/ UNCHANGED vars
  BY <1>1, <1>f DEF SendUnlock, UnlockSent, UnlockFailed, Tick, MotorStops, Connect,
                    LinkDrops, vars, lockVars, motorVars, fieldVars
<1>2. ASSUME NEW u \in Unlock, NEW who \in Source, DoorUnlocks(u, who) PROVE FieldTypes'
  <2>1. DOMAIN happened \subseteq DOMAIN happened'
    BY <1>2, Happens DEF TypeInv, LockTypes
  <2> QED BY <1>0, <1>2, <2>1 DEF DoorUnlocks, FieldTypes, motorVars, fieldVars
<1>3. ASSUME NEW u \in Unlock, RecordArrives(u) PROVE FieldTypes'
  <2>1. u \in DOMAIN happened /\ UNCHANGED <<happened, motorState, motorAt>>
    BY <1>3 DEF RecordArrives, TypeInv, LockTypes, motorVars
  <2>2. CASE Duplicate(u)
    BY <1>f, <2>1, <2>2 DEF Duplicate, motorVars
  <2>3. CASE NewRecord(u)
    BY <2>1, <2>3, NewRecordFieldTypes
  <2> QED BY <1>3, <2>2, <2>3 DEF RecordArrives
<1>4. CASE MotorArrives
  <2> DEFINE u == Head(motorPush).of
  <2>1. /\ UNCHANGED <<happened, lastTs, committed, history, burst>>
        /\ motorState' \in {"on", "off"}
    BY <1>4 DEF MotorArrives, lockVars
  <2>2. CASE Head(motorPush).on /\ motorState = "off"
    <3>1. /\ motorAt' = now /\ claimed' = Confirmed /\ last' \in {last, None}
          /\ userKnown' = (userKnown /\ Confirmed)
          /\ announced' = [announced EXCEPT ![u].motor = Capped(@)]
      BY <1>4, <2>2 DEF MotorArrives, LastAfterRun
    <3>2. u \in Unlock
      BY <1>4, <2>2, TakenPush, DictParts DEF MotorArrives, TypeInv, LockTypes
    <3> HIDE DEF u
    <3>3. announced' \in [Unlock -> [motor : 0..2, record : 0..2]]
      BY <1>0, <3>1, <3>2, AnnouncedTypes DEF FieldTypes
    <3>4. claimed' \in BOOLEAN /\ userKnown' \in BOOLEAN
      BY <3>1 DEF Confirmed
    <3> QED BY <1>0, <2>1, <3>1, <3>3, <3>4 DEF FieldTypes
  <2>3. CASE ~(Head(motorPush).on /\ motorState = "off")
    <3>1. UNCHANGED <<motorAt, claimed, last, userKnown, announced>>
      BY <1>4, <2>3 DEF MotorArrives
    <3> QED BY <1>0, <2>1, <3>1 DEF FieldTypes
  <2> QED BY <2>2, <2>3
<1>5. CASE Restart
  <2>1. /\ motorState' = "unknown" /\ motorAt' = None /\ claimed' = TRUE
        /\ last' = None /\ userKnown' = FALSE /\ lastTs' = 0 /\ committed' = 0
        /\ history' = {} /\ burst' = {} /\ UNCHANGED <<happened, announced>>
    BY <1>5 DEF Restart, lockVars
  <2>2. 0 \in Time
    BY WindowAssumption DEF Time
  <2> QED BY <1>0, <2>1, <2>2 DEF FieldTypes
<1>6. CASE Seed
  <2>1. /\ UNCHANGED <<happened, motorState, motorAt, claimed, userKnown, burst,
                        announced>>
        /\ last' \in {last, saved.last} /\ history' \in {history, saved.history}
        /\ committed' \in {committed, saved.ts} /\ lastTs' \in {lastTs, saved.ts}
    BY <1>6 DEF Seed, lockVars, motorVars
  <2>2. /\ saved.last \in DOMAIN happened \cup {None} /\ saved.ts \in Time
        /\ saved.history \in SUBSET DOMAIN happened
    BY DEF TypeInv, BootTypes
  <2> QED BY <1>0, <2>1, <2>2 DEF FieldTypes
<1> QED BY <1>1, <1>2, <1>3, <1>4, <1>5, <1>6 DEF Next

(* Adding a key drops at most one.                                         *)
LEMMA RememberingTypes ==
  ASSUME TypeInv, NEW key \in Source \X Time
  PROVE  /\ Remembering(key) \in Seq(Source \X Time)
         /\ Len(Remembering(key)) <= IF seeded THEN MaxKeys + 1 ELSE MaxKeys
<1> DEFINE grown == IF Known(key) THEN keys ELSE Append(keys, key)
<1>0. keys \in Seq(Source \X Time) /\ Len(keys) \in Nat /\ MaxKeys \in Nat \ {0}
      /\ Len(keys) <= IF seeded THEN MaxKeys + 1 ELSE MaxKeys
  BY LenProperties, WindowAssumption DEF TypeInv, BootTypes
<1>1. grown \in Seq(Source \X Time) /\ Len(grown) \in {Len(keys), Len(keys) + 1}
  BY <1>0, AppendProperties
<1>2. Remembering(key) = IF Len(grown) > MaxKeys THEN Tail(grown) ELSE grown
  BY DEF Remembering
<1> HIDE DEF grown
<1>3. CASE Len(grown) > MaxKeys
  <2>1. grown # <<>>
    BY <1>0, <1>3, EmptySeq
  <2>2. Tail(grown) \in Seq(Source \X Time) /\ Len(Tail(grown)) = Len(grown) - 1
    BY <1>1, <2>1, HeadTailProperties
  <2>3. Len(Tail(grown)) \in Nat /\ Len(Tail(grown)) <= Len(keys)
    <3>1. Len(grown) \in Nat /\ Len(grown) <= Len(keys) + 1
      BY <1>0, <1>1
    <3>2. Len(grown) >= 1
      BY <1>0, <1>3, <3>1
    <3> QED BY <1>0, <2>2, <3>1, <3>2
  <2>4. Len(Tail(grown)) <= IF seeded THEN MaxKeys + 1 ELSE MaxKeys
    BY <1>0, <2>3
  <2> QED BY <1>2, <1>3, <2>2, <2>4
<1>4. CASE ~(Len(grown) > MaxKeys)
  BY <1>0, <1>1, <1>2, <1>4
<1> QED BY <1>3, <1>4

LEMMA BootTypesStep == TypeInv /\ [Next]_vars => BootTypes'
<1> SUFFICES ASSUME TypeInv, [Next]_vars PROVE BootTypes'
  OBVIOUS
<1>0. BootTypes /\ FieldTypes
  BY DEF TypeInv
<1>f. ASSUME UNCHANGED <<happened, keys, bootVars>> PROVE BootTypes'
  BY <1>0, <1>f DEF BootTypes, bootVars
<1>1. CASE \/ \E c \in Command : SendUnlock(c)
           \/ UnlockSent \/ UnlockFailed \/ Tick \/ MotorArrives \/ MotorStops
           \/ Connect \/ LinkDrops \/ UNCHANGED vars
  BY <1>1, <1>f DEF SendUnlock, UnlockSent, UnlockFailed, Tick, MotorArrives, MotorStops,
                    Connect, LinkDrops, vars, lockVars, bootVars
<1>2. ASSUME NEW u \in Unlock, NEW who \in Source, DoorUnlocks(u, who) PROVE BootTypes'
  <2>1. DOMAIN happened \subseteq DOMAIN happened'
    BY <1>2, Happens DEF TypeInv, LockTypes
  <2> QED BY <1>0, <1>2, <2>1 DEF DoorUnlocks, BootTypes, bootVars
<1>3. ASSUME NEW u \in Unlock, RecordArrives(u) PROVE BootTypes'
  <2>1. u \in DOMAIN happened /\ UNCHANGED <<happened, bootVars>>
    BY <1>3 DEF RecordArrives, TypeInv, LockTypes
  <2>2. CASE Duplicate(u)
    BY <1>f, <2>1, <2>2 DEF Duplicate
  <2>3. CASE NewRecord(u)
    <3>1. keys' = Remembering(Key(u))
      BY <2>3 DEF NewRecord
    <3>2. /\ keys' \in Seq(Source \X Time)
          /\ Len(keys') <= IF seeded THEN MaxKeys + 1 ELSE MaxKeys
      BY <2>1, <3>1, HappenedTypes, RememberingTypes
    <3> QED BY <1>0, <2>1, <3>2 DEF BootTypes, bootVars
  <2> QED BY <1>3, <2>2, <2>3 DEF RecordArrives
<1>4. CASE Restart
  <2>1. keys' \in Seq(Source \X Time) /\ Len(keys') = 0 /\ seeded' = FALSE
    BY <1>4, EmptySeq DEF Restart
  <2>2. restarts' \in 0..MaxRestarts
    BY <1>0, <1>4, WindowAssumption DEF Restart, BootTypes
  <2>3. saved' \in [ts : Time, last : DOMAIN happened \cup {None}, user : BOOLEAN,
                    history : SUBSET DOMAIN happened]
    BY <1>0, <1>4 DEF Restart, BootTypes, FieldTypes
  <2>4. UNCHANGED happened
    BY <1>4 DEF Restart, lockVars
  <2>5. Len(keys') <= IF seeded' THEN MaxKeys + 1 ELSE MaxKeys
    BY <2>1, WindowAssumption
  <2> QED BY <2>1, <2>2, <2>3, <2>4, <2>5 DEF BootTypes
<1>5. CASE Seed
  <2>1. /\ seeded' = TRUE /\ ~seeded /\ UNCHANGED <<happened, saved, restarts>>
        /\ \/ keys' = keys
           \/ saved.last # None /\ keys' = Append(keys, Baseline)
    BY <1>5 DEF Seed, SeededKeys, lockVars
  <2>2. keys \in Seq(Source \X Time) /\ Len(keys) \in Nat /\ Len(keys) <= MaxKeys
    BY <1>0, <2>1, LenProperties DEF BootTypes
  <2>3. saved.last # None => Baseline \in Source \X Time
    BY <1>0, HappenedTypes DEF BootTypes, Baseline
  <2>4. keys' \in Seq(Source \X Time) /\ Len(keys') <= MaxKeys + 1
    <3>1. CASE keys' = keys
      BY <2>2, <3>1, WindowAssumption
    <3>2. CASE saved.last # None /\ keys' = Append(keys, Baseline)
      <4>1. keys' \in Seq(Source \X Time) /\ Len(keys') = Len(keys) + 1
        BY <2>2, <2>3, <3>2, AppendProperties
      <4> QED BY <2>2, <4>1, WindowAssumption
    <3> QED BY <2>1, <3>1, <3>2
  <2> QED BY <1>0, <2>1, <2>4 DEF BootTypes
<1> QED BY <1>1, <1>2, <1>3, <1>4, <1>5 DEF Next

LEMMA TypeInvariant == Spec => []TypeInv
<1>1. TypeInv /\ CommandInv /\ [Next]_vars => TypeInv'
  BY LockTypesStep, CommandTypesStep, FieldTypesStep, BootTypesStep DEF TypeInv
<1> QED BY <1>1, TypeInvInit, CommandInvHolds, PTL DEF Spec

(* Type correctness, the bound of the duplicate filter included: it holds  *)
(* at most one key more than MaxKeys (_recent_event_keys).                 *)
THEOREM TypeCorrect == Spec => []ReportsTypeOK
BY TypeInvariant, TypeInvImplies, PTL

-----------------------------------------------------------------------------
(* A motor run is once on its way, that of a run in progress at the end.   *)

Queue == 1..Len(motorPush)
Queued(u) == \E i \in Queue : motorPush[i].of = u

EachOnce  == \A i, j \in Queue : motorPush[i].on /\ motorPush[i].of = motorPush[j].of => i = j
EndsInRun == \A i \in Queue : motorPush[i].on /\ motorPush[i].of = running
                               => i = Len(motorPush)
QueueInv ==
  /\ ~link => motorPush = <<>>
  /\ EachOnce /\ EndsInRun

LEMMA EmptyQueue ==
  ASSUME TypeInv, motorPush' = <<>>
  PROVE  Queue' = {} /\ EachOnce' /\ EndsInRun'
<1>1. Queue' = {}
  BY EmptySeq DEF Queue
<1> QED BY <1>1 DEF EachOnce, EndsInRun

LEMMA QueueInvUnchanged ==
  ASSUME QueueInv, UNCHANGED <<running, link, motorPush>>
  PROVE  QueueInv'
BY DEF QueueInv, Queue, EachOnce, EndsInRun

(* What the queue looks like when a value is added.                        *)
LEMMA AddedPush ==
  ASSUME TypeInv, NEW on \in BOOLEAN, NEW u \in Unlock \cup {None}, Pushed(on, u), link
  PROVE  /\ Len(motorPush) \in Nat /\ Len(motorPush') = Len(motorPush) + 1
         /\ \A i \in Queue : motorPush'[i] = motorPush[i]
         /\ motorPush'[Len(motorPush')].on = on /\ motorPush'[Len(motorPush')].of = u
         /\ Queue \subseteq Queue' /\ Queue' = Queue \cup {Len(motorPush')}
<1>1. [on |-> on, of |-> u] \in Push
  BY DEF Push
<1>2. motorPush' = Append(motorPush, [on |-> on, of |-> u]) /\ motorPush \in Seq(Push)
  BY DEF Pushed, TypeInv, LockTypes, PushTypes
<1> QED BY <1>1, <1>2, AppendProperties, LenProperties DEF Queue

LEMMA DoorQueue ==
  ASSUME TypeInv, QueueInv, NEW u \in Unlock, NEW who \in Source, DoorUnlocks(u, who)
  PROVE  QueueInv'
<1>t. happened \in Dict(Unlock, Event) /\ now \in Time
  BY DEF TypeInv, LockTypes
<1>0. u \notin DOMAIN happened
  BY <1>t, Happens
<1>1. running' = u /\ UNCHANGED link /\ Pushed(TRUE, u)
  BY DEF DoorUnlocks
<1>5. \A i \in Queue : motorPush[i].of # u
  BY <1>0, NameAssumption DEF TypeInv, LockTypes, PushTypes, Queue
<1>6. CASE link
  <2> DEFINE n == Len(motorPush')
  <2>a. /\ Len(motorPush) \in Nat /\ n = Len(motorPush) + 1
        /\ \A i \in Queue : motorPush'[i] = motorPush[i]
        /\ motorPush'[n].on = TRUE /\ motorPush'[n].of = u
        /\ Queue' = Queue \cup {n}
    BY <1>1, <1>6, AddedPush
  <2>b. n \in Nat /\ \A i \in Queue : i \in Nat /\ i < n
    BY <2>a DEF Queue
  <2>1. /\ n \in Nat /\ \A i \in Queue : motorPush'[i] = motorPush[i] /\ i \in Nat /\ i < n
        /\ motorPush'[n].on = TRUE /\ motorPush'[n].of = u
        /\ Queue' = Queue \cup {n}
    BY <2>a, <2>b
  <2>n. Len(motorPush') = n
    OBVIOUS
  <2> HIDE DEF n
  <2>2. EachOnce'
    BY <1>5, <2>1 DEF QueueInv, EachOnce
  <2>3. EndsInRun'
    BY <1>1, <1>5, <2>1, <2>n DEF EndsInRun
  <2> QED BY <1>1, <1>6, <2>2, <2>3 DEF QueueInv
<1>7. CASE ~link
  <2>1. motorPush' = <<>>
    BY <1>1, <1>7 DEF QueueInv, Pushed
  <2> QED BY <1>1, <1>7, <2>1, EmptyQueue DEF QueueInv
<1> QED BY <1>6, <1>7

LEMMA StopQueue ==
  ASSUME TypeInv, QueueInv, MotorStops PROVE QueueInv'
<1>1. running' = None /\ UNCHANGED link /\ Pushed(FALSE, None)
  BY DEF MotorStops
<1>2. \A i \in Queue : motorPush[i].on => motorPush[i].of \in DOMAIN happened
  BY DEF TypeInv, LockTypes, PushTypes, Queue
<1>3. None \notin DOMAIN happened
  BY DictParts, NameAssumption DEF TypeInv, LockTypes
<1>4. CASE link
  <2> DEFINE n == Len(motorPush')
  <2>1. /\ \A i \in Queue : motorPush'[i] = motorPush[i]
        /\ motorPush'[n].on = FALSE /\ motorPush'[n].of = None
        /\ Queue' = Queue \cup {n}
    BY <1>1, <1>4, AddedPush
  <2> HIDE DEF n
  <2>2. EachOnce'
    BY <1>2, <1>3, <2>1 DEF QueueInv, EachOnce
  <2>3. EndsInRun'
    BY <1>1, <1>2, <1>3, <2>1 DEF EndsInRun
  <2> QED BY <1>1, <1>4, <2>2, <2>3 DEF QueueInv
<1>5. CASE ~link
  <2>1. motorPush' = <<>>
    BY <1>1, <1>5 DEF QueueInv, Pushed
  <2> QED BY <1>1, <1>5, <2>1, EmptyQueue DEF QueueInv
<1> QED BY <1>4, <1>5

LEMMA TakenQueue ==
  ASSUME TypeInv, QueueInv, MotorArrives PROVE QueueInv'
<1>1. /\ motorPush # <<>> /\ motorPush' = Tail(motorPush)
      /\ UNCHANGED <<running, link>>
  BY DEF MotorArrives, lockVars
<1>2. /\ Len(motorPush) \in Nat \ {0} /\ Len(motorPush') = Len(motorPush) - 1
      /\ \A i \in Queue' : motorPush'[i] = motorPush[i + 1] /\ i + 1 \in Queue /\ i \in Nat
      /\ 1 \in Queue
  BY <1>1, TakenPush DEF TypeInv, LockTypes, Queue
<1>3. EachOnce'
  BY <1>2 DEF QueueInv, EachOnce
<1>4. EndsInRun'
  <2> SUFFICES ASSUME NEW i \in Queue', motorPush'[i].on, motorPush'[i].of = running
               PROVE  i = Len(motorPush')
    BY <1>1 DEF EndsInRun
  <2>1. i + 1 = Len(motorPush)
    BY <1>2 DEF QueueInv, EndsInRun
  <2> QED BY <1>2, <2>1
<1> QED BY <1>1, <1>3, <1>4, EmptyQueue DEF QueueInv

LEMMA QueueInvStep == TypeInv /\ QueueInv /\ [Next]_vars => QueueInv'
<1> SUFFICES ASSUME TypeInv, QueueInv, [Next]_vars PROVE QueueInv'
  OBVIOUS
<1>1. CASE \/ \E c \in Command : SendUnlock(c)
           \/ UnlockSent \/ UnlockFailed \/ Seed \/ Tick \/ UNCHANGED vars
           \/ \E u \in Unlock : RecordArrives(u)
  BY <1>1, QueueInvUnchanged
     DEF SendUnlock, UnlockSent, UnlockFailed, Seed, Tick, RecordArrives, vars, lockVars
<1>2. CASE Connect
  <2>1. /\ motorPush' = <<[on |-> running # None, of |-> running]>> /\ link' = TRUE
    BY <1>2 DEF Connect
  <2>2. Len(motorPush') = 1 /\ Queue' = {1} /\ motorPush'[1].of = running
        /\ (motorPush'[1].on => running # None)
    <3> DEFINE p == [on |-> running # None, of |-> running]
    <3>1. p.of = running /\ (p.on => running # None)
      OBVIOUS
    <3>2. motorPush' = <<p>>
      BY <2>1
    <3> HIDE DEF p
    <3>3. Len(motorPush') = 1 /\ motorPush'[1] = p
      BY <3>2
    <3>4. Queue' = {1}
      BY <3>3 DEF Queue
    <3> QED BY <3>1, <3>3, <3>4
  <2>3. EachOnce' /\ EndsInRun'
    BY <2>2 DEF EachOnce, EndsInRun
  <2> QED BY <2>1, <2>3 DEF QueueInv
<1>3. CASE LinkDrops \/ Restart
  <2>1. motorPush' = <<>>
    BY <1>3 DEF LinkDrops, Restart
  <2> QED BY <2>1, EmptyQueue DEF QueueInv
<1> QED BY <1>1, <1>2, <1>3, DoorQueue, StopQueue, TakenQueue DEF Next

LEMMA QueueInvariant == Spec => []QueueInv
<1>1. Init => QueueInv
  <2> SUFFICES ASSUME Init, TypeInv PROVE QueueInv
    BY TypeInvInit
  <2>1. Queue = {}
    BY EmptySeq DEF Init, Queue
  <2> QED BY <2>1 DEF Init, QueueInv, EachOnce, EndsInRun
<1> QED BY <1>1, QueueInvStep, TypeInvariant, PTL DEF Spec

-----------------------------------------------------------------------------
(* A motor run is announced once.  Until the next value "off" the state is *)
(* not "off", and none comes on the way before the run is over.            *)

Announced(u) ==
  /\ announced[u].motor = 1 /\ u \in DOMAIN happened
  /\ motorState = "off" => ~Queued(u)
  /\ \A j \in Queue : motorPush[j].of = u => j = 1
  /\ running = u => motorState # "off" /\ \A j \in Queue : motorPush[j].of = u

MotorOnce == \A u \in Unlock : announced[u].motor # 0 => Announced(u)

LEMMA MotorOnceUnchanged ==
  ASSUME MotorOnce, DOMAIN happened \subseteq DOMAIN happened',
         UNCHANGED <<announced, running, motorPush, motorState>>
  PROVE  MotorOnce'
BY DEF MotorOnce, Announced, Queue, Queued

LEMMA EmptyMotorOnce ==
  ASSUME TypeInv, MotorOnce, motorPush' = <<>>, motorState' \in {motorState, "unknown"},
         UNCHANGED <<announced, running, happened>>
  PROVE  MotorOnce'
<1>1. Queue' = {}
  BY EmptySeq DEF Queue
<1> QED BY <1>1 DEF MotorOnce, Announced, Queued

LEMMA DoorMotorOnce ==
  ASSUME TypeInv, QueueInv, MotorOnce, NEW u \in Unlock, NEW who \in Source,
         DoorUnlocks(u, who)
  PROVE  MotorOnce'
<1>t. happened \in Dict(Unlock, Event) /\ now \in Time
  BY DEF TypeInv, LockTypes
<1>0. u \notin DOMAIN happened /\ DOMAIN happened' = DOMAIN happened \cup {u}
  BY <1>t, Happens
<1>1. /\ running' = u /\ running = None /\ Pushed(TRUE, u)
      /\ UNCHANGED <<announced, motorState>>
  BY DEF DoorUnlocks, motorVars
<1>2. SUFFICES ASSUME NEW v \in Unlock, announced[v].motor # 0 PROVE Announced(v)'
  BY <1>1 DEF MotorOnce
<1>3. Announced(v) /\ v # u
  BY <1>0, <1>2 DEF MotorOnce, Announced
<1>4. CASE link
  <2>1. /\ \A i \in Queue : motorPush'[i] = motorPush[i]
        /\ motorPush'[Len(motorPush')].of = u
        /\ Queue' = Queue \cup {Len(motorPush')}
    BY <1>1, <1>4, AddedPush
  <2> QED BY <1>0, <1>1, <1>3, <2>1 DEF Announced, Queued
<1>5. CASE ~link
  <2>1. motorPush' = motorPush
    BY <1>1, <1>5 DEF Pushed
  <2> QED BY <1>0, <1>1, <1>3, <2>1 DEF Announced, Queue, Queued
<1> QED BY <1>4, <1>5

LEMMA StopMotorOnce ==
  ASSUME TypeInv, QueueInv, MotorOnce, MotorStops PROVE MotorOnce'
<1>1. /\ running' = None /\ Pushed(FALSE, None)
      /\ UNCHANGED <<announced, motorState, happened>>
  BY DEF MotorStops, motorVars
<1>2. SUFFICES ASSUME NEW v \in Unlock, announced[v].motor # 0 PROVE Announced(v)'
  BY <1>1 DEF MotorOnce
<1>3. Announced(v) /\ v # None
  BY <1>2, NameAssumption DEF MotorOnce
<1>4. CASE link
  <2>1. /\ \A i \in Queue : motorPush'[i] = motorPush[i]
        /\ motorPush'[Len(motorPush')].of = None
        /\ Queue' = Queue \cup {Len(motorPush')}
    BY <1>1, <1>4, AddedPush
  <2> QED BY <1>1, <1>3, <2>1 DEF Announced, Queued
<1>5. CASE ~link
  <2>1. motorPush' = motorPush
    BY <1>1, <1>5 DEF Pushed
  <2> QED BY <1>1, <1>3, <2>1 DEF Announced, Queue, Queued
<1> QED BY <1>4, <1>5

LEMMA ConnectMotorOnce ==
  ASSUME TypeInv, QueueInv, MotorOnce, Connect PROVE MotorOnce'
<1>1. /\ motorPush' = <<[on |-> running # None, of |-> running]>>
      /\ UNCHANGED <<announced, motorState, happened, running>>
  BY DEF Connect, lockVars, motorVars
<1>2. Queue' = {1} /\ motorPush'[1].of = running
  <2> DEFINE p == [on |-> running # None, of |-> running]
  <2>1. p.of = running /\ motorPush' = <<p>>
    BY <1>1
  <2> HIDE DEF p
  <2>2. Len(motorPush') = 1 /\ motorPush'[1] = p
    BY <2>1
  <2> QED BY <2>1, <2>2 DEF Queue
<1>3. SUFFICES ASSUME NEW v \in Unlock, announced[v].motor # 0 PROVE Announced(v)'
  BY <1>1 DEF MotorOnce
<1>4. Announced(v)
  BY <1>3 DEF MotorOnce
<1> QED BY <1>1, <1>2, <1>4 DEF Announced, Queued

LEMMA TakenMotorOnce ==
  ASSUME TypeInv, QueueInv, MotorOnce, MotorArrives PROVE MotorOnce'
<1> DEFINE on == Head(motorPush).on
           u  == Head(motorPush).of
<1>1. /\ motorPush # <<>> /\ motorPush' = Tail(motorPush)
      /\ UNCHANGED <<happened, running>>
      /\ motorState' = IF on THEN "on" ELSE "off"
  BY DEF MotorArrives, lockVars
<1>2. /\ Len(motorPush) \in Nat \ {0} /\ Len(motorPush') = Len(motorPush) - 1
      /\ \A i \in Queue' : motorPush'[i] = motorPush[i + 1] /\ i + 1 \in Queue /\ i \in Nat \ {0}
      /\ 1 \in Queue /\ Head(motorPush) = motorPush[1]
      /\ u \in IF on THEN DOMAIN happened ELSE {None}
  BY <1>1, TakenPush DEF TypeInv, LockTypes, Queue
<1>3. \A i \in Queue' : i + 1 # 1
  BY <1>2
<1>4. ASSUME NEW v \in Unlock, Announced(v), announced'[v] = announced[v]
      PROVE  Announced(v)'
  <2>1. ~Queued(v)'
    BY <1>2, <1>3, <1>4 DEF Announced, Queued
  <2>2. running = v => on
    BY <1>2, <1>4, NameAssumption DEF Announced
  <2>3. running = v => \A j \in Queue' : motorPush'[j].of = v
    BY <1>2, <1>4 DEF Announced
  <2>4. running = v => motorState' # "off"
    BY <1>1, <2>2
  <2> HIDE DEF on, u
  <2> QED BY <1>1, <1>4, <2>1, <2>3, <2>4 DEF Announced, Queued
<1>5. CASE on /\ motorState = "off"
  <2>1. u \in DOMAIN happened /\ u \in Unlock
    BY <1>2, <1>5, DictParts DEF TypeInv, LockTypes
  <2>2. PICK w \in Unlock : w = u
    BY <2>1
  <2>3. /\ w \in DOMAIN happened /\ motorPush[1].of = w /\ motorPush[1].on
        /\ announced' = [announced EXCEPT ![w].motor = Capped(@)]
        /\ motorState' = "on" /\ motorState = "off"
    BY <1>1, <1>2, <1>5, <2>1, <2>2 DEF MotorArrives
  <2> HIDE DEF on, u
  <2>4. announced[w].motor = 0
    BY <1>2, <2>3 DEF MotorOnce, Announced, Queued
  <2>5. /\ announced'[w].motor = 1
        /\ \A v \in Unlock \ {w} : announced'[v] = announced[v]
    BY <2>3, <2>4 DEF TypeInv, FieldTypes, Capped
  <2>7. ~Queued(w)'
    <3> SUFFICES ASSUME NEW i \in Queue', motorPush'[i].of = w PROVE FALSE
      BY DEF Queued
    <3>1. motorPush[i + 1].of = w /\ i + 1 \in Queue /\ i + 1 # 1
      BY <1>2, <1>3
    <3> QED BY <1>2, <2>3, <3>1 DEF QueueInv, EachOnce
  <2>8. running = w => Queue' = {}
    <3> SUFFICES ASSUME running = w PROVE Queue' = {}
      OBVIOUS
    <3>1. Len(motorPush) = 1
      BY <1>2, <2>3 DEF QueueInv, EndsInRun
    <3>2. Len(motorPush') = 0
      BY <1>2, <3>1
    <3> QED BY <3>2 DEF Queue
  <2>10. Announced(w)'
    BY <1>1, <2>3, <2>5, <2>7, <2>8 DEF Announced, Queued
  <2>11. ASSUME NEW v \in Unlock, announced'[v].motor # 0 PROVE Announced(v)'
    BY <1>4, <2>5, <2>10, <2>11 DEF MotorOnce
  <2> QED BY <2>11 DEF MotorOnce
<1>6. CASE ~(on /\ motorState = "off")
  <2>1. announced' = announced
    BY <1>6 DEF MotorArrives
  <2> QED BY <1>4, <2>1 DEF MotorOnce
<1> QED BY <1>5, <1>6

LEMMA RecordMotorOnce ==
  ASSUME TypeInv, MotorOnce, NEW u \in Unlock, RecordArrives(u) PROVE MotorOnce'
<1>1. UNCHANGED <<happened, running, motorPush, motorState>>
  BY DEF RecordArrives, motorVars
<1>2. announced' = announced \/ announced' = [announced EXCEPT ![u].record = Capped(@)]
  BY DEF RecordArrives, Duplicate, NewRecord
<1>3. \A v \in Unlock : announced'[v].motor = announced[v].motor
  BY <1>2 DEF TypeInv, FieldTypes
<1> QED BY <1>1, <1>3 DEF MotorOnce, Announced, Queue, Queued

LEMMA MotorOnceStep == TypeInv /\ QueueInv /\ MotorOnce /\ [Next]_vars => MotorOnce'
<1> SUFFICES ASSUME TypeInv, QueueInv, MotorOnce, [Next]_vars PROVE MotorOnce'
  OBVIOUS
<1>1. CASE \/ \E c \in Command : SendUnlock(c)
           \/ UnlockSent \/ UnlockFailed \/ Seed \/ Tick \/ UNCHANGED vars
  BY <1>1, MotorOnceUnchanged
     DEF SendUnlock, UnlockSent, UnlockFailed, Seed, Tick, vars, lockVars, motorVars
<1>2. CASE LinkDrops \/ Restart
  BY <1>2, EmptyMotorOnce DEF LinkDrops, Restart, lockVars, motorVars
<1> QED BY <1>1, <1>2, DoorMotorOnce, StopMotorOnce, ConnectMotorOnce, TakenMotorOnce,
           RecordMotorOnce DEF Next

LEMMA MotorOnceInvariant == Spec => []MotorOnce
<1>1. Init => MotorOnce
  BY DEF Init, MotorOnce
<1> QED BY <1>1, MotorOnceStep, TypeInvariant, QueueInvariant, PTL DEF Spec

-----------------------------------------------------------------------------
(* The duplicate filter.  It forgets nothing while there are no more       *)
(* unlocks than it has room for.                                           *)

Roomy == IsFiniteSet(Unlock) /\ Cardinality(Unlock) <= MaxKeys

Distinct(s) == \A i, j \in 1..Len(s) : s[i] = s[j] => i = j
OfUnlocks(s) == \A i \in 1..Len(s) : \E u \in DOMAIN happened : s[i] = Key(u)
KeyInv == Distinct(keys) /\ OfUnlocks(keys)

LEMMA DistinctFits ==
  ASSUME Roomy, DOMAIN happened \subseteq Unlock, NEW s, Len(s) \in Nat,
         Distinct(s), OfUnlocks(s)
  PROVE  Len(s) <= MaxKeys
<1> DEFINE n == Len(s)
           f == [i \in 1..n |-> CHOOSE u \in DOMAIN happened : s[i] = Key(u)]
<1>1. \A i \in 1..n : f[i] \in DOMAIN happened /\ s[i] = Key(f[i])
  BY DEF OfUnlocks
<1>2. f \in [1..n -> Unlock]
  BY <1>1
<1>3. \A i, j \in 1..n : f[i] = f[j] => i = j
  BY <1>1 DEF Distinct
<1>n. n \in Nat
  OBVIOUS
<1>5. Cardinality(Unlock) \in Nat
  BY FS_CardinalityType DEF Roomy
<1> HIDE DEF f, n
<1>4. IsFiniteSet(1..n) /\ Cardinality(1..n) = n
  <2>1. 1 \in Int /\ n \in Int
    BY <1>n
  <2>2. /\ IsFiniteSet(1..n)
        /\ Cardinality(1..n) = IF 1 > n THEN 0 ELSE n - 1 + 1
    BY <2>1, FS_Interval
  <2> QED BY <1>n, <2>2
<1>6. ~(Cardinality(Unlock) < Cardinality(1..n))
  <2> SUFFICES ASSUME Cardinality(Unlock) < Cardinality(1..n) PROVE FALSE
    OBVIOUS
  <2>1. IsFiniteSet(Unlock)
    BY DEF Roomy
  <2>2. \E x, y \in 1..n : x # y /\ f[x] = f[y]
    BY <1>2, <1>4, <2>1, FS_PigeonHole
  <2> QED BY <1>3, <2>2
<1>8. n <= MaxKeys
  BY <1>4, <1>5, <1>6, <1>n, WindowAssumption DEF Roomy
<1> QED BY <1>8 DEF n

LEMMA AppendKey ==
  ASSUME TypeInv, KeyInv, NEW u \in DOMAIN happened, ~Known(Key(u))
  PROVE  LET s == Append(keys, Key(u)) IN
         /\ Distinct(s) /\ OfUnlocks(s) /\ Len(s) = Len(keys) + 1 /\ Len(keys) \in Nat
         /\ \A i \in 1..Len(keys) : s[i] = keys[i]
         /\ s[Len(keys) + 1] = Key(u)
<1> DEFINE s == Append(keys, Key(u))
<1>1. /\ Len(s) = Len(keys) + 1 /\ Len(keys) \in Nat
      /\ \A i \in 1..Len(keys) : s[i] = keys[i]
      /\ s[Len(keys) + 1] = Key(u)
  BY HappenedTypes, AppendProperties, LenProperties DEF TypeInv, BootTypes
<1> HIDE DEF s
<1>2. \A i \in 1..Len(s) : i \in 1..Len(keys) \/ i = Len(keys) + 1
  BY <1>1
<1>3. Distinct(s)
  BY <1>1, <1>2 DEF KeyInv, Distinct, Known
<1>4. OfUnlocks(s)
  BY <1>1, <1>2 DEF KeyInv, OfUnlocks
<1> QED BY <1>1, <1>3, <1>4 DEF s

LEMMA RememberingKeeps ==
  ASSUME TypeInv, KeyInv, NEW u \in DOMAIN happened, Roomy
  PROVE  Remembering(Key(u)) = IF Known(Key(u)) THEN keys ELSE Append(keys, Key(u))
<1> DEFINE s == IF Known(Key(u)) THEN keys ELSE Append(keys, Key(u))
<1>1. DOMAIN happened \subseteq Unlock
  BY HappenedTypes
<1>2. Distinct(s) /\ OfUnlocks(s) /\ Len(s) \in Nat
  <2>1. CASE Known(Key(u))
    BY <2>1, LenProperties DEF KeyInv, TypeInv, BootTypes
  <2>2. CASE ~Known(Key(u))
    <3>1. s = Append(keys, Key(u))
      BY <2>2
    <3> QED BY <2>2, <3>1, AppendKey
  <2> QED BY <2>1, <2>2
<1>3. Remembering(Key(u)) = IF Len(s) > MaxKeys THEN Tail(s) ELSE s
  BY DEF Remembering
<1> HIDE DEF s
<1>4. Len(s) <= MaxKeys
  BY <1>1, <1>2, DistinctFits
<1>5. ~(Len(s) > MaxKeys)
  BY <1>2, <1>4, WindowAssumption
<1> QED BY <1>3, <1>5 DEF s

(* Afterwards the key is known, and so is what was known before.           *)
LEMMA RememberingKnows ==
  ASSUME TypeInv, KeyInv, NEW u \in DOMAIN happened, Roomy,
         keys' = Remembering(Key(u)), UNCHANGED happened
  PROVE  /\ KeyInv'
         /\ Known(Key(u))'
         /\ \A v \in DOMAIN happened : Known(Key(v)) => Known(Key(v))'
<1>1. CASE Known(Key(u))
  <2>1. keys' = keys
    BY <1>1, RememberingKeeps
  <2>2. \A v \in DOMAIN happened : Known(Key(v)) => Known(Key(v))'
    BY <2>1 DEF Known, Key
  <2>3. KeyInv'
    BY <2>1 DEF KeyInv, Distinct, OfUnlocks, Key
  <2> QED BY <1>1, <2>2, <2>3
<1>2. CASE ~Known(Key(u))
  <2>1. keys' = Append(keys, Key(u))
    BY <1>2, RememberingKeeps
  <2>2. /\ Distinct(keys') /\ OfUnlocks(keys') /\ Len(keys') = Len(keys) + 1
        /\ Len(keys) \in Nat /\ keys'[Len(keys) + 1] = Key(u)
        /\ \A i \in 1..Len(keys) : keys'[i] = keys[i]
    BY <1>2, <2>1, AppendKey
  <2>3. KeyInv'
    BY <2>2 DEF KeyInv, Distinct, OfUnlocks, Key
  <2>4. /\ Len(keys) + 1 \in 1..Len(keys')
        /\ \A i \in 1..Len(keys) : i \in 1..Len(keys')
    BY <2>2
  <2>5. Known(Key(u))'
    BY <2>2, <2>4 DEF Known, Key
  <2>6. \A v \in DOMAIN happened : Known(Key(v)) => Known(Key(v))'
    BY <2>2, <2>4 DEF Known, Key
  <2> QED BY <2>3, <2>5, <2>6
<1> QED BY <1>1, <1>2

LEMMA KeyInvUnchanged ==
  ASSUME TypeInv, KeyInv, UNCHANGED keys,
         DOMAIN happened \subseteq DOMAIN happened',
         \A v \in DOMAIN happened : happened'[v] = happened[v]
  PROVE  KeyInv' /\ \A v \in DOMAIN happened : Known(Key(v)) => Known(Key(v))'
<1>1. \A v \in DOMAIN happened : Key(v)' = Key(v)
  BY DEF Key
<1>2. OfUnlocks(keys)'
  BY <1>1 DEF KeyInv, OfUnlocks
<1>3. \A v \in DOMAIN happened : Known(Key(v)) => Known(Key(v))'
  BY <1>1 DEF Known
<1> QED BY <1>2, <1>3 DEF KeyInv, Distinct

(* Before the first restart a record that was announced is in the filter.  *)
RecordOnce ==
  \A u \in Unlock : announced[u].record # 0 =>
    announced[u].record = 1 /\ u \in DOMAIN happened /\ Known(Key(u))

RecordInv == restarts = 0 => seeded /\ KeyInv /\ RecordOnce

LEMMA RecordInvUnchanged ==
  ASSUME TypeInv, RecordInv, restarts = 0,
         UNCHANGED <<keys, seeded, restarts>>,
         \A v \in Unlock : announced'[v].record = announced[v].record,
         DOMAIN happened \subseteq DOMAIN happened',
         \A v \in DOMAIN happened : happened'[v] = happened[v]
  PROVE  RecordInv'
<1>1. KeyInv' /\ \A v \in DOMAIN happened : Known(Key(v)) => Known(Key(v))'
  BY KeyInvUnchanged DEF RecordInv
<1> QED BY <1>1 DEF RecordInv, RecordOnce

LEMMA NewRecordOnce ==
  ASSUME Roomy, TypeInv, RecordInv, restarts = 0, NEW u \in DOMAIN happened, NewRecord(u),
         UNCHANGED <<happened, seeded, restarts>>
  PROVE  RecordInv'
<1>1. keys' = Remembering(Key(u)) /\ KeyInv /\ u \in Unlock
  BY HappenedTypes DEF NewRecord, RecordInv
<1>2. KeyInv' /\ Known(Key(u))' /\ \A v \in DOMAIN happened : Known(Key(v)) => Known(Key(v))'
  BY <1>1, RememberingKnows
<1>3. ASSUME NEW v \in Unlock, announced'[v].record # 0
      PROVE  announced'[v].record = 1 /\ v \in DOMAIN happened' /\ Known(Key(v))'
  <2>1. CASE announced'[v].record = announced[v].record
    BY <1>2, <1>3, <2>1 DEF RecordInv, RecordOnce
  <2>2. CASE announced'[v].record # announced[v].record
    <3>1. v = u /\ ~MotorRecent /\ announced' = [announced EXCEPT ![u].record = Capped(@)]
      BY <2>2 DEF NewRecord, TypeInv, FieldTypes
    <3>2. ~Known(Key(u))
      BY <3>1 DEF NewRecord, FreshMotor
    <3>3. announced[u].record = 0
      BY <1>1, <3>2 DEF RecordInv, RecordOnce
    <3>4. announced'[u].record = 1
      BY <1>1, <3>1, <3>3 DEF Capped, TypeInv, FieldTypes
    <3> QED BY <1>2, <3>1, <3>4
  <2> QED BY <2>1, <2>2
<1> QED BY <1>2, <1>3 DEF RecordInv, RecordOnce

LEMMA RecordInvStep == Roomy /\ TypeInv /\ RecordInv /\ [Next]_vars => RecordInv'
<1> SUFFICES ASSUME Roomy, TypeInv, RecordInv, [Next]_vars PROVE RecordInv'
  OBVIOUS
<1>0. restarts \in Nat
  BY DEF TypeInv, BootTypes
<1>1. CASE Restart
  BY <1>0, <1>1 DEF Restart, RecordInv
<1>2. CASE ~Restart /\ restarts # 0
  <2>1. restarts' = restarts
    BY <1>2 DEF Next, SendUnlock, UnlockSent, UnlockFailed, RecordArrives, MotorArrives,
                DoorUnlocks, MotorStops, Connect, LinkDrops, Seed, Tick, vars, bootVars
  <2> QED BY <1>2, <2>1 DEF RecordInv
<1>3. CASE restarts = 0 /\ (\/ \E c \in Command : SendUnlock(c)
                            \/ UnlockSent \/ UnlockFailed \/ Tick \/ MotorStops
                            \/ Connect \/ LinkDrops \/ UNCHANGED vars)
  BY <1>3, RecordInvUnchanged
     DEF SendUnlock, UnlockSent, UnlockFailed, Tick, MotorStops, Connect, LinkDrops,
         vars, lockVars, bootVars
<1>4. ASSUME restarts = 0, NEW u \in Unlock, NEW who \in Source, DoorUnlocks(u, who)
      PROVE  RecordInv'
  <2>1. /\ DOMAIN happened \subseteq DOMAIN happened'
        /\ \A v \in DOMAIN happened : happened'[v] = happened[v]
    BY <1>4, Happens DEF TypeInv, LockTypes
  <2> QED BY <1>4, <2>1, RecordInvUnchanged DEF DoorUnlocks, bootVars
<1>5. ASSUME restarts = 0, NEW u \in Unlock, RecordArrives(u) PROVE RecordInv'
  <2>1. u \in DOMAIN happened /\ UNCHANGED <<happened, seeded, restarts>>
    BY <1>5 DEF RecordArrives, TypeInv, LockTypes, bootVars
  <2>2. CASE Duplicate(u)
    BY <1>5, <2>1, <2>2, RecordInvUnchanged DEF Duplicate
  <2>3. CASE NewRecord(u)
    BY <1>5, <2>1, <2>3, NewRecordOnce
  <2> QED BY <1>5, <2>2, <2>3 DEF RecordArrives
<1>6. CASE restarts = 0 /\ MotorArrives
  <2>1. UNCHANGED <<happened, keys, seeded, restarts>>
    BY <1>6 DEF MotorArrives, lockVars, bootVars
  <2>2. \A v \in Unlock : announced'[v].record = announced[v].record
    BY <1>6 DEF MotorArrives, TypeInv, FieldTypes
  <2> QED BY <1>6, <2>1, <2>2, RecordInvUnchanged
<1>7. CASE restarts = 0 /\ Seed
  BY <1>7 DEF Seed, RecordInv
<1> QED BY <1>1, <1>2, <1>3, <1>4, <1>5, <1>6, <1>7 DEF Next

LEMMA RecordInvariant == Roomy => (Spec => []RecordInv)
<1>1. Init => RecordInv
  <2> SUFFICES ASSUME Init PROVE RecordInv
    OBVIOUS
  <2>1. Len(keys) = 0
    BY DEF Init
  <2> QED BY <2>1 DEF Init, RecordInv, KeyInv, Distinct, OfUnlocks, RecordOnce
<1>2. ASSUME Roomy PROVE Spec => []RecordInv
  <2>1. TypeInv /\ RecordInv /\ [Next]_vars => RecordInv'
    BY <1>2, RecordInvStep
  <2> QED BY <1>1, <2>1, TypeInvariant, PTL DEF Spec
<1> QED BY <1>2

LEMMA MotorAtMostOnce == TypeInv /\ MotorOnce => \A u \in Unlock : announced[u].motor <= 1
<1> SUFFICES ASSUME TypeInv, MotorOnce, NEW u \in Unlock PROVE announced[u].motor <= 1
  OBVIOUS
<1>1. announced[u].motor = 0 \/ announced[u].motor = 1
  BY DEF MotorOnce, Announced
<1> QED BY <1>1

(* Motor runs are announced at most once, across restarts too.             *)
THEOREM MotorOnceHolds == Spec => [](\A u \in Unlock : announced[u].motor <= 1)
BY MotorAtMostOnce, TypeInvariant, MotorOnceInvariant, PTL

(* Until Home Assistant restarts, and for as many unlocks as the filter    *)
(* has room for, an unlock is announced at most once by its motor and once *)
(* by its record, whatever is repeated, lost or late (_recent_event_keys). *)
THEOREM AnnouncedOnceHolds ==
  ASSUME Roomy
  PROVE  Spec => [](restarts = 0 => AnnouncedOnceEach)
<1>1. TypeInv /\ MotorOnce /\ RecordInv => (restarts = 0 => AnnouncedOnceEach)
  <2> SUFFICES ASSUME TypeInv, MotorOnce, RecordInv, restarts = 0, NEW u \in Unlock
               PROVE  announced[u].motor <= 1 /\ announced[u].record <= 1
    BY DEF AnnouncedOnceEach
  <2>1. announced[u].record = 0 \/ announced[u].record = 1
    BY DEF RecordInv, RecordOnce
  <2> QED BY <2>1, MotorAtMostOnce
<1>2. Spec => []RecordInv
  BY RecordInvariant
<1> QED BY <1>1, <1>2, TypeInvariant, MotorOnceInvariant, PTL

(* The same as the run checks it, where nothing restarts.                  *)
THEOREM AnnouncedOnceEachHolds ==
  ASSUME Roomy, MaxRestarts = 0
  PROVE  Spec => []AnnouncedOnceEach
<1>1. TypeInv => restarts = 0
  BY DEF TypeInv, BootTypes
<1> QED BY <1>1, TypeInvariant, AnnouncedOnceHolds, PTL

-----------------------------------------------------------------------------
(* A restart.  What the sensor saved is a record with its own time stamp   *)
(* and a known user, so that its key is built again when it is added.      *)

Shown(u, ts, known) == u # None => known /\ ts = happened[u].at /\ ts # 0

(* No clock shows 0, which stands for no time stamp.                       *)
ClockInv == now >= 1 /\ \A u \in DOMAIN happened : happened[u].at # 0

SeedInv ==
  /\ KeyInv /\ ClockInv
  /\ restarts = 0 => seeded /\ saved.last = None /\ Shown(last, lastTs, userKnown)
  /\ Shown(saved.last, saved.ts, saved.user)
  /\ seeded /\ saved.last # None => Known(Key(saved.last))

LEMMA SeedInvUnchanged ==
  ASSUME TypeInv, SeedInv,
         UNCHANGED <<keys, seeded, saved, restarts, last, lastTs, userKnown>>,
         ClockInv', DOMAIN happened \subseteq DOMAIN happened',
         \A v \in DOMAIN happened : happened'[v] = happened[v]
  PROVE  SeedInv'
<1>1. KeyInv' /\ \A v \in DOMAIN happened : Known(Key(v)) => Known(Key(v))'
  BY KeyInvUnchanged DEF SeedInv
<1>2. last \in DOMAIN happened \cup {None} /\ saved.last \in DOMAIN happened \cup {None}
  BY DEF TypeInv, FieldTypes, BootTypes
<1>3. Shown(saved.last, saved.ts, saved.user)'
  BY <1>2 DEF SeedInv, Shown
<1>4. restarts' = 0 => seeded' /\ saved'.last = None /\ Shown(last, lastTs, userKnown)'
  BY <1>2 DEF SeedInv, Shown
<1>5. seeded' /\ saved'.last # None => Known(Key(saved.last))'
  <2> SUFFICES ASSUME seeded', saved'.last # None PROVE Known(Key(saved.last))'
    OBVIOUS
  <2>1. PICK v \in DOMAIN happened : v = saved.last
    BY <1>2
  <2>2. Known(Key(v))'
    BY <1>1, <2>1 DEF SeedInv
  <2>3. saved'.last = v
    BY <2>1
  <2> QED BY <2>2, <2>3 DEF Key, Known
<1> QED BY <1>1, <1>3, <1>4, <1>5 DEF SeedInv

LEMMA NewRecordSeed ==
  ASSUME Roomy, TypeInv, SeedInv, NEW u \in DOMAIN happened, NewRecord(u),
         UNCHANGED <<now, happened, seeded, saved, restarts>>
  PROVE  SeedInv'
<1>1. keys' = Remembering(Key(u)) /\ KeyInv /\ u # None
  BY HappenedTypes, NameAssumption DEF NewRecord, SeedInv
<1>2. KeyInv' /\ \A v \in DOMAIN happened : Known(Key(v)) => Known(Key(v))'
  BY <1>1, RememberingKnows
<1>3. restarts' = 0 => seeded' /\ saved'.last = None /\ Shown(last, lastTs, userKnown)'
  <2>1. CASE UNCHANGED <<last, userKnown, lastTs>>
    BY <2>1 DEF SeedInv, Shown
  <2>2. CASE last' = u /\ userKnown' = TRUE /\ lastTs' = happened[u].at
    BY <2>2 DEF SeedInv, ClockInv, Shown
  <2> QED BY <2>1, <2>2 DEF NewRecord
<1>4. seeded' /\ saved'.last # None => Known(Key(saved.last))'
  <2> SUFFICES ASSUME seeded', saved'.last # None PROVE Known(Key(saved.last))'
    OBVIOUS
  <2>1. PICK v \in DOMAIN happened : v = saved.last
    BY DEF TypeInv, BootTypes
  <2>2. Known(Key(v))' /\ saved'.last = v
    BY <1>2, <2>1 DEF SeedInv
  <2> QED BY <2>2 DEF Key, Known
<1> QED BY <1>2, <1>3, <1>4 DEF SeedInv, ClockInv, Shown

(* The sensor is added: its record enters the filter.                      *)
LEMMA SeedSeed == ASSUME TypeInv, SeedInv, Seed PROVE SeedInv'
<1>1. /\ ~seeded /\ keys' = SeededKeys
      /\ UNCHANGED <<now, happened, saved, restarts>>
  BY DEF Seed, lockVars
<1>2. restarts # 0
  BY <1>1 DEF SeedInv
<1>3. CASE saved.last = None
  <2>1. keys' = keys
    BY <1>1, <1>3 DEF SeededKeys
  <2> QED BY <1>1, <1>2, <1>3, <2>1 DEF SeedInv, KeyInv, Distinct, OfUnlocks, Key, ClockInv, Shown
<1>4. CASE saved.last # None
  <2>1. PICK v \in DOMAIN happened : v = saved.last
    BY <1>4 DEF TypeInv, BootTypes
  <2>2. /\ saved.ts # 0 /\ saved.user /\ saved.ts = happened[v].at
        /\ Baseline = Key(v)
    BY <1>4, <2>1 DEF SeedInv, Shown, Baseline, Key
  <2>3. keys' = IF Known(Key(v)) THEN keys ELSE Append(keys, Key(v))
    BY <1>1, <1>4, <2>2 DEF SeededKeys
  <2>4. KeyInv' /\ Known(Key(v))'
    <3>1. CASE Known(Key(v))
      <4>1. keys' = keys
        BY <2>3, <3>1
      <4> QED BY <1>1, <3>1, <4>1 DEF SeedInv, KeyInv, Distinct, OfUnlocks, Key, Known
    <3>2. CASE ~Known(Key(v))
      <4>1. keys' = Append(keys, Key(v)) /\ KeyInv
        BY <2>3, <3>2 DEF SeedInv
      <4>2. /\ Distinct(keys') /\ OfUnlocks(keys') /\ Len(keys') = Len(keys) + 1
            /\ Len(keys) \in Nat /\ keys'[Len(keys) + 1] = Key(v)
        BY <3>2, <4>1, AppendKey
      <4>3. Len(keys) + 1 \in 1..Len(keys')
        BY <4>2
      <4> QED BY <1>1, <4>2, <4>3 DEF KeyInv, Distinct, OfUnlocks, Key, Known
    <3> QED BY <3>1, <3>2
  <2>5. Known(Key(saved.last))'
    BY <1>1, <2>1, <2>4 DEF Key, Known
  <2> QED BY <1>1, <1>2, <2>4, <2>5 DEF SeedInv, ClockInv, Shown
<1> QED BY <1>3, <1>4

LEMMA SeedInvStep ==
  Roomy /\ MaxRestarts <= 1 /\ TypeInv /\ SeedInv /\ [Next]_vars => SeedInv'
<1> SUFFICES ASSUME Roomy, MaxRestarts <= 1, TypeInv, SeedInv, [Next]_vars PROVE SeedInv'
  OBVIOUS
<1>c. ClockInv
  BY DEF SeedInv
<1>1. CASE \/ \E c \in Command : SendUnlock(c)
           \/ UnlockSent \/ UnlockFailed \/ MotorStops \/ Connect \/ LinkDrops \/ UNCHANGED vars
  <2>1. UNCHANGED <<now, happened, keys, seeded, saved, restarts, last, lastTs, userKnown>>
    BY <1>1 DEF SendUnlock, UnlockSent, UnlockFailed, MotorStops, Connect, LinkDrops,
                vars, lockVars, bootVars, fieldVars
  <2> QED BY <1>c, <2>1, SeedInvUnchanged DEF ClockInv
<1>2. CASE Tick
  <2>1. /\ now' = now + 1 /\ now \in Nat
        /\ UNCHANGED <<happened, keys, seeded, saved, restarts, last, lastTs, userKnown>>
    BY <1>2 DEF Tick, lockVars, bootVars, fieldVars, TypeInv, LockTypes, Time
  <2>2. ClockInv'
    BY <1>c, <2>1 DEF ClockInv
  <2> QED BY <2>1, <2>2, SeedInvUnchanged
<1>3. ASSUME NEW u \in Unlock, NEW who \in Source, DoorUnlocks(u, who) PROVE SeedInv'
  <2>1. /\ DOMAIN happened' = DOMAIN happened \cup {u}
        /\ happened'[u] = [at |-> now, who |-> who]
        /\ \A v \in DOMAIN happened : happened'[v] = happened[v]
    BY <1>3, Happens DEF TypeInv, LockTypes
  <2>2. happened'[u].at = now
    BY <2>1
  <2>3. UNCHANGED <<now, keys, seeded, saved, restarts, last, lastTs, userKnown>>
    BY <1>3 DEF DoorUnlocks, bootVars, fieldVars
  <2>4. now \in Nat
    BY DEF TypeInv, LockTypes, Time
  <2>5. ClockInv'
    BY <1>c, <2>1, <2>2, <2>3, <2>4 DEF ClockInv
  <2> QED BY <2>1, <2>3, <2>5, SeedInvUnchanged
<1>4. ASSUME NEW u \in Unlock, RecordArrives(u) PROVE SeedInv'
  <2>1. u \in DOMAIN happened /\ UNCHANGED <<now, happened, seeded, saved, restarts>>
    BY <1>4 DEF RecordArrives, TypeInv, LockTypes, bootVars
  <2>2. CASE Duplicate(u)
    BY <1>c, <2>1, <2>2, SeedInvUnchanged DEF Duplicate, fieldVars, ClockInv
  <2>3. CASE NewRecord(u)
    BY <2>1, <2>3, NewRecordSeed
  <2> QED BY <1>4, <2>2, <2>3 DEF RecordArrives
<1>5. CASE MotorArrives
  <2>1. UNCHANGED <<now, happened, keys, seeded, saved, restarts, lastTs>>
    BY <1>5 DEF MotorArrives, lockVars, bootVars
  <2>2. \/ UNCHANGED <<last, userKnown>>
        \/ last' = LastAfterRun /\ userKnown' = (userKnown /\ Confirmed)
    BY <1>5 DEF MotorArrives
  <2>3. Shown(last, lastTs, userKnown) => Shown(last, lastTs, userKnown)'
    <3>1. CASE UNCHANGED <<last, userKnown>>
      BY <2>1, <3>1 DEF Shown
    <3>2. CASE last' = LastAfterRun /\ userKnown' = (userKnown /\ Confirmed)
      BY <2>1, <3>2 DEF Shown, LastAfterRun
    <3> QED BY <2>2, <3>1, <3>2
  <2>4. KeyInv' /\ ClockInv'
    BY <1>c, <2>1, KeyInvUnchanged DEF SeedInv, ClockInv
  <2> QED BY <2>1, <2>3, <2>4 DEF SeedInv, Shown, Known, Key
<1>6. CASE Restart
  <2>1. restarts = 0 /\ restarts' # 0
    BY <1>6, WindowAssumption DEF Restart, TypeInv, BootTypes
  <2>2. /\ UNCHANGED <<now, happened>> /\ seeded' = FALSE /\ Len(keys') = 0
        /\ saved' = [ts |-> lastTs, last |-> last, user |-> userKnown, history |-> history]
    BY <1>6, <2>1 DEF Restart, lockVars, SeedInv
  <2>3. KeyInv' /\ ClockInv'
    BY <1>c, <2>2 DEF KeyInv, Distinct, OfUnlocks, ClockInv
  <2>4. Shown(saved.last, saved.ts, saved.user)'
    <3>1. saved'.last = last /\ saved'.ts = lastTs /\ saved'.user = userKnown
      BY <2>2
    <3> QED BY <2>1, <2>2, <3>1 DEF SeedInv, Shown
  <2> QED BY <2>1, <2>2, <2>3, <2>4 DEF SeedInv
<1> QED BY <1>1, <1>2, <1>3, <1>4, <1>5, <1>6, SeedSeed DEF Next

LEMMA SeedInvInit == Init => SeedInv
<1> SUFFICES ASSUME Init PROVE SeedInv
  OBVIOUS
<1>1. Len(keys) = 0
  BY DEF Init
<1>2. KeyInv
  BY <1>1 DEF KeyInv, Distinct, OfUnlocks
<1>3. ClockInv
  BY DEF Init, ClockInv, Never
<1>4. saved.last = None
  BY DEF Init, NothingSaved
<1> QED BY <1>2, <1>3, <1>4 DEF Init, SeedInv, Shown

LEMMA SeededKnows ==
  TypeInv /\ SeedInv /\ [Next]_vars =>
    [\A u \in Unlock : seeded /\ announced'[u].record > announced[u].record
                         => u # saved.last]_vars
<1> SUFFICES ASSUME TypeInv, SeedInv, Next, NEW u \in Unlock, seeded,
                    announced'[u].record > announced[u].record, u = saved.last
             PROVE  FALSE
  OBVIOUS
<1>1. /\ announced[u].record \in Nat
      /\ announced \in [Unlock -> [motor : 0..2, record : 0..2]]
  BY DEF TypeInv, FieldTypes
<1>2. announced'[u].record # announced[u].record
  BY <1>1
<1>3. ~MotorArrives
  <2> SUFFICES ASSUME MotorArrives PROVE announced'[u].record = announced[u].record
    BY <1>2
  <2> QED BY DEF MotorArrives, TypeInv, FieldTypes
<1>4. PICK v \in Unlock : RecordArrives(v)
  BY <1>2, <1>3 DEF Next, SendUnlock, UnlockSent, UnlockFailed, DoorUnlocks, MotorStops,
                    Connect, LinkDrops, Restart, Seed, Tick
<1>5. NewRecord(v)
  BY <1>2, <1>4 DEF RecordArrives, Duplicate
<1>6. v = u /\ ~MotorRecent
  BY <1>1, <1>2, <1>5 DEF NewRecord
<1>7. ~Known(Key(u))
  BY <1>5, <1>6 DEF NewRecord, FreshMotor
<1> QED BY <1>7, NameAssumption DEF SeedInv

(* After a restart the record that the sensor shows is in the filter again *)
(* and announces nothing (async_added_to_hass, seed_unlock_baseline).  One *)
(* restart only: the user id is not put back, so that the sensor saves no  *)
(* key the next time.                                                      *)
THEOREM SeededStaysQuietHolds ==
  ASSUME Roomy, MaxRestarts <= 1
  PROVE  Spec => SeededStaysQuiet
<1>1. TypeInv /\ SeedInv /\ [Next]_vars => SeedInv'
  BY SeedInvStep
<1> QED BY <1>1, SeedInvInit, SeededKnows, TypeInvariant, PTL DEF Spec, SeededStaysQuiet

-----------------------------------------------------------------------------
(* The newest unlock owns the fields.                                      *)

(* Nothing live precedes the record whose time the fields hold.            *)
BurstBound ==
  /\ \A u \in burst : happened[u].at <= lastTs
  /\ burst = {} => lastTs = 0

(* The record shown is one of the burst; none is shown while a motor run   *)
(* waits for its record, and before the first record.                      *)
ShowsOwner ==
  IF last = None THEN burst = {} \/ ~claimed
  ELSE last \in burst /\ lastTs = happened[last].at

(* A matched report that waits for its run is shown.                       *)
ReportShown == before.cmd # None => last # None

OwnInv == restarts = 0 => seeded /\ BurstBound /\ ShowsOwner /\ ReportShown

LEMMA OwnInvUnchanged ==
  ASSUME TypeInv, OwnInv, DOMAIN happened \subseteq DOMAIN happened',
         \A v \in DOMAIN happened : happened'[v] = happened[v],
         UNCHANGED <<last, lastTs, burst, claimed, before, seeded, restarts>>
  PROVE  OwnInv'
<1>1. burst \subseteq DOMAIN happened
  BY DEF TypeInv, FieldTypes
<1> QED BY <1>1 DEF OwnInv, BurstBound, ShowsOwner, ReportShown

(* A live record joins the burst, or begins one for its motor run, and     *)
(* takes the fields unless a newer one has them; a history record changes  *)
(* neither.                                                                *)
LEMMA NewRecordOwns ==
  ASSUME TypeInv, OwnInv, NEW u \in DOMAIN happened, NewRecord(u),
         UNCHANGED <<happened, seeded, restarts>>
  PROVE  OwnInv'
<1>0. /\ u # None
      /\ happened[u].at \in Nat /\ lastTs \in Nat
      /\ burst \subseteq DOMAIN happened
      /\ \A v \in DOMAIN happened : happened[v].at \in Nat
  BY HappenedTypes, NameAssumption DEF TypeInv, FieldTypes, Time
<1>1. SUFFICES ASSUME restarts = 0 PROVE BurstBound' /\ ShowsOwner' /\ ReportShown'
  BY DEF OwnInv
<1>2. BurstBound /\ ShowsOwner /\ ReportShown
  BY <1>1 DEF OwnInv
<1>3. CASE FreshMotor
  <2>1. burst' = {u} /\ last' = u /\ lastTs' = happened[u].at
    BY <1>3 DEF NewRecord, Live, Supersedes
  <2> QED BY <1>0, <2>1 DEF BurstBound, ShowsOwner, ReportShown
<1>4. CASE ~FreshMotor /\ Live(u) /\ happened[u].at >= lastTs
  <2>1. burst' = burst \cup {u} /\ last' = u /\ lastTs' = happened[u].at
    BY <1>4 DEF NewRecord, Supersedes
  <2>2. \A v \in burst : happened[v].at <= happened[u].at
    BY <1>0, <1>2, <1>4 DEF BurstBound
  <2> QED BY <1>0, <2>1, <2>2 DEF BurstBound, ShowsOwner, ReportShown
<1>5. CASE ~FreshMotor /\ Live(u) /\ ~(happened[u].at >= lastTs)
  <2>1. /\ burst' = burst \cup {u} /\ UNCHANGED <<last, lastTs, before>>
        /\ claimed' = claimed \/ claimed' = (claimed \/ FALSE)
    BY <1>5 DEF NewRecord, Supersedes
  <2>2. lastTs # 0 /\ happened[u].at <= lastTs
    BY <1>0, <1>5
  <2>3. last = None => ~claimed'
    BY <1>2, <2>1, <2>2 DEF BurstBound, ShowsOwner
  <2> QED BY <1>0, <1>2, <2>1, <2>2, <2>3 DEF BurstBound, ShowsOwner, ReportShown
<1>6. CASE ~FreshMotor /\ ~Live(u)
  <2>1. UNCHANGED <<burst, last, lastTs, before>> /\ (claimed' => claimed)
    BY <1>6 DEF NewRecord
  <2> QED BY <1>2, <2>1 DEF BurstBound, ShowsOwner, ReportShown
<1> QED BY <1>3, <1>4, <1>5, <1>6

(* A motor run keeps the record shown when it is its own, and clears it    *)
(* else.                                                                   *)
LEMMA MotorOwns == ASSUME OwnInv, MotorArrives PROVE OwnInv'
<1>1. UNCHANGED <<happened, lastTs, burst, seeded, restarts>>
  BY DEF MotorArrives, lockVars, bootVars
<1>2. CASE UNCHANGED <<last, claimed, before>>
  BY <1>1, <1>2 DEF OwnInv, BurstBound, ShowsOwner, ReportShown
<1>3. CASE claimed' = Confirmed /\ last' = LastAfterRun /\ before' = NoReport
  <2>1. SUFFICES ASSUME restarts = 0 PROVE BurstBound' /\ ShowsOwner' /\ ReportShown'
    BY <1>1 DEF OwnInv
  <2>2. BurstBound /\ ShowsOwner /\ ReportShown
    BY <2>1 DEF OwnInv
  <2>3. CASE Confirmed
    <3>1. last' = last /\ last # None
      BY <1>3, <2>2, <2>3 DEF LastAfterRun, Confirmed, ReportShown
    <3> QED BY <1>1, <1>3, <2>2, <3>1 DEF BurstBound, ShowsOwner, ReportShown, NoReport
  <2>4. CASE ~Confirmed
    <3>1. last' = None /\ ~claimed'
      BY <1>3, <2>4 DEF LastAfterRun
    <3> QED BY <1>1, <1>3, <2>2, <3>1 DEF BurstBound, ShowsOwner, ReportShown, NoReport
  <2> QED BY <2>3, <2>4
<1> QED BY <1>2, <1>3 DEF MotorArrives, ReportAfterRun

LEMMA OwnInvStep == TypeInv /\ OwnInv /\ [Next]_vars => OwnInv'
<1> SUFFICES ASSUME TypeInv, OwnInv, [Next]_vars PROVE OwnInv'
  OBVIOUS
<1>1. CASE \/ \E c \in Command : SendUnlock(c)
           \/ UnlockSent \/ UnlockFailed \/ MotorStops \/ Connect \/ LinkDrops
           \/ Tick \/ UNCHANGED vars
  <2>1. UNCHANGED <<happened, last, lastTs, burst, claimed, before, seeded, restarts>>
    BY <1>1 DEF SendUnlock, UnlockSent, UnlockFailed, MotorStops, Connect, LinkDrops,
                Tick, vars, lockVars, fieldVars, bootVars
  <2> QED BY <2>1, OwnInvUnchanged
<1>2. ASSUME NEW u \in Unlock, NEW who \in Source, DoorUnlocks(u, who) PROVE OwnInv'
  <2>1. /\ DOMAIN happened \subseteq DOMAIN happened'
        /\ \A v \in DOMAIN happened : happened'[v] = happened[v]
    BY <1>2, Happens DEF TypeInv, LockTypes
  <2>2. UNCHANGED <<last, lastTs, burst, claimed, before, seeded, restarts>>
    BY <1>2 DEF DoorUnlocks, fieldVars, bootVars
  <2> QED BY <2>1, <2>2, OwnInvUnchanged
<1>3. ASSUME NEW u \in Unlock, RecordArrives(u) PROVE OwnInv'
  <2>1. u \in DOMAIN happened /\ UNCHANGED <<happened, seeded, restarts>>
    BY <1>3 DEF RecordArrives, bootVars, TypeInv, LockTypes
  <2>2. CASE Duplicate(u)
    <3>1. UNCHANGED <<last, lastTs, burst, claimed, before>>
      BY <2>2 DEF Duplicate, fieldVars
    <3> QED BY <2>1, <3>1, OwnInvUnchanged
  <2>3. CASE NewRecord(u)
    BY <2>1, <2>3, NewRecordOwns
  <2> QED BY <1>3, <2>2, <2>3 DEF RecordArrives
<1>4. CASE Restart
  <2>1. restarts' # 0
    BY <1>4, WindowAssumption DEF Restart, TypeInv, BootTypes
  <2> QED BY <2>1 DEF OwnInv
<1>5. CASE Seed
  <2>1. restarts # 0 /\ UNCHANGED restarts
    BY <1>5 DEF Seed, OwnInv
  <2> QED BY <2>1 DEF OwnInv
<1> QED BY <1>1, <1>2, <1>3, <1>4, <1>5, MotorOwns DEF Next

LEMMA OwnInvInit == Init => OwnInv
BY DEF Init, NoReport, OwnInv, BurstBound, ShowsOwner, ReportShown

(* Of the live records since a motor run was last given its record, the    *)
(* newest one owns the fields; a record that is history never does         *)
(* (_process_dp_reports), whatever repeats, commands, drops and late motor *)
(* values come between, before or after the motor value of the unlock.     *)
THEOREM NewestOwnsFieldsHolds == Spec => []NewestOwnsFields
<1>1. OwnInv => NewestOwnsFields
  BY DEF OwnInv, BurstBound, ShowsOwner, NewestOwnsFields
<1> QED BY <1>1, OwnInvInit, OwnInvStep, TypeInvariant, PTL DEF Spec

=============================================================================
