------------------------------ MODULE KeyLedger ------------------------------
(***************************************************************************)
(* What device_store.py promises of the keys of locks, whoever writes them *)
(* (docs/integration.md:66-84): the keys ever seen for a lock are only     *)
(* added to, and neither a lock is paired with keys nor the running        *)
(* integration given keys that are not among them.                         *)
(***************************************************************************)
EXTENDS Sequences, SequencesExt

CONSTANTS Mac,      \* the locks, by address
          Keys,     \* sets of keys of a lock
          NoKeys    \* no record of a lock

VARIABLES known,    \* what DeviceKeyRegistry has of each lock, oldest first
          inUse,    \* the keys the running integration has of each lock
          paired    \* the keys the integration has paired each lock with

ledger == <<known, inUse, paired>>

Known(m) == Range(known[m])

Init == /\ known = [m \in Mac |-> <<>>]
        /\ inUse = [m \in Mac |-> NoKeys]
        /\ paired = [m \in Mac |-> {}]

\* Keys are learnt: histories grow at their ends.
Learn == /\ known' \in [Mac -> Seq(Keys)]
         /\ \A m \in Mac : IsPrefix(known[m], known'[m])
         /\ UNCHANGED <<inUse, paired>>

\* The integration starts, stops, takes up or drops keys.
Use == /\ inUse' \in [Mac -> Keys \union {NoKeys}]
       /\ \A m \in Mac : inUse'[m] \in Known(m) \union {NoKeys}
       /\ UNCHANGED <<known, paired>>

\* A lock is paired.
Pair(m) == \E k \in Known(m) :
             /\ paired' = [paired EXCEPT ![m] = @ \union {k}]
             /\ UNCHANGED <<known, inUse>>

Next == Learn \/ Use \/ (\E m \in Mac : Pair(m))

Spec == Init /\ [][Next]_ledger

(***************************************************************************)
(* No keys that a lock was paired with, or that are in use, are ever lost: *)
(* they stay in the history, whatever crashes, refreshes and removals do.  *)
(***************************************************************************)
NothingLost == \A m \in Mac : /\ paired[m] \subseteq Known(m)
                              /\ inUse[m] \in Known(m) \union {NoKeys}
=============================================================================
