-------------------------- MODULE MCTempPasswords --------------------------
(***************************************************************************)
(* Instances of TempPasswords for TLC.                                     *)
(***************************************************************************)
EXTENDS TempPasswords, TLC

(* Locks, slots and password ids are interchangeable.                      *)
Symmetry == Permutations(Lock) \cup Permutations(Slot) \cup Permutations(Id)
=============================================================================
