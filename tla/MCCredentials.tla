---------------------------- MODULE MCCredentials ----------------------------
(***************************************************************************)
(* Instances of Credentials for TLC.                                       *)
(***************************************************************************)
EXTENDS Credentials, TLC

(* Locks, slots, names and ids are interchangeable.                        *)
Symmetry == Permutations(Lock) \cup Permutations(Hw) \cup Permutations(Name)
              \cup Permutations(Id)
=============================================================================
