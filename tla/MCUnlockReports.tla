-------------------------- MODULE MCUnlockReports --------------------------
(***************************************************************************)
(* Small instances of UnlockReports.  The windows are in ticks and in the  *)
(* order of the source (1, 5, 20, 30, 300 s), though some coincide; each   *)
(* one is shorter than the run, so that a report may come too late for it. *)
(***************************************************************************)
EXTENDS UnlockReports, TLC

(* No action names an unlock, a command or a user.                         *)
Symmetry == Permutations(Unlock) \cup Permutations(Command) \cup Permutations(User)

=============================================================================
