----------------------------- MODULE MCLockLink -----------------------------
(***************************************************************************)
(* Small instances of LockLink.                                            *)
(***************************************************************************)
EXTENDS LockLink, TLC

Symmetry == Permutations(Client)

=============================================================================
