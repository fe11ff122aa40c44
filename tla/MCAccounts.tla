------------------------------ MODULE MCAccounts ------------------------------
(***************************************************************************)
(* Instances of Accounts for TLC.                                          *)
(***************************************************************************)
EXTENDS Accounts, TLC

AccountSymmetry ==
  Permutations(User) \cup Permutations(Session) \cup Permutations(Link) \cup Permutations(Handler)
=============================================================================
