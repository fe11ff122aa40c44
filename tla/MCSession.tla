------------------------------ MODULE MCSession ------------------------------
(* The session of one browser by itself: a parent's and an administrator's. *)
EXTENDS WebSession, TLC

CONSTANTS mum, root
AccountRoles == mum :> "parent" @@ root :> "admin"

\* One request is as good as another.
RequestSymmetry == Permutations(Req)
=============================================================================
