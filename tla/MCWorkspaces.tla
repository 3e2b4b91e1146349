----------------------------- MODULE MCWorkspaces -----------------------------
(***************************************************************************)
(* One colleague is an admin, everybody else is still outside.             *)
(***************************************************************************)
EXTENDS Workspaces, TLC

CONSTANT Colleague

OneAdmin == [u \in User |-> IF u = Colleague THEN "admin" ELSE "none"]

AnyRequest == Permutations(Request)
=============================================================================
