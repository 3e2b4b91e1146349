------------------------------- MODULE MCPeople -------------------------------
(***************************************************************************)
(* Accounts and Workspaces share no state: a workspace takes the id of     *)
(* whoever has a session.  So each is explored by itself, in one run.      *)
(***************************************************************************)
EXTENDS Accounts, MCWorkspaces

VARIABLE side

Init ==
  /\ AccountsInit
  /\ WorkspacesInit
  /\ side \in {"accounts", "workspaces"}
  /\ side = "workspaces" => account = [u \in UserId |-> NoAccount]

Next ==
  \/ side = "accounts" /\ AccountsNext /\ UNCHANGED <<side, workspaceVars>>
  \/ side = "workspaces" /\ WorkspacesNext /\ UNCHANGED <<side, accountVars>>

Spec == Init /\ [][Next]_<<side, accountVars, workspaceVars>>

\* Both parts keep their types.
TypesKept == AccountTypes /\ WorkspaceTypes

Interchangeable == Permutations(Session) \cup AnyRequest
  \cup Permutations(Address) \cup Permutations(Password)
  \cup Permutations(Identity)
=============================================================================
