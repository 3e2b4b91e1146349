---------------------------- MODULE WorkspaceRoster ----------------------------
(***************************************************************************)
(* What a workspace promises about who belongs to it: people join as less  *)
(* than its owner, leave, get another role, and the owner goes only by     *)
(* handing the workspace over to somebody who is in it, or by dissolving   *)
(* it for good.  The promise about the owner ends when a write is lost.    *)
(***************************************************************************)
CONSTANTS
  User,
  Founder,     \* owns the workspace at first
  Staff        \* the roles of the others, then

VARIABLES
  role,        \* what each user is in the workspace
  dissolved,
  overwritten  \* a write has been lost

Lesser == {"admin", "member"}

Init ==
  /\ role = [u \in User |-> IF u = Founder THEN "owner" ELSE Staff[u]]
  /\ dissolved = FALSE
  /\ overwritten = FALSE

Join(u, as) ==
  /\ role[u] = "none"
  /\ role' = [role EXCEPT ![u] = as]
  /\ UNCHANGED <<dissolved, overwritten>>

\* u leaves, or gets another role.
Change(u, as) ==
  /\ role[u] # "none"
  /\ overwritten' \in {overwritten, TRUE}
  /\ role[u] = "owner" => overwritten'
  /\ role' = [role EXCEPT ![u] = as]
  /\ UNCHANGED dissolved

HandOver(from, to) ==
  /\ role[from] = "owner" /\ role[to] \in Lesser
  /\ role' = [role EXCEPT ![from] = "admin", ![to] = "owner"]
  /\ UNCHANGED <<dissolved, overwritten>>

\* Of a transfer computed from rows that have changed, either half may be
\* written, to anybody who is in the workspace.
HalfHandOver(from, to) ==
  /\ overwritten' = TRUE
  /\ \E out \in {role[from], "admin"}, in \in {role[to], "owner"} :
       role' = [role EXCEPT ![from] = out, ![to] = in]
  /\ \A u \in User : role[u] = "none" => role'[u] = "none"
  /\ UNCHANGED dissolved

Dissolve ==
  /\ dissolved' = TRUE
  /\ role' = [u \in User |-> "none"]
  /\ UNCHANGED overwritten

Next ==
  /\ ~dissolved
  /\ \/ \E u \in User, as \in Lesser : Join(u, as)
     \/ \E u \in User, as \in Lesser \cup {"none"} : Change(u, as)
     \/ \E from, to \in User : from # to /\ (HandOver(from, to) \/ HalfHandOver(from, to))
     \/ Dissolve

Spec == Init /\ [][Next]_<<role, dissolved, overwritten>>
=============================================================================
