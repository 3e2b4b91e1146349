---------------------------- MODULE WorkspacesProofs ----------------------------
(***************************************************************************)
(* What holds of a workspace for any number of members and of requests     *)
(* that interleave between their admission, their reads and their commits. *)
(*                                                                         *)
(* The single owner is kept because a request that has read its rows       *)
(* carries what it has checked of them (ReadGood): a role change has read  *)
(* a target below the caller, a transfer a caller who owns the workspace,  *)
(* a departure either no owner or another owner beside it.  Unless its     *)
(* rows have changed since, the commit finds them so.                      *)
(***************************************************************************)
EXTENDS Workspaces, TLAPS

AdmittedRequest ==
  [st : {"admitted"}, op : Operation, by : User, role : Roles, to : User,
   as : Invitable, patch : Patch \cup {NoPatch}]
ReadRequest ==
  [st : {"read"}, op : Operation, by : User, role : Roles, to : User,
   as : Invitable, patch : Patch \cup {NoPatch},
   target : Seat, caller : Seat, others : BOOLEAN, offer : Invite, found : Settings]

\* What an admitted request is, and one that has read its rows as well.
RequestGood(q) ==
  q # Idle => /\ q.op = "transfer" => q.to # q.by
              /\ q.op = "settings" => q.patch \in Patch

ReadGood(q) ==
  q.st = "read" =>
    /\ q.op \in {"leave", "remove"} => q.target.role # "none"
    /\ q.op \in {"leave", "remove"} /\ q.target.role = "owner" => q.others
    /\ q.op = "role" => q.target.role # "owner"
    /\ q.op = "transfer" => q.caller.role = "owner" /\ q.target.role # "none"

WorkspaceInv ==
  /\ WorkspaceTypes
  /\ \A r \in Request : RequestGood(req[r]) /\ ReadGood(req[r])
  /\ OneOwnerUnlessLostUpdate
  /\ DeletedLeavesNothing
  /\ OverridesKept

-----------------------------------------------------------------------------
(* Requests.                                                               *)

LEMMA RequestKinds ==
  ASSUME NEW q \in RequestType
  PROVE  /\ q.st = "admitted" => q \in AdmittedRequest
         /\ q.st = "read" => q \in ReadRequest
         /\ q = Idle => q.st = "idle"
  BY DEF RequestType, Idle, AdmittedRequest, ReadRequest

LEMMA KindsAreRequests ==
  AdmittedRequest \cup ReadRequest \cup {Idle} \subseteq RequestType
  BY DEF RequestType, AdmittedRequest, ReadRequest

LEMMA ReadyRequest ==
  ASSUME WorkspaceInv, NEW r \in Request, NEW op, Ready(r, op)
  PROVE  req[r] \in ReadRequest /\ req[r].op = op /\ RequestGood(req[r])
           /\ ReadGood(req[r]) /\ req[r] # Idle
  BY RequestKinds DEF WorkspaceInv, WorkspaceTypes, Ready, Idle, ReadRequest

LEMMA IdleGood == RequestGood(Idle) /\ ReadGood(Idle) /\ Idle.st = "idle"
  BY DEF RequestGood, ReadGood, Idle

LEMMA AdmittedGood ==
  ASSUME NEW op \in Operation, NEW u \in User, NEW role \in Roles, NEW to \in User,
         NEW as \in Invitable, NEW patch \in Patch \cup {NoPatch},
         WellFormed(op, u, to, as, patch)
  PROVE  LET q == [st |-> "admitted", op |-> op, by |-> u, role |-> role, to |-> to,
                   as |-> as, patch |-> patch]
         IN  q \in RequestType /\ RequestGood(q) /\ ReadGood(q)
<1> DEFINE q == [st |-> "admitted", op |-> op, by |-> u, role |-> role, to |-> to,
                 as |-> as, patch |-> patch]
<1>1. q \in AdmittedRequest
  BY DEF AdmittedRequest
<1>2. RequestGood(q)
  BY DEF RequestGood, WellFormed
<1>3. ReadGood(q)
  BY DEF ReadGood
<1>4. QED
  BY <1>1, <1>2, <1>3, KindsAreRequests

LEMMA CommitsIdle ==
  ASSUME NEW r \in Request, Commit(r)
  PROVE  req' = [req EXCEPT ![r] = Idle] /\ started' = started
  BY DEF Commit, CommitDeparture, CommitRole, CommitTransfer, CommitInvite,
         CommitRescind, CommitResend, CommitAccept, CommitSettings, CommitDelete, Finish

LEMMA ReadRows ==
  ASSUME WorkspaceInv, NEW r \in Request, Read(r)
  PROVE  \E x \in RequestType :
           RequestGood(x) /\ ReadGood(x) /\ req' = [req EXCEPT ![r] = x]
<1> DEFINE q == req[r]
           x == [st |-> "read", op |-> q.op, by |-> q.by, role |-> q.role, to |-> q.to,
                 as |-> q.as, patch |-> q.patch, target |-> seat[q.to],
                 caller |-> seat[q.by], others |-> OtherOwners(q.to),
                 offer |-> invite[q.to], found |-> settings]
<1>1. q \in AdmittedRequest /\ RequestGood(q) /\ q # Idle
  BY RequestKinds DEF Read, WorkspaceInv, WorkspaceTypes, Idle
<1>2. Allowed(q) /\ req' = [req EXCEPT ![r] = x]
  BY DEF Read
<1>3. q.to \in User /\ q.by \in User /\ q.op \in Operation /\ q.role \in Roles
        /\ q.as \in Invitable /\ q.patch \in Patch \cup {NoPatch}
  BY <1>1 DEF AdmittedRequest
<1>4. seat[q.to] \in Seat /\ seat[q.by] \in Seat /\ invite[q.to] \in Invite
        /\ settings \in Settings /\ OtherOwners(q.to) \in BOOLEAN
  BY <1>3 DEF WorkspaceInv, WorkspaceTypes, OtherOwners
<1>5. x \in ReadRequest
  BY <1>3, <1>4 DEF ReadRequest
<1>6. RequestGood(x)
  BY <1>1 DEF RequestGood
<1>7. ReadGood(x)
  <2>1. x.op = q.op /\ x.target = seat[q.to] /\ x.caller = seat[q.by]
          /\ (x.others <=> OtherOwners(q.to))
    OBVIOUS
  <2>2. q.op = "leave" => LeaveAllowed(q)
    BY <1>2 DEF Allowed
  <2>3. q.op = "remove" => RemoveAllowed(q)
    BY <1>2 DEF Allowed
  <2>4. q.op = "role" => RoleAllowed(q)
    BY <1>2 DEF Allowed
  <2>5. q.op = "transfer" => TransferAllowed(q)
    BY <1>2 DEF Allowed
  <2>6. q.op = "role" => seat[q.to].role # "owner"
    <3>1. SUFFICES ASSUME RoleAllowed(q), seat[q.to].role = "owner" PROVE FALSE
      BY <2>4
    <3>2. Rank["owner"] < Rank[q.role]
      BY <3>1 DEF RoleAllowed
    <3>3. Rank["owner"] = 3 /\ Rank[q.role] \in 0 .. 3
      BY <1>3 DEF Rank, Roles, Held, Invitable
    <3>4. QED
      BY <3>2, <3>3
  <2> HIDE DEF x, q
  <2>7. QED
    BY <2>1, <2>2, <2>3, <2>5, <2>6
       DEF ReadGood, LeaveAllowed, RemoveAllowed, TransferAllowed
<1> HIDE DEF x, q
<1>8. QED
  BY <1>2, <1>5, <1>6, <1>7, KindsAreRequests

LEMMA RequestsStep ==
  ASSUME WorkspaceInv, WorkspacesNext
  PROVE  /\ req' \in [Request -> RequestType]
         /\ \A r \in Request : RequestGood(req'[r]) /\ ReadGood(req'[r])
<1> DEFINE Good(x) == x \in RequestType /\ RequestGood(x) /\ ReadGood(x)
<1>0. req \in [Request -> RequestType] /\ \A r \in Request : Good(req[r])
  BY DEF WorkspaceInv, WorkspaceTypes
<1>1. ASSUME NEW r \in Request, NEW x, Good(x), req' = [req EXCEPT ![r] = x]
      PROVE  /\ req' \in [Request -> RequestType]
             /\ \A s \in Request : Good(req'[s])
  BY <1>0, <1>1
<1>2. Good(Idle)
  BY IdleGood, KindsAreRequests
<1>3. ASSUME NEW r \in Request, Admit(r)
      PROVE  \E x : Good(x) /\ req' = [req EXCEPT ![r] = x]
  <2>1. PICK op \in Operation, u \in User, to \in User, as \in Invitable,
             patch \in Patch \cup {NoPatch} :
          /\ WellFormed(op, u, to, as, patch)
          /\ req' = [req EXCEPT ![r] = [st |-> "admitted", op |-> op, by |-> u,
               role |-> seat[u].role, to |-> to, as |-> as, patch |-> patch]]
    BY <1>3 DEF Admit
  <2>2. seat[u].role \in Roles
    BY DEF WorkspaceInv, WorkspaceTypes, Seat
  <2>3. Good([st |-> "admitted", op |-> op, by |-> u, role |-> seat[u].role, to |-> to,
              as |-> as, patch |-> patch])
    BY <2>1, <2>2, AdmittedGood
  <2>4. QED
    BY <2>1, <2>3
<1>4. ASSUME NEW r \in Request, NEW s \in Request, AdmitBulk(r, s)
      PROVE  \E x, y : Good(x) /\ Good(y) /\ req' = [req EXCEPT ![r] = x, ![s] = y]
  <2>1. PICK u \in User, to \in User, too \in User, as \in Invitable :
          req' = [req EXCEPT
            ![r] = [st |-> "admitted", op |-> "invite", by |-> u,
                    role |-> seat[u].role, to |-> to, as |-> as, patch |-> NoPatch],
            ![s] = [st |-> "admitted", op |-> "invite", by |-> u,
                    role |-> seat[u].role, to |-> too, as |-> as, patch |-> NoPatch]]
    BY <1>4 DEF AdmitBulk
  <2>2. seat[u].role \in Roles
    BY DEF WorkspaceInv, WorkspaceTypes, Seat
  <2>3. \A a \in User : WellFormed("invite", u, a, as, NoPatch) /\ "invite" \in Operation
    BY DEF WellFormed, Operation
  <2>4. \A a \in User : Good([st |-> "admitted", op |-> "invite", by |-> u,
               role |-> seat[u].role, to |-> a, as |-> as, patch |-> NoPatch])
    BY <2>2, <2>3, AdmittedGood
  <2>5. QED
    BY <2>1, <2>4
<1>5. ASSUME NEW r \in Request, Read(r)
      PROVE  \E x : Good(x) /\ req' = [req EXCEPT ![r] = x]
  BY <1>5, ReadRows
<1>6. ASSUME NEW r \in Request, Refuse(r) \/ Commit(r)
      PROVE  req' = [req EXCEPT ![r] = Idle]
  BY <1>6, CommitsIdle DEF Refuse
<1>7. ASSUME NEW u \in User, GetSettings(u) \/ Expire(u)
      PROVE  req' = req
  BY <1>7 DEF GetSettings, Expire
<1>8. ASSUME NEW r \in Request, NEW s \in Request, NEW x, NEW y, Good(x), Good(y),
             req' = [req EXCEPT ![r] = x, ![s] = y]
      PROVE  /\ req' \in [Request -> RequestType]
             /\ \A t \in Request : Good(req'[t])
  BY <1>0, <1>8
<1> HIDE DEF Good
<1>9. /\ req' \in [Request -> RequestType]
      /\ \A s \in Request : Good(req'[s])
  BY <1>0, <1>1, <1>2, <1>3, <1>4, <1>5, <1>6, <1>7, <1>8 DEF WorkspacesNext
<1>10. QED
  BY <1>9 DEF Good

-----------------------------------------------------------------------------
(* Members.                                                                *)

\* What a write of one role changes.
LEMMA SeatWrite ==
  ASSUME NEW s \in [User -> Seat], NEW u \in User, NEW role \in Roles
  PROVE  LET new == [s EXCEPT ![u].role = role]
         IN  /\ new \in [User -> Seat]
             /\ new[u].role = role
             /\ \A v \in User \ {u} : new[v] = s[v]
  BY DEF Seat

LEMMA RolesHeld == Invitable \subseteq Roles /\ "none" \in Roles /\ "owner" \in Roles
                     /\ "admin" \in Roles /\ "none" # "owner"
                     /\ \A x \in Invitable : x # "owner" /\ x # "none"
  BY DEF Invitable, Held, Roles

\* The parts of a request that has read its rows.
LEMMA ReadParts ==
  ASSUME NEW q \in ReadRequest
  PROVE  /\ q.st = "read" /\ q.op \in Operation /\ q.by \in User /\ q.to \in User
         /\ q.as \in Invitable /\ q.target \in Seat /\ q.caller \in Seat
         /\ q.others \in BOOLEAN /\ q.offer \in Invite /\ q.found \in Settings
  BY DEF ReadRequest

LEMMA SeatAlone ==
  ASSUME WorkspacesNext
  PROVE  \/ seat' = seat /\ lost' = lost
         \/ \E r \in Request : \/ CommitDeparture(r) \/ CommitRole(r)
                               \/ CommitTransfer(r) \/ CommitAccept(r) \/ CommitDelete(r)
<1>1. ASSUME NEW r \in Request, NEW s \in Request,
             Admit(r) \/ AdmitBulk(r, s) \/ Read(r) \/ Refuse(r)
      PROVE  seat' = seat /\ lost' = lost
  BY <1>1 DEF Admit, AdmitBulk, Read, Refuse, rows
<1>2. ASSUME NEW r \in Request,
             CommitInvite(r) \/ CommitRescind(r) \/ CommitResend(r) \/ CommitSettings(r)
      PROVE  seat' = seat /\ lost' = lost
  BY <1>2 DEF CommitInvite, CommitRescind, CommitResend, CommitSettings, WriteInvite
<1>3. ASSUME NEW u \in User, GetSettings(u) \/ Expire(u)
      PROVE  seat' = seat /\ lost' = lost
  BY <1>3 DEF GetSettings, Expire
<1>4. QED
  BY <1>1, <1>2, <1>3 DEF WorkspacesNext, Commit

\* A departure, a role change and a transfer, in one form: the seats they
\* write, given that they find the workspace alive.
LEMMA DepartureWrites ==
  ASSUME WorkspaceInv, NEW r \in Request, CommitDeparture(r)
  PROVE  /\ seat' \in [User -> Seat] /\ alive' = alive /\ (lost => lost')
         /\ \A u \in User : seat[u].role = "none" => seat'[u].role = "none"
         /\ alive /\ ~lost' => OneOwner'
<1> DEFINE q == req[r]
           new == [seat EXCEPT ![q.to].role = "none"]
<1>1. q \in ReadRequest /\ q.op \in {"leave", "remove"} /\ ReadGood(q)
  BY ReadyRequest DEF CommitDeparture
<1>2. /\ q.target.role # "none"
      /\ q.target.role = "owner" => q.others
  BY <1>1, ReadParts DEF ReadGood
<1>3. /\ seat' = IF Present(q.to, q.target) THEN new ELSE seat
      /\ lost' = (lost \/ (seat' # seat /\ ~Fresh(q)))
      /\ alive' = alive
  BY DEF CommitDeparture, WriteSeats
<1>4. q.to \in User
  BY <1>1, ReadParts
<1>5. seat \in [User -> Seat]
  BY DEF WorkspaceInv, WorkspaceTypes
<1>6. /\ new \in [User -> Seat]
      /\ new[q.to].role = "none"
      /\ \A v \in User \ {q.to} : new[v] = seat[v]
  BY <1>4, <1>5, RolesHeld, SeatWrite
<1> HIDE DEF new, q
<1>7. ASSUME alive, ~lost' PROVE OneOwner'
  <2>1. PICK o \in User : \A u \in User : seat[u].role = "owner" <=> u = o
    BY <1>3, <1>7 DEF WorkspaceInv, OneOwnerUnlessLostUpdate, OneOwner
  <2>2. CASE seat' = seat
    BY <1>3, <2>1, <2>2 DEF OneOwner
  <2>3. CASE seat' = new /\ Fresh(q)
    <3>1. q.target = seat[q.to]
      BY <2>3 DEF Fresh
    <3>2. seat[q.to].role # "owner"
      BY <1>2, <1>4, <2>1, <2>3, <3>1 DEF Fresh, OtherOwners
    <3>3. \A u \in User : seat'[u].role = "owner" <=> u = o
      BY <1>4, <1>6, <2>1, <2>3, <3>2
    <3>4. QED
      BY <3>3 DEF OneOwner
  <2>4. QED
    BY <1>3, <1>7, <2>2, <2>3
<1>8. QED
  BY <1>3, <1>4, <1>5, <1>6, <1>7

LEMMA RoleWrites ==
  ASSUME WorkspaceInv, NEW r \in Request, CommitRole(r)
  PROVE  /\ seat' \in [User -> Seat] /\ alive' = alive /\ (lost => lost')
         /\ \A u \in User : seat[u].role = "none" => seat'[u].role = "none"
         /\ alive /\ ~lost' => OneOwner'
<1> DEFINE q == req[r]
           new == [seat EXCEPT ![q.to].role = q.as]
<1>1. q \in ReadRequest /\ q.op = "role" /\ ReadGood(q)
  BY ReadyRequest DEF CommitRole
<1>2. q.target.role # "owner"
  BY <1>1, ReadParts DEF ReadGood
<1>3. /\ seat' = IF Present(q.to, q.target) /\ q.as # q.target.role THEN new ELSE seat
      /\ lost' = (lost \/ (seat' # seat /\ ~Fresh(q)))
      /\ alive' = alive
  BY DEF CommitRole, WriteSeats
<1>4. q.to \in User /\ q.as \in Invitable
  BY <1>1, ReadParts
<1>5. seat \in [User -> Seat]
  BY DEF WorkspaceInv, WorkspaceTypes
<1>6. /\ new \in [User -> Seat]
      /\ new[q.to].role = q.as
      /\ \A v \in User \ {q.to} : new[v] = seat[v]
  BY <1>4, <1>5, RolesHeld, SeatWrite
<1> HIDE DEF new, q
<1>7. ASSUME alive, ~lost' PROVE OneOwner'
  <2>1. PICK o \in User : \A u \in User : seat[u].role = "owner" <=> u = o
    BY <1>3, <1>7 DEF WorkspaceInv, OneOwnerUnlessLostUpdate, OneOwner
  <2>2. CASE seat' = seat
    BY <1>3, <2>1, <2>2 DEF OneOwner
  <2>3. CASE seat' = new /\ Fresh(q)
    <3>1. seat[q.to].role # "owner" /\ q.as # "owner"
      BY <1>2, <1>4, <2>3, RolesHeld DEF Fresh
    <3>2. \A u \in User : seat'[u].role = "owner" <=> u = o
      BY <1>4, <1>6, <2>1, <2>3, <3>1
    <3>3. QED
      BY <3>2 DEF OneOwner
  <2>4. QED
    BY <1>3, <1>7, <2>2, <2>3
<1>8. \A u \in User : seat[u].role = "none" => seat'[u].role = "none"
  BY <1>3, <1>4, <1>6 DEF Present
<1>9. QED
  BY <1>3, <1>5, <1>6, <1>7, <1>8

LEMMA TransferWrites ==
  ASSUME WorkspaceInv, NEW r \in Request, CommitTransfer(r)
  PROVE  /\ seat' \in [User -> Seat] /\ alive' = alive /\ (lost => lost')
         /\ \A u \in User : seat[u].role = "none" => seat'[u].role = "none"
         /\ alive /\ ~lost' => OneOwner'
<1> DEFINE q == req[r]
           owned == [seat EXCEPT ![q.to].role = "owner"]
           promoted == IF Present(q.to, q.target) /\ q.target.role # "owner"
                         THEN owned ELSE seat
           new == [promoted EXCEPT ![q.by].role = "admin"]
<1>1. q \in ReadRequest /\ q.op = "transfer" /\ ReadGood(q) /\ RequestGood(q) /\ q # Idle
  BY ReadyRequest DEF CommitTransfer
<1>2. q.to # q.by /\ q.caller.role = "owner" /\ q.target.role # "none"
  BY <1>1, ReadParts DEF ReadGood, RequestGood
<1>3. /\ seat' = IF Present(q.by, q.caller) THEN new ELSE promoted
      /\ lost' = (lost \/ (seat' # seat /\ ~Fresh(q)))
      /\ alive' = alive
  BY DEF CommitTransfer, WriteSeats
<1>4. q.to \in User /\ q.by \in User
  BY <1>1, ReadParts
<1>5. seat \in [User -> Seat]
  BY DEF WorkspaceInv, WorkspaceTypes
<1>6. /\ owned \in [User -> Seat]
      /\ owned[q.to].role = "owner"
      /\ \A v \in User \ {q.to} : owned[v] = seat[v]
  BY <1>4, <1>5, RolesHeld, SeatWrite
<1>7. promoted \in [User -> Seat]
  BY <1>5, <1>6
<1>8. /\ new \in [User -> Seat]
      /\ new[q.by].role = "admin"
      /\ \A v \in User \ {q.by} : new[v] = promoted[v]
  <2> HIDE DEF promoted
  <2>1. QED
    BY <1>4, <1>7, RolesHeld, SeatWrite
<1>9. \/ promoted = owned /\ Present(q.to, q.target) /\ q.target.role # "owner"
      \/ promoted = seat /\ ~(Present(q.to, q.target) /\ q.target.role # "owner")
  OBVIOUS
<1> HIDE DEF owned, promoted, new, q
<1>10. ASSUME alive, ~lost' PROVE OneOwner'
  <2>1. PICK o \in User : \A u \in User : seat[u].role = "owner" <=> u = o
    BY <1>3, <1>10 DEF WorkspaceInv, OneOwnerUnlessLostUpdate, OneOwner
  <2>2. CASE seat' = seat
    BY <1>3, <2>1, <2>2 DEF OneOwner
  <2>3. CASE Fresh(q)
    <3>1. seat[q.to] = q.target /\ seat[q.by] = q.caller
      BY <1>1, <2>3 DEF Fresh
    <3>2. o = q.by /\ q.target.role # "owner"
      BY <1>2, <1>4, <2>1, <3>1
    <3>3. Present(q.to, q.target) /\ Present(q.by, q.caller)
      BY <1>2, <3>1, RolesHeld DEF Present
    <3>4. seat' = new /\ promoted = owned
      BY <1>3, <1>9, <3>2, <3>3
    <3>5. \A u \in User : seat'[u].role = "owner" <=> u = q.to
      BY <1>2, <1>4, <1>6, <1>8, <2>1, <3>2, <3>4, RolesHeld
    <3>6. QED
      BY <1>4, <3>5 DEF OneOwner
  <2>4. QED
    BY <1>3, <1>10, <2>2, <2>3
<1>11. \A u \in User : seat[u].role = "none" => seat'[u].role = "none"
  BY <1>3, <1>4, <1>6, <1>8, <1>9 DEF Present
<1>12. QED
  BY <1>3, <1>7, <1>8, <1>10, <1>11

\* An accepted invite adds a member who is no owner, to a workspace that is
\* alive, and marks the invite that is there.
LEMMA AcceptWrites ==
  ASSUME WorkspaceInv, NEW r \in Request, CommitAccept(r)
  PROVE  /\ seat' \in [User -> Seat] /\ invite' \in [User -> Invite]
         /\ alive' = alive /\ lost' = lost
         /\ ~alive => seat' = seat /\ invite' = invite
         /\ \A u \in User : seat'[u].role = "owner" <=> seat[u].role = "owner"
         /\ \A u \in User : seat[u].role = "none" /\ seat'[u].role # "none" =>
              /\ u = req[r].to /\ SameOffer(req[r])
              /\ seat'[u].role = req[r].offer.role
<1> DEFINE q == req[r]
           row == [role |-> q.offer.role, id |-> seat[q.to].id + 1]
           offer == [invite[q.to] EXCEPT !.accepted = TRUE]
<1>1. q \in ReadRequest
  BY ReadyRequest DEF CommitAccept
<1>2. q.to \in User /\ q.offer.role \in Invitable
  BY <1>1, ReadParts DEF Invite
<1>3. seat \in [User -> Seat] /\ invite \in [User -> Invite]
  BY DEF WorkspaceInv, WorkspaceTypes
<1>4. row \in Seat /\ row.role = q.offer.role
  BY <1>2, <1>3, RolesHeld DEF Seat
<1>5. offer \in Invite
  BY <1>2, <1>3 DEF Invite
<1>6. \/ seat' = seat /\ invite' = invite
      \/ /\ alive /\ seat[q.to].role = "none" /\ SameOffer(q)
         /\ seat' = [seat EXCEPT ![q.to] = row]
         /\ invite' = [invite EXCEPT ![q.to] = offer]
  BY DEF CommitAccept
<1>7. alive' = alive /\ lost' = lost
  BY DEF CommitAccept
<1> HIDE DEF row, offer, q
<1>8. seat' \in [User -> Seat] /\ invite' \in [User -> Invite]
  BY <1>2, <1>3, <1>4, <1>5, <1>6
<1>9. \A u \in User : seat'[u].role = "owner" <=> seat[u].role = "owner"
  BY <1>2, <1>3, <1>4, <1>6, RolesHeld
<1>10. \A u \in User : seat[u].role = "none" /\ seat'[u].role # "none" =>
         u = q.to /\ SameOffer(q) /\ seat'[u].role = q.offer.role
  BY <1>2, <1>3, <1>4, <1>6
<1>11. QED
  BY <1>6, <1>7, <1>8, <1>9, <1>10 DEF q

LEMMA DeleteWrites ==
  ASSUME WorkspaceInv, NEW r \in Request, CommitDelete(r)
  PROVE  /\ seat' \in [User -> Seat] /\ invite' \in [User -> Invite]
         /\ alive' = FALSE /\ lost' = lost
         /\ \A u \in User : seat'[u].role = "none" /\ ~invite'[u].there
         /\ settings' = [there |-> FALSE, grant |-> NoGrant]
         /\ mixed' = mixed /\ asked' = asked
<1>1. ASSUME NEW u \in User
      PROVE  /\ [seat[u] EXCEPT !.role = "none"] \in Seat
             /\ [seat[u] EXCEPT !.role = "none"].role = "none"
  BY RolesHeld DEF WorkspaceInv, WorkspaceTypes, Seat
<1>2. ASSUME NEW u \in User
      PROVE  LET gone == [NoInvite EXCEPT !.id = invite[u].id, !.code = invite[u].code]
             IN  gone \in Invite /\ gone.there = FALSE
  BY DEF WorkspaceInv, WorkspaceTypes, Invite, NoInvite, Invitable
<1>3. /\ alive' = FALSE /\ lost' = lost /\ mixed' = mixed /\ asked' = asked
      /\ seat' = [u \in User |-> [seat[u] EXCEPT !.role = "none"]]
      /\ invite' = [u \in User |->
           [NoInvite EXCEPT !.id = invite[u].id, !.code = invite[u].code]]
      /\ settings' = [there |-> FALSE, grant |-> NoGrant]
  BY DEF CommitDelete
<1>4. QED
  BY <1>1, <1>2, <1>3

LEMMA SeatsStep ==
  ASSUME WorkspaceInv, WorkspacesNext
  PROVE  /\ seat' \in [User -> Seat] /\ lost' \in BOOLEAN
         /\ \/ alive' = alive
            \/ \E r \in Request : CommitDelete(r)
         /\ ~alive => \A u \in User : seat'[u].role = "none"
         /\ ~lost' /\ alive' => OneOwner'
<1>1. seat \in [User -> Seat] /\ lost \in BOOLEAN
  BY DEF WorkspaceInv, WorkspaceTypes
<1>2. ~alive => \A u \in User : seat[u].role = "none"
  BY DEF WorkspaceInv, DeletedLeavesNothing
<1>3. ~lost /\ alive => OneOwner
  BY DEF WorkspaceInv, OneOwnerUnlessLostUpdate
<1>4. lost' \in BOOLEAN
  <2>1. ASSUME NEW r \in Request, CommitDeparture(r) \/ CommitRole(r) \/ CommitTransfer(r)
        PROVE  lost' \in BOOLEAN
    BY <1>1, <2>1 DEF CommitDeparture, CommitRole, CommitTransfer, WriteSeats
  <2>2. QED
    BY <1>1, <2>1, SeatAlone, AcceptWrites, DeleteWrites
<1>5. (\E r \in Request : CommitDelete(r)) \/ alive' = alive
  <2>1. ASSUME NEW r \in Request, NEW s \in Request,
               Admit(r) \/ AdmitBulk(r, s) \/ Read(r) \/ Refuse(r)
        PROVE  alive' = alive
    BY <2>1 DEF Admit, AdmitBulk, Read, Refuse, rows
  <2>2. ASSUME NEW r \in Request, Commit(r), ~CommitDelete(r)
        PROVE  alive' = alive
    BY <2>2 DEF Commit, CommitDeparture, CommitRole, CommitTransfer, CommitInvite,
                CommitRescind, CommitResend, CommitAccept, CommitSettings,
                WriteSeats, WriteInvite
  <2>3. ASSUME NEW u \in User, GetSettings(u) \/ Expire(u)
        PROVE  alive' = alive
    BY <2>3 DEF GetSettings, Expire
  <2>4. QED
    BY <2>1, <2>2, <2>3 DEF WorkspacesNext
<1>6. ASSUME seat' = seat, lost' = lost
      PROVE  /\ seat' \in [User -> Seat]
             /\ ~alive => \A u \in User : seat'[u].role = "none"
             /\ ~lost' /\ alive' => OneOwner'
  <2>1. alive' => alive
    BY <1>5, DeleteWrites
  <2>2. QED
    BY <1>1, <1>2, <1>3, <1>6, <2>1 DEF OneOwner
<1>7. ASSUME NEW r \in Request, CommitDeparture(r) \/ CommitRole(r) \/ CommitTransfer(r)
      PROVE  /\ seat' \in [User -> Seat]
             /\ ~alive => \A u \in User : seat'[u].role = "none"
             /\ ~lost' /\ alive' => OneOwner'
  BY <1>2, <1>7, DepartureWrites, RoleWrites, TransferWrites
<1>8. ASSUME NEW r \in Request, CommitAccept(r)
      PROVE  /\ seat' \in [User -> Seat]
             /\ ~alive => \A u \in User : seat'[u].role = "none"
             /\ ~lost' /\ alive' => OneOwner'
  <2>1. /\ seat' \in [User -> Seat] /\ alive' = alive /\ lost' = lost
        /\ ~alive => seat' = seat
        /\ \A u \in User : seat'[u].role = "owner" <=> seat[u].role = "owner"
    BY <1>8, AcceptWrites
  <2>2. QED
    BY <1>2, <1>3, <2>1 DEF OneOwner
<1>9. ASSUME NEW r \in Request, CommitDelete(r)
      PROVE  /\ seat' \in [User -> Seat] /\ ~alive'
             /\ \A u \in User : seat'[u].role = "none"
  BY <1>9, DeleteWrites
<1>10. QED
  BY <1>4, <1>5, <1>6, <1>7, <1>8, <1>9, SeatAlone

-----------------------------------------------------------------------------
(* Invites.                                                                *)

LEMMA InviteWrite ==
  ASSUME NEW u \in User, NEW new \in Invite, WorkspaceInv, WriteInvite(u, new),
         ~alive => ~new.there
  PROVE  /\ invite' \in [User -> Invite]
         /\ ~alive => \A v \in User : ~invite'[v].there
  BY DEF WriteInvite, WorkspaceInv, WorkspaceTypes, DeletedLeavesNothing

\* The rows an invitation, a revocation and a resending write.
LEMMA InvitationWrites ==
  ASSUME WorkspaceInv, NEW r \in Request, CommitInvite(r)
  PROVE  /\ invite' \in [User -> Invite]
         /\ ~alive => \A v \in User : ~invite'[v].there
<1> DEFINE q == req[r]
           row == invite[q.to]
           renewed == [row EXCEPT
             !.code = row.code + 1, !.expired = FALSE,
             !.role = IF q.offer.role = q.as THEN @ ELSE q.as,
             !.accepted = @ /\ ~q.offer.accepted]
           added == [there |-> TRUE, id |-> row.id + 1, code |-> row.code + 1,
                     role |-> q.as, accepted |-> FALSE, expired |-> FALSE]
           new == CASE q.offer.there /\ SameOffer(q) -> renewed
                    [] ~q.offer.there /\ alive /\ ~row.there -> added
                    [] OTHER -> row
<1>1. q \in ReadRequest
  BY ReadyRequest DEF CommitInvite
<1>2. q.to \in User /\ q.as \in Invitable /\ q.offer \in Invite
  BY <1>1, ReadParts
<1>3. row \in Invite /\ (~alive => ~row.there)
  BY <1>2 DEF WorkspaceInv, WorkspaceTypes, DeletedLeavesNothing
<1>4. row.code + 1 \in Nat /\ row.id + 1 \in Nat /\ q.offer.accepted \in BOOLEAN
  BY <1>2, <1>3 DEF Invite
<1>5. renewed \in Invite /\ renewed.there = row.there
  <2> HIDE DEF row, q
  <2>1. QED
    BY <1>2, <1>3, <1>4 DEF Invite
<1>6. added \in Invite
  BY <1>2, <1>4 DEF Invite
<1>7. new \in Invite /\ (~alive => ~new.there)
  <2> HIDE DEF renewed, added, row, q
  <2>1. QED
    BY <1>3, <1>5, <1>6
<1>8. WriteInvite(q.to, new)
  BY DEF CommitInvite
<1> HIDE DEF new, q
<1>9. QED
  BY <1>2, <1>7, <1>8, InviteWrite

LEMMA RevocationWrites ==
  ASSUME WorkspaceInv, NEW r \in Request, CommitRescind(r)
  PROVE  /\ invite' \in [User -> Invite]
         /\ ~alive => \A v \in User : ~invite'[v].there
<1> DEFINE q == req[r]
           row == invite[q.to]
           gone == [NoInvite EXCEPT !.id = row.id, !.code = row.code]
           new == IF SameOffer(q) THEN gone ELSE row
<1>1. q \in ReadRequest
  BY ReadyRequest DEF CommitRescind
<1>2. q.to \in User
  BY <1>1, ReadParts
<1>3. row \in Invite /\ (~alive => ~row.there)
  BY <1>2 DEF WorkspaceInv, WorkspaceTypes, DeletedLeavesNothing
<1>4. gone \in Invite /\ gone.there = FALSE
  <2> HIDE DEF row
  <2>1. QED
    BY <1>3 DEF Invite, NoInvite, Invitable
<1>5. new \in Invite /\ (~alive => ~new.there)
  <2> HIDE DEF row, gone
  <2>1. QED
    BY <1>3, <1>4
<1>6. WriteInvite(q.to, new)
  BY DEF CommitRescind
<1> HIDE DEF new, q
<1>7. QED
  BY <1>2, <1>5, <1>6, InviteWrite

LEMMA ResendingWrites ==
  ASSUME WorkspaceInv, NEW r \in Request, CommitResend(r)
  PROVE  /\ invite' \in [User -> Invite]
         /\ ~alive => \A v \in User : ~invite'[v].there
<1> DEFINE q == req[r]
           row == invite[q.to]
           sent == [row EXCEPT !.expired = FALSE,
                               !.code = IF q.offer.expired THEN @ + 1 ELSE @]
           new == IF SameOffer(q) THEN sent ELSE row
<1>1. q \in ReadRequest
  BY ReadyRequest DEF CommitResend
<1>2. q.to \in User /\ q.offer.expired \in BOOLEAN
  BY <1>1, ReadParts DEF Invite
<1>3. row \in Invite /\ (~alive => ~row.there)
  BY <1>2 DEF WorkspaceInv, WorkspaceTypes, DeletedLeavesNothing
<1>4. row.code + 1 \in Nat
  BY <1>3 DEF Invite
<1>5. sent \in Invite /\ sent.there = row.there
  <2> HIDE DEF row, q
  <2>1. QED
    BY <1>2, <1>3, <1>4 DEF Invite
<1>6. new \in Invite /\ (~alive => ~new.there)
  <2> HIDE DEF row, sent
  <2>1. QED
    BY <1>3, <1>5
<1>7. WriteInvite(q.to, new)
  BY DEF CommitResend
<1> HIDE DEF new, q
<1>8. QED
  BY <1>2, <1>6, <1>7, InviteWrite

LEMMA ExpiryWrites ==
  ASSUME WorkspaceInv, NEW u \in User, Expire(u)
  PROVE  /\ invite' \in [User -> Invite]
         /\ ~alive => \A v \in User : ~invite'[v].there
<1>1. [invite[u] EXCEPT !.expired = TRUE] \in Invite
  BY DEF WorkspaceInv, WorkspaceTypes, Invite
<1>2. WriteInvite(u, [invite[u] EXCEPT !.expired = TRUE]) /\ invite[u].there
  BY DEF Expire, WriteInvite
<1>3. alive
  BY <1>2 DEF WorkspaceInv, DeletedLeavesNothing
<1>4. QED
  BY <1>1, <1>2, <1>3, InviteWrite

LEMMA InvitesStep ==
  ASSUME WorkspaceInv, WorkspacesNext
  PROVE  /\ invite' \in [User -> Invite]
         /\ ~alive => \A u \in User : ~invite'[u].there
<1>1. /\ invite \in [User -> Invite]
      /\ ~alive => \A u \in User : ~invite[u].there
  BY DEF WorkspaceInv, WorkspaceTypes, DeletedLeavesNothing
<1>2. ASSUME NEW r \in Request, NEW s \in Request,
             Admit(r) \/ AdmitBulk(r, s) \/ Read(r) \/ Refuse(r)
      PROVE  invite' = invite
  BY <1>2 DEF Admit, AdmitBulk, Read, Refuse, rows
<1>3. ASSUME NEW r \in Request, CommitDeparture(r) \/ CommitRole(r)
               \/ CommitTransfer(r) \/ CommitSettings(r)
      PROVE  invite' = invite
  BY <1>3 DEF CommitDeparture, CommitRole, CommitTransfer, CommitSettings, WriteSeats
<1>4. ASSUME NEW u \in User, GetSettings(u)
      PROVE  invite' = invite
  BY <1>4 DEF GetSettings
<1>5. ASSUME NEW r \in Request, CommitInvite(r) \/ CommitRescind(r) \/ CommitResend(r)
               \/ CommitAccept(r) \/ CommitDelete(r)
      PROVE  /\ invite' \in [User -> Invite]
             /\ ~alive => \A u \in User : ~invite'[u].there
  BY <1>1, <1>5, InvitationWrites, RevocationWrites, ResendingWrites, AcceptWrites,
     DeleteWrites
<1>6. QED
  BY <1>1, <1>2, <1>3, <1>4, <1>5, ExpiryWrites DEF WorkspacesNext, Commit

-----------------------------------------------------------------------------
(* Settings.                                                               *)

LEMMA ApplyTyped ==
  ASSUME NEW patch \in Patch, NEW grant \in Grant
  PROVE  Apply(patch, grant) \in Grant
<1>1. CASE patch.kind = "reset"
  BY <1>1 DEF Apply, Grant, NoGrant
<1>2. CASE patch.kind # "reset"
  <2>1. patch \in [kind : {"merge"}, role : Invitable, permission : Tunable,
                   value : {"yes", "no"}]
    BY <1>2 DEF Patch
  <2>2. patch.role \in Invitable /\ patch.permission \in Tunable
          /\ patch.value \in {"unset", "yes", "no"}
    BY <2>1
  <2>3. [grant EXCEPT ![patch.role][patch.permission] = patch.value] \in Grant
    BY <2>2 DEF Grant
  <2>4. QED
    BY <1>2, <2>3 DEF Apply
<1>3. QED
  BY <1>1, <1>2

\* A PATCH merged into the permissions as they are has the effect it asks for;
\* one merged into permissions that have changed is on record.
LEMMA SettingsWrites ==
  ASSUME WorkspaceInv, NEW r \in Request, CommitSettings(r)
  PROVE  /\ settings' \in Settings /\ asked' \in Grant /\ mixed' \in BOOLEAN
         /\ alive' = alive /\ (~alive => ~settings'.there)
         /\ alive' /\ ~mixed' => settings'.grant = asked'
<1> DEFINE q == req[r]
           merged == Merge(q.patch, q.found.grant)
           grant == IF merged = q.found.grant THEN settings.grant ELSE merged
           new == [there |-> TRUE, grant |-> grant]
           next == Apply(q.patch, asked)
<1>1. q \in ReadRequest /\ q.op = "settings" /\ RequestGood(q) /\ q # Idle
  BY ReadyRequest DEF CommitSettings
<1>2. q.patch \in Patch /\ q.found.grant \in Grant
  BY <1>1, ReadParts DEF RequestGood, Settings
<1>3. /\ settings \in Settings /\ settings.grant \in Grant /\ asked \in Grant
      /\ mixed \in BOOLEAN
      /\ ~alive => ~settings.there
      /\ alive /\ ~mixed => settings.grant = asked
  BY DEF WorkspaceInv, WorkspaceTypes, Settings, DeletedLeavesNothing, OverridesKept
<1>4. merged \in Grant /\ next \in Grant /\ merged = Apply(q.patch, q.found.grant)
  BY <1>2, <1>3, ApplyTyped DEF Merge
<1>5. /\ alive' = alive
      /\ \/ settings' = settings /\ asked' = asked /\ mixed' = mixed
         \/ /\ settings.there \/ alive
            /\ settings' = new /\ asked' = next
            /\ mixed' = (mixed \/ settings.grant # q.found.grant)
  BY DEF CommitSettings
<1>6. grant \in Grant
  <2> HIDE DEF merged
  <2>1. QED
    BY <1>3, <1>4
<1>7. new \in Settings /\ new.grant = grant /\ new.there = TRUE
  <2> HIDE DEF grant
  <2>1. QED
    BY <1>6 DEF Settings
<1>8. mixed' \in BOOLEAN
  BY <1>3, <1>5
<1>9. settings.grant = q.found.grant /\ settings.grant = asked => grant = next
  BY <1>4
<1> HIDE DEF new, grant, next, merged, q
<1>10. QED
  BY <1>3, <1>4, <1>5, <1>7, <1>8, <1>9

LEMMA SettingsStep ==
  ASSUME WorkspaceInv, WorkspacesNext
  PROVE  /\ settings' \in Settings /\ asked' \in Grant /\ mixed' \in BOOLEAN
         /\ ~alive' => ~settings'.there
         /\ alive' /\ ~mixed' => settings'.grant = asked'
<1>1. /\ settings \in Settings /\ asked \in Grant /\ mixed \in BOOLEAN
      /\ ~alive => ~settings.there
      /\ alive /\ ~mixed => settings.grant = asked
  BY DEF WorkspaceInv, WorkspaceTypes, DeletedLeavesNothing, OverridesKept
<1>2. ASSUME NEW r \in Request, NEW s \in Request,
             Admit(r) \/ AdmitBulk(r, s) \/ Read(r) \/ Refuse(r)
      PROVE  <<alive, settings, asked, mixed>>' = <<alive, settings, asked, mixed>>
  BY <1>2 DEF Admit, AdmitBulk, Read, Refuse, rows
<1>3. ASSUME NEW r \in Request, Commit(r), ~CommitSettings(r), ~CommitDelete(r)
      PROVE  <<alive, settings, asked, mixed>>' = <<alive, settings, asked, mixed>>
  BY <1>3 DEF Commit, CommitDeparture, CommitRole, CommitTransfer, CommitInvite,
              CommitRescind, CommitResend, CommitAccept, WriteSeats, WriteInvite
<1>4. ASSUME NEW u \in User, Expire(u)
      PROVE  <<alive, settings, asked, mixed>>' = <<alive, settings, asked, mixed>>
  BY <1>4 DEF Expire
<1>5. ASSUME NEW u \in User, GetSettings(u)
      PROVE  /\ settings' \in Settings /\ settings'.grant = settings.grant
             /\ alive /\ <<alive, asked, mixed>>' = <<alive, asked, mixed>>
  BY <1>1, <1>5 DEF GetSettings, Settings
<1>6. ASSUME NEW r \in Request, CommitDelete(r)
      PROVE  /\ settings' = [there |-> FALSE, grant |-> NoGrant]
             /\ ~alive' /\ mixed' = mixed /\ asked' = asked
  BY <1>6, DeleteWrites
<1>7. [there |-> FALSE, grant |-> NoGrant] \in Settings
  BY DEF Settings, Grant, NoGrant
<1>8. ASSUME NEW r \in Request, CommitSettings(r)
      PROVE  /\ settings' \in Settings /\ asked' \in Grant /\ mixed' \in BOOLEAN
             /\ ~alive' => ~settings'.there
             /\ alive' /\ ~mixed' => settings'.grant = asked'
  BY <1>8, SettingsWrites
<1>9. \/ <<alive, settings, asked, mixed>>' = <<alive, settings, asked, mixed>>
      \/ \E u \in User : GetSettings(u)
      \/ \E r \in Request : CommitSettings(r) \/ CommitDelete(r)
  BY <1>2, <1>3, <1>4 DEF WorkspacesNext
<1>10. CASE <<alive, settings, asked, mixed>>' = <<alive, settings, asked, mixed>>
  BY <1>1, <1>10
<1>11. CASE \E u \in User : GetSettings(u)
  BY <1>1, <1>5, <1>11
<1>12. CASE \E r \in Request : CommitDelete(r)
  <2>1. settings' = [there |-> FALSE, grant |-> NoGrant] /\ settings'.there = FALSE
          /\ ~alive' /\ mixed' = mixed /\ asked' = asked
    BY <1>6, <1>12
  <2>2. QED
    BY <1>1, <1>7, <2>1
<1>13. QED
  BY <1>8, <1>9, <1>10, <1>11, <1>12

-----------------------------------------------------------------------------
(* The invariant.                                                          *)

LEMMA StartedStep ==
  ASSUME WorkspaceInv, WorkspacesNext
  PROVE  started' \in 0 .. MaxStarted
<1>1. started \in 0 .. MaxStarted /\ MaxStarted \in Nat
  BY WorkspacesAssumption DEF WorkspaceInv, WorkspaceTypes
<1>2. ASSUME NEW r \in Request, Admit(r)
      PROVE  started' = started + 1 /\ started < MaxStarted
  BY <1>2 DEF Admit
<1>3. ASSUME NEW r \in Request, NEW s \in Request, AdmitBulk(r, s)
      PROVE  started' = started + 2 /\ started + 1 < MaxStarted
  BY <1>3 DEF AdmitBulk
<1>4. ASSUME NEW r \in Request, Read(r) \/ Refuse(r)
      PROVE  started' = started
  BY <1>4 DEF Read, Refuse
<1>5. ASSUME NEW u \in User, GetSettings(u) \/ Expire(u)
      PROVE  started' = started
  BY <1>5 DEF GetSettings, Expire
<1>6. QED
  BY <1>1, <1>2, <1>3, <1>4, <1>5, CommitsIdle DEF WorkspacesNext

LEMMA WorkspaceInvInit ==
  ASSUME WorkspacesInit
  PROVE  WorkspaceInv
<1>1. seat \in [User -> Seat] /\ \A u \in User : seat[u].role = "owner" <=> u = Founder
  <2>1. ASSUME NEW u \in User
        PROVE  /\ (IF u = Founder THEN "owner" ELSE Staff[u]) \in Roles
               /\ (IF u = Founder THEN "owner" ELSE Staff[u]) = "owner" <=> u = Founder
    BY WorkspacesAssumption DEF Roles, Held, Invitable
  <2>2. QED
    BY <2>1 DEF WorkspacesInit, Seat
<1>2. invite \in [User -> Invite]
  <2>1. ASSUME NEW u \in User
        PROVE  [NoInvite EXCEPT !.there = u \in Invited] \in Invite
    <3>1. /\ [NoInvite EXCEPT !.there = TRUE] \in Invite
          /\ [NoInvite EXCEPT !.there = FALSE] \in Invite
      BY DEF Invite, NoInvite, Invitable
    <3>2. (u \in Invited) = TRUE \/ (u \in Invited) = FALSE
      OBVIOUS
    <3>3. QED
      BY <3>1, <3>2, Zenon
  <2>2. QED
    BY <2>1 DEF WorkspacesInit
<1>3. settings \in Settings /\ asked \in Grant /\ settings.grant = asked
  BY DEF WorkspacesInit, Settings, Grant, NoGrant
<1>4. req \in [Request -> RequestType]
        /\ \A r \in Request : RequestGood(req[r]) /\ ReadGood(req[r])
  BY IdleGood, KindsAreRequests DEF WorkspacesInit
<1>5. alive = TRUE /\ lost = FALSE /\ mixed = FALSE /\ started \in 0 .. MaxStarted
  BY WorkspacesAssumption DEF WorkspacesInit
<1>6. WorkspaceTypes
  BY <1>1, <1>2, <1>3, <1>4, <1>5 DEF WorkspaceTypes
<1>7. OneOwner
  BY <1>1, WorkspacesAssumption DEF OneOwner
<1>8. QED
  BY <1>3, <1>4, <1>5, <1>6, <1>7
     DEF WorkspaceInv, OneOwnerUnlessLostUpdate, DeletedLeavesNothing, OverridesKept

LEMMA WorkspaceInvStep ==
  ASSUME WorkspaceInv, [WorkspacesNext]_workspaceVars
  PROVE  WorkspaceInv'
<1>1. CASE WorkspacesNext
  <2>1. alive' \in BOOLEAN /\ (alive' = alive \/ \E r \in Request : CommitDelete(r))
    <3>1. alive \in BOOLEAN
      BY DEF WorkspaceInv, WorkspaceTypes
    <3>2. QED
      BY <1>1, <3>1, SeatsStep, DeleteWrites
  <2>2. WorkspaceTypes'
    BY <1>1, <2>1, SeatsStep, InvitesStep, SettingsStep, RequestsStep, StartedStep
       DEF WorkspaceTypes
  <2>3. OneOwnerUnlessLostUpdate'
    <3>1. ~lost' /\ alive' => OneOwner'
      BY <1>1, SeatsStep
    <3>2. ~alive' => OneOwner'
      BY DEF OneOwner
    <3>3. QED
      BY <3>1, <3>2 DEF OneOwnerUnlessLostUpdate
  <2>4. DeletedLeavesNothing'
    <3>1. CASE alive' = alive
      <4>1. SUFFICES ASSUME ~alive'
                     PROVE  /\ \A u \in User : seat'[u].role = "none" /\ ~invite'[u].there
                            /\ ~settings'.there
        BY DEF DeletedLeavesNothing
      <4>2. QED
        BY <1>1, <3>1, <4>1, SeatsStep, InvitesStep, SettingsStep
    <3>2. CASE \E r \in Request : CommitDelete(r)
      <4>1. /\ \A u \in User : seat'[u].role = "none" /\ ~invite'[u].there
            /\ settings' = [there |-> FALSE, grant |-> NoGrant]
        BY <3>2, DeleteWrites
      <4>2. settings'.there = FALSE
        BY <4>1
      <4>3. QED
        BY <4>1, <4>2 DEF DeletedLeavesNothing
    <3>3. QED
      BY <2>1, <3>1, <3>2
  <2>5. OverridesKept'
    BY <1>1, SettingsStep DEF OverridesKept
  <2>6. QED
    BY <1>1, <2>2, <2>3, <2>4, <2>5, RequestsStep DEF WorkspaceInv
<1>2. CASE UNCHANGED workspaceVars
  BY <1>2 DEF WorkspaceInv, workspaceVars, rows, WorkspaceTypes, OneOwnerUnlessLostUpdate, OneOwner,
              DeletedLeavesNothing, OverridesKept
<1>3. QED
  BY <1>1, <1>2

LEMMA WorkspaceInvAlways == WorkspacesSpec => []WorkspaceInv
  BY WorkspaceInvInit, WorkspaceInvStep, PTL DEF WorkspacesSpec

\* Rows, requests and histories keep their types in every run.
THEOREM WorkspacesTyped == WorkspacesSpec => []WorkspaceTypes
<1>1. WorkspaceInv => WorkspaceTypes
  BY DEF WorkspaceInv
<1>2. QED
  BY <1>1, WorkspaceInvAlways, PTL

\* A workspace keeps exactly one owner, however many members leave, are
\* removed, promoted or made owner at once, until a commit writes over rows
\* that have changed since they were read: nothing but the missing row locks
\* of controllers/workspaces.py stands between it and two owners or none.
THEOREM OwnerKept == WorkspacesSpec => []OneOwnerUnlessLostUpdate
<1>1. WorkspaceInv => OneOwnerUnlessLostUpdate
  BY DEF WorkspaceInv
<1>2. QED
  BY <1>1, WorkspaceInvAlways, PTL

\* Once a workspace is deleted no request in progress leaves a member, an
\* invite or settings of it behind.
THEOREM NothingLeft == WorkspacesSpec => []DeletedLeavesNothing
<1>1. WorkspaceInv => DeletedLeavesNothing
  BY DEF WorkspaceInv
<1>2. QED
  BY <1>1, WorkspaceInvAlways, PTL

\* PATCHes of the settings accumulate as asked unless two of them overlap.
THEOREM OverridesStay == WorkspacesSpec => []OverridesKept
<1>1. WorkspaceInv => OverridesKept
  BY DEF WorkspaceInv
<1>2. QED
  BY <1>1, WorkspaceInvAlways, PTL

\* Nobody joins but by accepting the invite that is there when they join, with
\* the role it had when they read it: an invite revoked in between, or revoked
\* and issued again, admits nobody.
THEOREM RevokedOut == WorkspacesSpec => RevokedAdmitsNobody
<1> DEFINE Joins(u) == seat[u].role = "none" /\ seat'[u].role # "none"
           Right(u) == /\ invite[u].there
                       /\ \E r \in Request :
                            /\ Ready(r, "accept") /\ req[r].to = u
                            /\ req[r].offer.id = invite[u].id
                            /\ seat'[u].role = req[r].offer.role
<1>1. ASSUME WorkspaceInv, WorkspacesNext
      PROVE  \A u \in User : Joins(u) => Right(u)
  <2>1. ASSUME NEW r \in Request, CommitDeparture(r) \/ CommitRole(r) \/ CommitTransfer(r)
        PROVE  \A u \in User : ~Joins(u)
    BY <1>1, <2>1, DepartureWrites, RoleWrites, TransferWrites
  <2>2. ASSUME NEW r \in Request, CommitDelete(r)
        PROVE  \A u \in User : ~Joins(u)
    BY <1>1, <2>2, DeleteWrites
  <2>3. ASSUME NEW r \in Request, CommitAccept(r), NEW u \in User, Joins(u)
        PROVE  Right(u)
    <3>1. Ready(r, "accept")
      BY <2>3 DEF CommitAccept
    <3>2. u = req[r].to /\ SameOffer(req[r]) /\ seat'[u].role = req[r].offer.role
      BY <1>1, <2>3, AcceptWrites
    <3>3. QED
      BY <3>1, <3>2 DEF SameOffer
  <2>4. QED
    BY <1>1, <2>1, <2>2, <2>3, SeatAlone
<1>2. WorkspaceInv /\ [WorkspacesNext]_workspaceVars =>
        [\A u \in User : Joins(u) => Right(u)]_workspaceVars
  BY <1>1
<1>3. QED
  BY <1>2, WorkspaceInvAlways, PTL DEF WorkspacesSpec, RevokedAdmitsNobody

-----------------------------------------------------------------------------
(* The promise of WorkspaceRoster.  A commit is read as what it does to the  *)
(* roles alone: one role is written, or the two of a transfer, or a half of  *)
(* them where the rows have changed.                                         *)

RosterVars == <<[u \in User |-> seat[u].role], ~alive, lost>>

LEMMA OneRoleWritten ==
  ASSUME NEW s \in [User -> Seat], NEW t \in [User -> Seat], NEW u \in User, NEW as,
         t[u].role = as, \A v \in User \ {u} : t[v].role = s[v].role
  PROVE  [v \in User |-> t[v].role] = [[v \in User |-> s[v].role] EXCEPT ![u] = as]
  OBVIOUS

LEMMA TwoRolesWritten ==
  ASSUME NEW s \in [User -> Seat], NEW t \in [User -> Seat],
         NEW u \in User, NEW as, NEW w \in User, NEW too, u # w,
         t[u].role = as, t[w].role = too,
         \A v \in User \ {u, w} : t[v].role = s[v].role
  PROVE  [v \in User |-> t[v].role]
           = [[v \in User |-> s[v].role] EXCEPT ![u] = as, ![w] = too]
  OBVIOUS

\* A departure or a role change takes an owner's role only where a write is lost.
LEMMA DepartureKeepsRoster ==
  ASSUME WorkspaceInv, alive, NEW r \in Request, CommitDeparture(r)
  PROVE  \/ seat' = seat /\ lost' = lost
         \/ \E u \in User : Roster!Change(u, "none")
<1> DEFINE q == req[r]
           new == [seat EXCEPT ![q.to].role = "none"]
<1>1. q \in ReadRequest /\ q.op \in {"leave", "remove"} /\ ReadGood(q)
  BY ReadyRequest DEF CommitDeparture
<1>2. q.target.role = "owner" => q.others
  BY <1>1, ReadParts DEF ReadGood
<1>3. /\ seat' = IF Present(q.to, q.target) THEN new ELSE seat
      /\ lost' = (lost \/ (seat' # seat /\ ~Fresh(q)))
      /\ alive' = alive
  BY DEF CommitDeparture, WriteSeats
<1>4. q.to \in User
  BY <1>1, ReadParts
<1>5. seat \in [User -> Seat] /\ lost \in BOOLEAN
  BY DEF WorkspaceInv, WorkspaceTypes
<1>6. /\ new \in [User -> Seat]
      /\ new[q.to].role = "none"
      /\ \A v \in User \ {q.to} : new[v] = seat[v]
  BY <1>4, <1>5, RolesHeld, SeatWrite
<1> HIDE DEF new, q
<1>7. CASE ~Present(q.to, q.target)
  BY <1>3, <1>5, <1>7
<1>8. CASE Present(q.to, q.target)
  <2>1. seat' = new /\ seat[q.to].role # "none"
    BY <1>3, <1>8 DEF Present
  <2>2. seat' # seat
    BY <1>4, <1>6, <2>1
  <2>3. lost' \in {lost, TRUE} /\ (~lost' => ~lost /\ Fresh(q))
    BY <1>3, <1>5, <2>2 DEF Fresh
  <2>4. ASSUME ~lost' PROVE seat[q.to].role # "owner"
    <3>1. PICK o \in User : \A u \in User : seat[u].role = "owner" <=> u = o
      BY <2>3, <2>4 DEF WorkspaceInv, OneOwnerUnlessLostUpdate, OneOwner
    <3>2. QED
      BY <1>2, <1>4, <2>3, <2>4, <3>1 DEF Fresh, OtherOwners
  <2>5. [v \in User |-> seat'[v].role]
          = [[v \in User |-> seat[v].role] EXCEPT ![q.to] = "none"]
    BY <1>4, <1>5, <1>6, <2>1, OneRoleWritten
  <2>6. PICK u \in User : u = q.to
    BY <1>4
  <2>7. Roster!Change(u, "none")
    BY <1>3, <2>1, <2>3, <2>4, <2>5, <2>6 DEF Roster!Change
  <2>8. QED
    BY <2>7
<1>9. QED
  BY <1>7, <1>8

LEMMA RoleKeepsRoster ==
  ASSUME WorkspaceInv, alive, NEW r \in Request, CommitRole(r)
  PROVE  \/ seat' = seat /\ lost' = lost
         \/ \E u \in User, as \in Invitable : Roster!Change(u, as)
<1> DEFINE q == req[r]
           new == [seat EXCEPT ![q.to].role = q.as]
<1>1. q \in ReadRequest /\ q.op = "role" /\ ReadGood(q)
  BY ReadyRequest DEF CommitRole
<1>2. q.target.role # "owner"
  BY <1>1, ReadParts DEF ReadGood
<1>3. /\ seat' = IF Present(q.to, q.target) /\ q.as # q.target.role THEN new ELSE seat
      /\ lost' = (lost \/ (seat' # seat /\ ~Fresh(q)))
      /\ alive' = alive
  BY DEF CommitRole, WriteSeats
<1>4. q.to \in User /\ q.as \in Invitable
  BY <1>1, ReadParts
<1>5. seat \in [User -> Seat] /\ lost \in BOOLEAN
  BY DEF WorkspaceInv, WorkspaceTypes
<1>6. /\ new \in [User -> Seat]
      /\ new[q.to].role = q.as
      /\ \A v \in User \ {q.to} : new[v] = seat[v]
  BY <1>4, <1>5, RolesHeld, SeatWrite
<1> HIDE DEF new, q
<1>7. CASE seat' = seat
  BY <1>3, <1>5, <1>7
<1>8. CASE seat' # seat
  <2>1. seat' = new /\ seat[q.to].role # "none"
    BY <1>3, <1>8 DEF Present
  <2>2. lost' \in {lost, TRUE} /\ (~lost' => Fresh(q))
    BY <1>3, <1>5, <1>8 DEF Fresh
  <2>3. ~lost' => seat[q.to].role # "owner"
    BY <1>2, <2>2 DEF Fresh
  <2>4. [v \in User |-> seat'[v].role]
          = [[v \in User |-> seat[v].role] EXCEPT ![q.to] = q.as]
    BY <1>4, <1>5, <1>6, <2>1, OneRoleWritten
  <2>5. PICK u \in User, as \in Invitable : u = q.to /\ as = q.as
    BY <1>4
  <2>6. Roster!Change(u, as)
    BY <1>3, <2>1, <2>2, <2>3, <2>4, <2>5 DEF Roster!Change
  <2>7. QED
    BY <2>6
<1>9. QED
  BY <1>7, <1>8

\* The owner's role passes to the target, or a write is lost.
LEMMA TransferKeepsRoster ==
  ASSUME WorkspaceInv, alive, NEW r \in Request, CommitTransfer(r)
  PROVE  \/ seat' = seat /\ lost' = lost
         \/ \E from, to \in User :
              from # to /\ (Roster!HandOver(from, to) \/ Roster!HalfHandOver(from, to))
<1> DEFINE q == req[r]
           owned == [seat EXCEPT ![q.to].role = "owner"]
           promoted == IF Present(q.to, q.target) /\ q.target.role # "owner"
                         THEN owned ELSE seat
           new == [promoted EXCEPT ![q.by].role = "admin"]
<1>1. q \in ReadRequest /\ q.op = "transfer" /\ ReadGood(q) /\ RequestGood(q) /\ q # Idle
  BY ReadyRequest DEF CommitTransfer
<1>2. q.to # q.by /\ q.caller.role = "owner" /\ q.target.role # "none"
  BY <1>1, ReadParts DEF ReadGood, RequestGood
<1>3. /\ seat' = IF Present(q.by, q.caller) THEN new ELSE promoted
      /\ lost' = (lost \/ (seat' # seat /\ ~Fresh(q)))
      /\ alive' = alive
  BY DEF CommitTransfer, WriteSeats
<1>4. q.to \in User /\ q.by \in User
  BY <1>1, ReadParts
<1>5. seat \in [User -> Seat] /\ lost \in BOOLEAN
  BY DEF WorkspaceInv, WorkspaceTypes
<1>6. /\ owned \in [User -> Seat]
      /\ owned[q.to].role = "owner"
      /\ \A v \in User \ {q.to} : owned[v] = seat[v]
  BY <1>4, <1>5, RolesHeld, SeatWrite
<1>7. promoted \in [User -> Seat]
  BY <1>5, <1>6
<1>8. /\ new \in [User -> Seat]
      /\ new[q.by].role = "admin"
      /\ \A v \in User \ {q.by} : new[v] = promoted[v]
  <2> HIDE DEF promoted
  <2>1. QED
    BY <1>4, <1>7, RolesHeld, SeatWrite
<1>9. \/ promoted = owned /\ Present(q.to, q.target) /\ q.target.role # "owner"
      \/ promoted = seat /\ ~(Present(q.to, q.target) /\ q.target.role # "owner")
  OBVIOUS
<1> HIDE DEF owned, promoted, new, q
<1>10. CASE seat' = seat
  BY <1>3, <1>5, <1>10
<1>11. CASE seat' # seat /\ lost'
  <2>1. seat' \in [User -> Seat]
    BY <1>3, <1>7, <1>8
  <2>2. /\ seat'[q.by].role \in {seat[q.by].role, "admin"}
        /\ seat'[q.to].role \in {seat[q.to].role, "owner"}
        /\ \A v \in User \ {q.by, q.to} : seat'[v].role = seat[v].role
    BY <1>2, <1>3, <1>4, <1>6, <1>8, <1>9
  <2>3. [v \in User |-> seat'[v].role]
          = [[v \in User |-> seat[v].role] EXCEPT ![q.by] = seat'[q.by].role,
                                                  ![q.to] = seat'[q.to].role]
    BY <1>2, <1>4, <1>5, <2>1, <2>2, TwoRolesWritten
  <2>4. \A u \in User : seat[u].role = "none" => seat'[u].role = "none"
    BY TransferWrites
  <2>5. lost' = TRUE
    BY <1>3, <1>5, <1>11
  <2>6. PICK from \in User, to \in User : from = q.by /\ to = q.to
    BY <1>4
  <2>7. Roster!HalfHandOver(from, to)
    BY <1>3, <2>2, <2>3, <2>4, <2>5, <2>6 DEF Roster!HalfHandOver
  <2>8. QED
    BY <1>2, <2>6, <2>7
<1>12. CASE seat' # seat /\ ~lost'
  <2>1. ~lost /\ Fresh(q)
    BY <1>3, <1>5, <1>12 DEF Fresh
  <2>2. PICK o \in User : \A u \in User : seat[u].role = "owner" <=> u = o
    BY <2>1 DEF WorkspaceInv, OneOwnerUnlessLostUpdate, OneOwner
  <2>3. seat[q.to] = q.target /\ seat[q.by] = q.caller
    BY <1>1, <2>1 DEF Fresh
  <2>4. seat[q.by].role = "owner" /\ seat[q.to].role \in Invitable
    <3>1. seat[q.to].role # "owner" /\ seat[q.to].role # "none"
      BY <1>2, <1>4, <2>2, <2>3
    <3>2. seat[q.to].role \in Roles
      BY <1>4, <1>5 DEF Seat
    <3>3. QED
      BY <1>2, <2>3, <3>1, <3>2 DEF Roles, Held
  <2>5. seat' = new /\ promoted = owned
    BY <1>2, <1>3, <1>9, <2>3, <2>4, RolesHeld DEF Present
  <2>6. /\ seat'[q.by].role = "admin" /\ seat'[q.to].role = "owner"
        /\ \A v \in User \ {q.by, q.to} : seat'[v].role = seat[v].role
    BY <1>2, <1>4, <1>6, <1>8, <2>5
  <2>7. [v \in User |-> seat'[v].role]
          = [[v \in User |-> seat[v].role] EXCEPT ![q.by] = "admin", ![q.to] = "owner"]
    BY <1>2, <1>4, <1>5, <1>8, <2>5, <2>6, TwoRolesWritten
  <2>8. lost' = lost
    BY <1>3, <1>5, <1>12, <2>1
  <2>9. PICK from \in User, to \in User : from = q.by /\ to = q.to
    BY <1>4
  <2>10. Roster!HandOver(from, to)
    BY <1>3, <2>4, <2>7, <2>8, <2>9 DEF Roster!HandOver, Roster!Lesser, Invitable
  <2>11. QED
    BY <1>2, <2>9, <2>10
<1>13. QED
  BY <1>10, <1>11, <1>12

LEMMA AcceptKeepsRoster ==
  ASSUME WorkspaceInv, NEW r \in Request, CommitAccept(r)
  PROVE  \/ seat' = seat /\ lost' = lost /\ alive' = alive
         \/ alive /\ \E u \in User, as \in Invitable : Roster!Join(u, as)
<1> DEFINE q == req[r]
           row == [role |-> q.offer.role, id |-> seat[q.to].id + 1]
<1>1. q \in ReadRequest
  BY ReadyRequest DEF CommitAccept
<1>2. q.to \in User /\ q.offer.role \in Invitable
  BY <1>1, ReadParts DEF Invite
<1>3. seat \in [User -> Seat] /\ row \in Seat /\ row.role = q.offer.role
  BY <1>2, RolesHeld DEF WorkspaceInv, WorkspaceTypes, Seat
<1>4. \/ seat' = seat
      \/ /\ alive /\ seat[q.to].role = "none"
         /\ seat' = [seat EXCEPT ![q.to] = row]
  BY DEF CommitAccept
<1>5. alive' = alive /\ lost' = lost
  BY DEF CommitAccept
<1> HIDE DEF row, q
<1>6. CASE alive /\ seat[q.to].role = "none" /\ seat' = [seat EXCEPT ![q.to] = row]
  <2>1. [v \in User |-> seat'[v].role]
          = [[v \in User |-> seat[v].role] EXCEPT ![q.to] = q.offer.role]
    BY <1>2, <1>3, <1>6
  <2>2. PICK u \in User, as \in Invitable : u = q.to /\ as = q.offer.role
    BY <1>2
  <2>3. Roster!Join(u, as)
    BY <1>5, <1>6, <2>1, <2>2 DEF Roster!Join
  <2>4. QED
    BY <1>6, <2>3
<1>7. QED
  BY <1>4, <1>5, <1>6

LEMMA DeleteKeepsRoster ==
  ASSUME WorkspaceInv, NEW r \in Request, CommitDelete(r)
  PROVE  IF alive THEN Roster!Dissolve ELSE RosterVars' = RosterVars
<1>1. /\ alive' = FALSE /\ lost' = lost
      /\ \A u \in User : seat'[u].role = "none"
  BY DeleteWrites
<1>2. [u \in User |-> seat'[u].role] = [u \in User |-> "none"]
  BY <1>1
<1>3. CASE alive
  BY <1>1, <1>2, <1>3 DEF Roster!Dissolve
<1>4. CASE ~alive
  <2>1. [u \in User |-> seat[u].role] = [u \in User |-> "none"]
    BY <1>4 DEF WorkspaceInv, DeletedLeavesNothing
  <2>2. QED
    BY <1>1, <1>2, <1>4, <2>1 DEF RosterVars
<1>5. QED
  BY <1>3, <1>4

\* A workspace that is gone has no seats to write.
LEMMA DeadSeatsStay ==
  ASSUME WorkspaceInv, ~alive, NEW r \in Request,
         CommitDeparture(r) \/ CommitRole(r) \/ CommitTransfer(r)
  PROVE  seat' = seat /\ lost' = lost
<1>1. \A u \in User : seat[u].role = "none"
  BY DEF WorkspaceInv, DeletedLeavesNothing
<1>2. req[r] \in ReadRequest
  BY ReadyRequest DEF CommitDeparture, CommitRole, CommitTransfer
<1>3. ~Present(req[r].to, req[r].target) /\ ~Present(req[r].by, req[r].caller)
  BY <1>1, <1>2, ReadParts DEF Present
<1>4. lost \in BOOLEAN
  BY DEF WorkspaceInv, WorkspaceTypes
<1>5. QED
  BY <1>3, <1>4 DEF CommitDeparture, CommitRole, CommitTransfer, WriteSeats

LEMMA RosterStep ==
  ASSUME WorkspaceInv, [WorkspacesNext]_workspaceVars
  PROVE  [Roster!Next]_RosterVars
<1>1. ASSUME seat' = seat, lost' = lost, alive' = alive
      PROVE  RosterVars' = RosterVars
  BY <1>1 DEF RosterVars
<1>2. CASE UNCHANGED workspaceVars
  BY <1>1, <1>2 DEF workspaceVars, rows
<1>3. ASSUME WorkspacesNext, seat' = seat /\ lost' = lost,
             ~\E r \in Request : CommitDelete(r)
      PROVE  RosterVars' = RosterVars
  BY <1>1, <1>3, SeatsStep
<1>4. ASSUME NEW r \in Request, CommitDeparture(r) \/ CommitRole(r) \/ CommitTransfer(r)
      PROVE  [Roster!Next]_RosterVars
  <2>1. alive' = alive
    BY <1>4, DepartureWrites, RoleWrites, TransferWrites
  <2>2. CASE seat' = seat /\ lost' = lost
    BY <1>1, <2>1, <2>2
  <2>3. CASE ~(seat' = seat /\ lost' = lost)
    <3>1. alive
      BY <1>4, <2>3, DeadSeatsStay
    <3>2. CASE CommitDeparture(r)
      <4>1. PICK u \in User : Roster!Change(u, "none")
        BY <2>3, <3>1, <3>2, DepartureKeepsRoster
      <4>2. QED
        BY <3>1, <4>1 DEF Roster!Next
    <3>3. CASE CommitRole(r)
      <4>1. PICK u \in User, as \in Invitable : Roster!Change(u, as)
        BY <2>3, <3>1, <3>3, RoleKeepsRoster
      <4>2. QED
        BY <3>1, <4>1 DEF Roster!Next, Roster!Lesser, Invitable
    <3>4. CASE CommitTransfer(r)
      <4>1. PICK from \in User, to \in User :
              from # to /\ (Roster!HandOver(from, to) \/ Roster!HalfHandOver(from, to))
        BY <2>3, <3>1, <3>4, TransferKeepsRoster
      <4>2. QED
        BY <3>1, <4>1 DEF Roster!Next
    <3>5. QED
      BY <1>4, <3>2, <3>3, <3>4
  <2>4. QED
    BY <2>2, <2>3
<1>5. ASSUME NEW r \in Request, CommitAccept(r)
      PROVE  [Roster!Next]_RosterVars
  <2>1. CASE seat' = seat /\ lost' = lost /\ alive' = alive
    BY <1>1, <2>1
  <2>2. CASE alive /\ \E u \in User, as \in Invitable : Roster!Join(u, as)
    <3>1. PICK u \in User, as \in Invitable : Roster!Join(u, as)
      BY <2>2
    <3>2. QED
      BY <2>2, <3>1 DEF Roster!Next, Roster!Lesser, Invitable
  <2>3. QED
    BY <1>5, <2>1, <2>2, AcceptKeepsRoster
<1>6. ASSUME NEW r \in Request, CommitDelete(r)
      PROVE  [Roster!Next]_RosterVars
  BY <1>6, DeleteKeepsRoster DEF Roster!Next
<1>7. QED
  BY <1>2, <1>3, <1>4, <1>5, <1>6, SeatAlone

LEMMA RosterInit == WorkspacesInit => Roster!Init
<1> SUFFICES ASSUME WorkspacesInit PROVE Roster!Init
  OBVIOUS
<1>1. [u \in User |-> seat[u].role]
        = [u \in User |-> IF u = Founder THEN "owner" ELSE Staff[u]]
  BY DEF WorkspacesInit
<1>2. QED
  BY <1>1 DEF WorkspacesInit, Roster!Init

\* The requests of a workspace, each in three steps and any number of them at
\* once, implement WorkspaceRoster: its owner goes by a hand-over to a member
\* or not at all, until a write is lost, and what is dissolved stays so.
THEOREM RosterKept == WorkspacesSpec => KeepsRoster
<1>1. WorkspaceInv /\ [WorkspacesNext]_workspaceVars =>
        [Roster!Next]_<<[u \in User |-> seat[u].role], ~alive, lost>>
  BY RosterStep DEF RosterVars
<1>2. QED
  BY <1>1, RosterInit, WorkspaceInvAlways, PTL DEF WorkspacesSpec, KeepsRoster, Roster!Spec
=============================================================================
