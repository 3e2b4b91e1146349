------------------------------ MODULE Workspaces ------------------------------
(***************************************************************************)
(* The members, invites and settings of one workspace                      *)
(* (controllers/workspaces.py, routes/workspaces.py, permissions.py).      *)
(*                                                                         *)
(* A request is served in three steps.  Dependencies of the route read the *)
(* caller's role and permission in sessions of their own; the handler then *)
(* opens a transaction, reads rows without locking them, and commits what  *)
(* it computed.  Other requests commit in between: PostgreSQL's READ       *)
(* COMMITTED, so a commit writes columns of the row whatever it holds now. *)
(* SQLAlchemy writes by primary key, only columns the handler changed, and *)
(* rejects a single-row UPDATE that finds no row; asyncpg reports no count *)
(* for the two-row UPDATE of a transfer.                                   *)
(*                                                                         *)
(* A user's address is the user.  Names, slugs, e-mail and the activity    *)
(* log are left out.                                                       *)
(***************************************************************************)
EXTENDS Naturals

CONSTANTS
  User,
  Founder,     \* created the workspace
  Staff,       \* who has joined with which role when observation begins
  Invited,     \* who has an invite, as a member, they have not accepted
  Request,     \* requests that may be in progress at a time (a bound)
  Tunable,     \* permissions a settings change may name
  MaxStarted,  \* requests served in all (a bound)
  NoPatch

Invitable == {"admin", "member"}
Held == Invitable \cup {"owner"}
Roles == Held \cup {"none"}
Permission == {"members.invite", "members.remove", "members.update_role",
               "workspace.settings"}

ASSUME WorkspacesAssumption ==
  /\ Founder \in User
  /\ Staff \in [User -> Invitable \cup {"none"}]
  /\ Invited \subseteq {u \in User \ {Founder} : Staff[u] = "none"}
  /\ Tunable \subseteq Permission
  /\ MaxStarted \in Nat

VARIABLES
  alive,     \* the workspaces row is there
  seat,      \* workspace_members: each user's role, and the id of the row
  invite,    \* workspace_invites: the row of each address
  settings,  \* workspace_settings: whether the row is there, role_permissions
  req,       \* requests in progress
  started,   \* requests served so far
  lost,      \* history: a role was written over rows changed since they were read
  asked,     \* history: the permissions as the PATCHes committed ask for them
  mixed      \* history: a PATCH was merged into permissions changed since read

rows == <<alive, seat, invite, settings>>
workspaceVars == <<rows, req, started, lost, asked, mixed>>

Rank == [none |-> 0, member |-> 1, admin |-> 2, owner |-> 3]

Seat == [role : Roles, id : Nat]
Invite == [there : BOOLEAN, id : Nat, code : Nat, role : Invitable,
           accepted : BOOLEAN, expired : BOOLEAN]
Grant == [Invitable -> [Tunable -> {"unset", "yes", "no"}]]
Settings == [there : BOOLEAN, grant : Grant]
Patch == [kind : {"merge"}, role : Invitable, permission : Tunable,
          value : {"yes", "no"}] \cup [kind : {"reset"}]

Operation == {"leave", "role", "remove", "transfer", "invite", "rescind",
              "resend", "accept", "settings", "delete"}

Idle == [st |-> "idle"]
RequestType == {Idle}
  \cup [st : {"admitted"}, op : Operation, by : User, role : Roles, to : User,
        as : Invitable, patch : Patch \cup {NoPatch}]
  \cup [st : {"read"}, op : Operation, by : User, role : Roles, to : User,
        as : Invitable, patch : Patch \cup {NoPatch},
        target : Seat, caller : Seat, others : BOOLEAN,
        offer : Invite, found : Settings]

NoGrant == [r \in Invitable |-> [p \in Tunable |-> "unset"]]
NoInvite == [there |-> FALSE, id |-> 0, code |-> 0, role |-> "member",
             accepted |-> FALSE, expired |-> FALSE]

\* A workspace is created with its owner in one transaction; the others have
\* been invited since.
WorkspacesInit ==
  /\ alive = TRUE
  /\ seat = [u \in User |->
       [role |-> IF u = Founder THEN "owner" ELSE Staff[u], id |-> 0]]
  /\ invite = [u \in User |-> [NoInvite EXCEPT !.there = u \in Invited]]
  /\ settings = [there |-> FALSE, grant |-> NoGrant]
  /\ req = [r \in Request |-> Idle]
  /\ started = 0
  /\ lost = FALSE
  /\ asked = NoGrant
  /\ mixed = FALSE

-----------------------------------------------------------------------------
(* Who may do what.                                                        *)

\* resolve_role_permissions: the defaults of the role, overridden one by one.
\* Of the permissions modelled an admin has all by default, a member none.
HasPermission(role, permission) ==
  \/ role = "owner"
  \/ /\ role \in Invitable
     /\ LET set == IF permission \in Tunable
                     THEN settings.grant[role][permission] ELSE "unset"
        IN  set = "yes" \/ (set = "unset" /\ role = "admin")

Needed == [role |-> "members.update_role", remove |-> "members.remove",
           invite |-> "members.invite", rescind |-> "members.invite",
           resend |-> "members.invite"]

Admitted(op, u) ==
  \/ op = "accept"
  \/ op = "leave" /\ seat[u].role # "none"
  \/ op \in {"transfer", "settings", "delete"} /\ seat[u].role = "owner"
  \/ op \in DOMAIN Needed /\ HasPermission(seat[u].role, Needed[op])

\* Parameters a request can carry: without a use of its own, a parameter is
\* the caller, "member" or NoPatch.
WellFormed(op, u, to, as, patch) ==
  /\ op \in {"leave", "accept", "settings", "delete"} => to = u
  /\ op = "transfer" => to # u
  /\ op \notin {"role", "invite"} => as = "member"
  /\ op = "settings" <=> patch # NoPatch

Admit(r) ==
  /\ req[r] = Idle
  /\ started < MaxStarted
  /\ \E op \in Operation, u \in User : Admitted(op, u) /\
       \E to \in User, as \in Invitable, patch \in Patch \cup {NoPatch} :
         /\ WellFormed(op, u, to, as, patch)
         /\ req' = [req EXCEPT ![r] = [st |-> "admitted", op |-> op, by |-> u,
              role |-> seat[u].role, to |-> to, as |-> as, patch |-> patch]]
  /\ started' = started + 1
  /\ UNCHANGED <<rows, lost, asked, mixed>>

\* bulk_invite: one admission, one invite_user for each distinct address.
AdmitBulk(r, s) ==
  /\ r # s /\ req[r] = Idle /\ req[s] = Idle
  /\ started + 1 < MaxStarted
  /\ \E u \in User : Admitted("invite", u) /\
       \E to, too \in User, as \in Invitable :
         LET worker(a) == [st |-> "admitted", op |-> "invite", by |-> u,
               role |-> seat[u].role, to |-> a, as |-> as, patch |-> NoPatch]
         IN  /\ to # too
             /\ req' = [req EXCEPT ![r] = worker(to), ![s] = worker(too)]
  /\ started' = started + 2
  /\ UNCHANGED <<rows, lost, asked, mixed>>

-----------------------------------------------------------------------------
(* The handler's reads, and what they refuse.                              *)

OtherOwners(u) == \E o \in User \ {u} : seat[o].role = "owner"

LeaveAllowed(q) ==
  /\ seat[q.to].role # "none"
  /\ seat[q.to].role = "owner" => OtherOwners(q.to)

\* Variant: the caller's rank is compared with the new role only.
RankUnchecked(q) ==
  /\ Rank[q.role] >= Rank["admin"]
  /\ seat[q.to].role # "none"
  /\ Rank[q.as] < Rank[q.role]

\* Callers act on members strictly below their own rank, by the role the
\* dependency has read.
RoleAllowed(q) ==
  /\ Rank[q.role] >= Rank["admin"]
  /\ seat[q.to].role # "none"
  /\ Rank[seat[q.to].role] < Rank[q.role]
  /\ Rank[q.as] < Rank[q.role]

RemoveAllowed(q) ==
  /\ seat[q.to].role # "none"
  /\ q.by # q.to => /\ Rank[seat[q.to].role] < Rank[q.role]
                    /\ Rank[q.role] >= Rank["admin"]
  /\ seat[q.to].role = "owner" => OtherOwners(q.to)

\* Variant: the new owner need not be a member.
TransferToAnyone(q) == seat[q.by].role = "owner"

TransferAllowed(q) ==
  /\ seat[q.to].role # "none"
  /\ seat[q.by].role = "owner"

InviteAllowed(q) == seat[q.to].role = "none"

\* _get_invite, and the check that it is not accepted.
OfferOpen(q) == invite[q.to].there /\ ~invite[q.to].accepted

AcceptAllowed(q) == OfferOpen(q) /\ ~invite[q.to].expired

Allowed(q) ==
  \/ q.op = "leave" /\ LeaveAllowed(q)
  \/ q.op = "role" /\ RoleAllowed(q)
  \/ q.op = "remove" /\ RemoveAllowed(q)
  \/ q.op = "transfer" /\ TransferAllowed(q)
  \/ q.op = "invite" /\ InviteAllowed(q)
  \/ q.op \in {"rescind", "resend"} /\ OfferOpen(q)
  \/ q.op = "accept" /\ AcceptAllowed(q)
  \/ q.op = "settings"
  \/ q.op = "delete" /\ alive

Read(r) ==
  LET q == req[r]
  IN  /\ q.st = "admitted"
      /\ Allowed(q)
      /\ req' = [req EXCEPT ![r] = [st |-> "read", op |-> q.op, by |-> q.by,
           role |-> q.role, to |-> q.to, as |-> q.as, patch |-> q.patch,
           target |-> seat[q.to], caller |-> seat[q.by],
           others |-> OtherOwners(q.to), offer |-> invite[q.to],
           found |-> settings]]
      /\ UNCHANGED <<rows, started, lost, asked, mixed>>

\* 400, 403 or 404: nothing has been written.
Refuse(r) ==
  /\ req[r].st = "admitted"
  /\ ~Allowed(req[r])
  /\ req' = [req EXCEPT ![r] = Idle]
  /\ UNCHANGED <<rows, started, lost, asked, mixed>>

-----------------------------------------------------------------------------
(* The commits.                                                            *)

\* The row that was read is there, under the id it was read with.
Present(u, row) == seat[u].role # "none" /\ seat[u].id = row.id
SameOffer(q) == invite[q.to].there /\ invite[q.to].id = q.offer.id

\* What an ownership change was computed from still holds.
Fresh(q) ==
  /\ seat[q.to] = q.target
  /\ q.op = "transfer" => seat[q.by] = q.caller
  /\ q.target.role = "owner" => OtherOwners(q.to) = q.others

Ready(r, op) == req[r].st = "read" /\ req[r].op = op
Finish(r) == req' = [req EXCEPT ![r] = Idle] /\ UNCHANGED started

WriteSeats(q, new) ==
  /\ seat' = new
  /\ lost' = (lost \/ (new # seat /\ ~Fresh(q)))
  /\ UNCHANGED <<alive, invite, settings, asked, mixed>>

\* DELETE by id: finding no row is no error.
CommitDeparture(r) ==
  /\ Ready(r, "leave") \/ Ready(r, "remove")
  /\ LET q == req[r]
     IN  WriteSeats(q, IF Present(q.to, q.target)
                         THEN [seat EXCEPT ![q.to].role = "none"] ELSE seat)
  /\ Finish(r)

CommitRole(r) ==
  /\ Ready(r, "role")
  /\ LET q == req[r]
     IN  WriteSeats(q, IF Present(q.to, q.target) /\ q.as # q.target.role
                         THEN [seat EXCEPT ![q.to].role = q.as] ELSE seat)
  /\ Finish(r)

\* target.role = "owner"; actor.role = "admin", in one two-row UPDATE.
CommitTransfer(r) ==
  /\ Ready(r, "transfer")
  /\ LET q == req[r]
         promoted == IF Present(q.to, q.target) /\ q.target.role # "owner"
                       THEN [seat EXCEPT ![q.to].role = "owner"] ELSE seat
     IN  WriteSeats(q, IF Present(q.by, q.caller)
                         THEN [promoted EXCEPT ![q.by].role = "admin"]
                         ELSE promoted)
  /\ Finish(r)

WriteInvite(u, new) ==
  /\ invite' = [invite EXCEPT ![u] = new]
  /\ UNCHANGED <<alive, seat, settings, lost, asked, mixed>>

\* An address has one invite: a new one is written over the row there is.
CommitInvite(r) ==
  /\ Ready(r, "invite")
  /\ LET q == req[r]
         row == invite[q.to]
         renewed == [row EXCEPT
           !.code = row.code + 1, !.expired = FALSE,
           !.role = IF q.offer.role = q.as THEN @ ELSE q.as,
           !.accepted = @ /\ ~q.offer.accepted]
         added == [there |-> TRUE, id |-> row.id + 1, code |-> row.code + 1,
                   role |-> q.as, accepted |-> FALSE, expired |-> FALSE]
     IN  WriteInvite(q.to,
           CASE q.offer.there /\ SameOffer(q) -> renewed
             [] ~q.offer.there /\ alive /\ ~row.there -> added
             [] OTHER -> row)
  /\ Finish(r)

CommitRescind(r) ==
  /\ Ready(r, "rescind")
  /\ LET q == req[r]
         row == invite[q.to]
     IN  WriteInvite(q.to, IF SameOffer(q)
           THEN [NoInvite EXCEPT !.id = row.id, !.code = row.code] ELSE row)
  /\ Finish(r)

\* Only an invite that was read as expired gets a new code.
CommitResend(r) ==
  /\ Ready(r, "resend")
  /\ LET q == req[r]
         row == invite[q.to]
     IN  WriteInvite(q.to, IF SameOffer(q)
           THEN [row EXCEPT !.expired = FALSE,
                            !.code = IF q.offer.expired THEN @ + 1 ELSE @]
           ELSE row)
  /\ Finish(r)

\* Variant: the member is added whatever has become of the invite.
AcceptBlindly(r) ==
  /\ Ready(r, "accept")
  /\ LET q == req[r]
     IN  IF alive /\ seat[q.to].role = "none"
           THEN seat' = [seat EXCEPT ![q.to] =
                  [role |-> q.offer.role, id |-> @.id + 1]]
           ELSE UNCHANGED seat
  /\ UNCHANGED <<alive, invite, settings, lost, asked, mixed>>
  /\ Finish(r)

\* Variant: members are not tied to a workspace that exists.
AcceptUnchecked(r) ==
  /\ Ready(r, "accept")
  /\ LET q == req[r]
     IN  IF seat[q.to].role = "none" /\ (SameOffer(q) \/ ~alive)
           THEN seat' = [seat EXCEPT ![q.to] =
                  [role |-> q.offer.role, id |-> @.id + 1]]
           ELSE UNCHANGED seat
  /\ UNCHANGED <<alive, invite, settings, lost, asked, mixed>>
  /\ Finish(r)

\* The member is inserted and the invite marked in one transaction: a member
\* already there, a workspace or an invite gone, and neither is written.
CommitAccept(r) ==
  /\ Ready(r, "accept")
  /\ LET q == req[r]
     IN  IF alive /\ seat[q.to].role = "none" /\ SameOffer(q)
           THEN /\ seat' = [seat EXCEPT ![q.to] =
                     [role |-> q.offer.role, id |-> @.id + 1]]
                /\ invite' = [invite EXCEPT ![q.to].accepted = TRUE]
           ELSE UNCHANGED <<seat, invite>>
  /\ UNCHANGED <<alive, settings, lost, asked, mixed>>
  /\ Finish(r)

Apply(patch, grant) ==
  IF patch.kind = "reset" THEN NoGrant
  ELSE [grant EXCEPT ![patch.role][patch.permission] = patch.value]

\* Variant: a PATCH replaces the overrides instead of adding to them.
MergeReplacing(patch, grant) ==
  IF patch.kind = "reset" THEN NoGrant
  ELSE [NoGrant EXCEPT ![patch.role][patch.permission] = patch.value]

\* role_permissions after the PATCH: merged into what the handler has read.
Merge(patch, grant) == Apply(patch, grant)

CommitSettings(r) ==
  /\ Ready(r, "settings")
  /\ LET q == req[r]
         merged == Merge(q.patch, q.found.grant)
         written == IF q.found.there THEN settings.there
                    ELSE alive /\ ~settings.there
     IN  IF written
           THEN /\ settings' = [there |-> TRUE, grant |->
                     IF merged = q.found.grant THEN settings.grant ELSE merged]
                /\ asked' = Apply(q.patch, asked)
                /\ mixed' = (mixed \/ settings.grant # q.found.grant)
           ELSE UNCHANGED <<settings, asked, mixed>>
  /\ UNCHANGED <<alive, seat, invite, lost>>
  /\ Finish(r)

\* GET creates the row of defaults when there is none.
GetSettings(u) ==
  /\ HasPermission(seat[u].role, "workspace.settings")
  /\ alive /\ ~settings.there
  /\ settings' = [settings EXCEPT !.there = TRUE]
  /\ UNCHANGED <<alive, seat, invite, req, started, lost, asked, mixed>>

\* Everything that refers to the workspace goes with it.
CommitDelete(r) ==
  /\ Ready(r, "delete")
  /\ alive' = FALSE
  /\ seat' = [u \in User |-> [seat[u] EXCEPT !.role = "none"]]
  /\ invite' = [u \in User |->
       [NoInvite EXCEPT !.id = invite[u].id, !.code = invite[u].code]]
  /\ settings' = [there |-> FALSE, grant |-> NoGrant]
  /\ UNCHANGED <<lost, asked, mixed>>
  /\ Finish(r)

Commit(r) ==
  \/ CommitDeparture(r) \/ CommitRole(r) \/ CommitTransfer(r)
  \/ CommitInvite(r) \/ CommitRescind(r) \/ CommitResend(r)
  \/ CommitAccept(r) \/ CommitSettings(r) \/ CommitDelete(r)

\* Seven days, or what the settings say, have passed.
Expire(u) ==
  /\ invite[u].there /\ ~invite[u].accepted /\ ~invite[u].expired
  /\ invite' = [invite EXCEPT ![u].expired = TRUE]
  /\ UNCHANGED <<alive, seat, settings, req, started, lost, asked, mixed>>

WorkspacesNext ==
  \/ \E r \in Request :
       \/ Admit(r) \/ \E s \in Request : AdmitBulk(r, s)
       \/ Read(r) \/ Refuse(r) \/ Commit(r)
  \/ \E u \in User : GetSettings(u) \/ Expire(u)

WorkspacesSpec == WorkspacesInit /\ [][WorkspacesNext]_workspaceVars

-----------------------------------------------------------------------------
(* Properties.                                                             *)

WorkspaceTypes ==
  /\ alive \in BOOLEAN
  /\ seat \in [User -> Seat]
  /\ invite \in [User -> Invite]
  /\ settings \in Settings
  /\ req \in [Request -> RequestType]
  /\ started \in 0..MaxStarted
  /\ lost \in BOOLEAN /\ mixed \in BOOLEAN
  /\ asked \in Grant

\* A workspace has one owner: "never left with two owners or none"
\* (transfer_ownership).
OneOwner == alive =>
  \E o \in User : \A u \in User : seat[u].role = "owner" <=> u = o

\* What the handlers keep: only a write over rows that have changed since they
\* were read costs a workspace its single owner, however old the role the
\* dependency has read, and whatever leaves, removals, transfers and role
\* changes came before.
OneOwnerUnlessLostUpdate == ~lost => OneOwner

\* A workspace that is deleted takes everything with it, and requests that
\* were in progress leave nothing of it behind.
DeletedLeavesNothing == ~alive =>
  /\ \A u \in User : seat[u].role = "none" /\ ~invite[u].there
  /\ ~settings.there

\* Overrides of permissions are those the PATCHes asked for, each on top of
\* the ones before, unless two PATCHes overlapped.
OverridesKept == alive /\ ~mixed => settings.grant = asked

\* A revoked invite admits nobody, even if it was being accepted: who joins
\* does so through the row that is there, with the role they accepted.
RevokedAdmitsNobody == [][\A u \in User :
  seat[u].role = "none" /\ seat'[u].role # "none" =>
    /\ invite[u].there
    /\ \E r \in Request :
         /\ Ready(r, "accept") /\ req[r].to = u
         /\ req[r].offer.id = invite[u].id
         /\ seat'[u].role = req[r].offer.role]_workspaceVars

Roster == INSTANCE WorkspaceRoster WITH
  role <- [u \in User |-> seat[u].role],
  dissolved <- ~alive,
  overwritten <- lost

\* Requests that interleave between admission, reads and commit keep the promise
\* of WorkspaceRoster: the owner's role passes on to a member in one step or
\* stays, whoever else leaves or changes meanwhile, and nobody is in a workspace
\* that has been deleted.
KeepsRoster == Roster!Spec
=============================================================================
