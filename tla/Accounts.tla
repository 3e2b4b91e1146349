------------------------------- MODULE Accounts -------------------------------
(***************************************************************************)
(* Accounts and sessions (controllers/auth.py, pgdatabase/users.py,        *)
(* pgdatabase/otp.py, dependencies.py).                                    *)
(*                                                                         *)
(* A handler awaits between its database calls, each a transaction of its  *)
(* own, and while bcrypt runs on a thread: other requests are served in    *)
(* between.  A session is a signed token that names an account and the     *)
(* version its row had; nothing of it is stored.  A process may stop       *)
(* between two steps of a request, or a step may raise.                    *)
(*                                                                         *)
(* Passwords stand for their hashes.  E-mail, rate limits, the kind claim  *)
(* of tokens (access and refresh are two sets) and names are left out.     *)
(***************************************************************************)
EXTENDS Naturals

CONSTANTS
  UserId,         \* ids of rows of users
  First,        \* who may be registered when observation begins
  Address,
  Password,
  NoPassword,   \* hashed_pass of an account made by Google
  Identity,     \* Google accounts
  NoIdentity,
  Link,         \* password-reset links that may be sent (a bound)
  Session,      \* requests that may be in progress at a time (a bound)
  MaxAttempts,  \* MAX_OTP_ATTEMPTS
  MaxVersion,   \* password changes of an account (a bound)
  MaxServed     \* requests served in all (a bound)

ASSUME AccountsAssumption ==
  /\ First \in UserId
  /\ NoPassword \notin Password
  /\ NoIdentity \notin Identity
  /\ MaxAttempts \in Nat \ {0}
  /\ MaxVersion \in Nat
  /\ MaxServed \in Nat

VARIABLES
  account,   \* users
  code,      \* otp_codes: the sign-up code of each account
  link,      \* password_reset_tokens
  access,    \* access tokens somebody holds
  refresh,   \* refresh tokens somebody holds
  call,      \* requests in progress
  served     \* requests served so far

accountVars == <<account, code, link, access, refresh, call, served>>

NoAccount == [there |-> FALSE]
Account == [there : {TRUE}, email : Address, pass : Password \cup {NoPassword},
            verified : BOOLEAN, version : 0..MaxVersion,
            identity : Identity \cup {NoIdentity}]

\* attempts counts wrong guesses; history: compared and opened count the times
\* the code was compared with a guess, and opened an account.
NoCode == [there |-> FALSE]
Code == [there : {TRUE}, used : BOOLEAN, expired : BOOLEAN,
         attempts : Nat, compared : Nat, opened : Nat]
NewCode == [there |-> TRUE, used |-> FALSE, expired |-> FALSE,
            attempts |-> 0, compared |-> 0, opened |-> 0]

\* history: writes counts the times the link has set the password.
Unsent == [st |-> "unsent"]
LinkType == {Unsent} \cup [st : {"sent", "expired", "consumed"}, user : UserId,
                           writes : Nat]

\* history: pass is the password the account had when the session was opened,
\* via the Google account that opened it.
Token == [user : UserId, version : 0..MaxVersion,
          pass : Password \cup {NoPassword}, via : Identity \cup {NoIdentity}]

Free == [st |-> "free"]
CallType == {Free}
  \cup [st : {"creating"}, email : Address, pass : Password]
  \cup [st : {"issuing"}, user : UserId, again : BOOLEAN]
  \cup [st : {"comparing", "guessing", "marking", "linking", "changing", "renewing"},
        token : Token, verified : BOOLEAN]
  \cup [st : {"editing"}, user : UserId, email : Address, moved : BOOLEAN]
  \cup [st : {"resetting"}, link : Link, user : UserId]
  \cup [st : {"joining"}, email : Address, identity : Identity, trusted : BOOLEAN]

There(u) == account[u].there
Registered(e) == {u \in UserId : There(u) /\ account[u].email = e}
Linked(g) == {u \in UserId : There(u) /\ account[u].identity = g}

\* Variant: the row has no token_version.
NewUnversioned(e, p, verified, g) ==
  [there |-> TRUE, email |-> e, pass |-> p, verified |-> verified, identity |-> g]

NewAccount(e, p, verified, g) ==
  [there |-> TRUE, email |-> e, pass |-> p, verified |-> verified,
   version |-> 0, identity |-> g]

AccountsInit ==
  /\ \/ account = [u \in UserId |-> NoAccount]
     \/ \E e \in Address, p \in Password, v \in BOOLEAN :
          account = [u \in UserId |->
            IF u = First THEN NewAccount(e, p, v, NoIdentity) ELSE NoAccount]
  /\ code = [u \in UserId |-> NoCode]
  /\ link = [l \in Link |-> Unsent]
  /\ access = {} /\ refresh = {}
  /\ call = [s \in Session |-> Free]
  /\ served = 0

-----------------------------------------------------------------------------
(* Sessions.                                                               *)

\* The token create_jwt makes of a row that was read.
TokenOf(u, g) == [user |-> u, version |-> account[u].version,
                  pass |-> account[u].pass, via |-> g]

\* Variant: the version is read again when the token is made.
MintAgain(t) ==
  LET now == IF There(t.user)
               THEN [t EXCEPT !.version = account[t.user].version] ELSE t
  IN  /\ access' = access \cup {now}
      /\ refresh' = refresh \cup {now}

Mint(t) ==
  /\ access' = access \cup {t}
  /\ refresh' = refresh \cup {t}

\* _token_version_is_current
Current(t) == There(t.user) /\ t.version = account[t.user].version

Begin(s, next) ==
  /\ call[s] = Free
  /\ served < MaxServed
  /\ served' = served + 1
  /\ call' = [call EXCEPT ![s] = next]

Go(s, next) == call' = [call EXCEPT ![s] = next] /\ UNCHANGED served
End(s) == Go(s, Free)

\* An error is returned, a step raises, or the process stops: what has been
\* committed stays.
Abandon(s) ==
  /\ call[s] # Free
  /\ End(s)
  /\ UNCHANGED <<account, code, link, access, refresh>>

\* A token expires, or its holder logs out.
SessionEnds ==
  /\ \/ \E t \in access : access' = access \ {t} /\ UNCHANGED refresh
     \/ \E t \in refresh : refresh' = refresh \ {t} /\ UNCHANGED access
  /\ UNCHANGED <<account, code, link, call, served>>

-----------------------------------------------------------------------------
(* Sign-up, and the code that proves an address.                           *)

\* verify_email lets the address pass and nobody has it.
Signup(s) == \E e \in Address, p \in Password :
  /\ Registered(e) = {}
  /\ Begin(s, [st |-> "creating", email |-> e, pass |-> p])
  /\ UNCHANGED <<account, code, link, access, refresh>>

\* create_user: the address may have been taken since.
CreateUser(s) ==
  /\ call[s].st = "creating"
  /\ Registered(call[s].email) = {}
  /\ \E u \in {v \in UserId : ~There(v)} :
       /\ account' = [account EXCEPT ![u] =
            NewAccount(call[s].email, call[s].pass, FALSE, NoIdentity)]
       /\ Go(s, [st |-> "issuing", user |-> u, again |-> FALSE])
  /\ UNCHANGED <<code, link, access, refresh>>

\* create_otp: the code there was is deleted.
IssueCode(s) ==
  /\ call[s].st = "issuing"
  /\ code' = [code EXCEPT ![call[s].user] = NewCode]
  /\ End(s)
  /\ UNCHANGED <<account, link, access, refresh>>

\* Two codes cannot be written at a time: a resend that fails deletes the code
\* there is and tries once more.
DropCode(s) ==
  /\ call[s].st = "issuing" /\ call[s].again
  /\ code' = [code EXCEPT ![call[s].user] = NoCode]
  /\ Go(s, [call[s] EXCEPT !.again = FALSE])
  /\ UNCHANGED <<account, link, access, refresh>>

Resend(s) == \E e \in Address : \E u \in Registered(e) :
  /\ ~account[u].verified
  /\ Begin(s, [st |-> "issuing", user |-> u, again |-> TRUE])
  /\ UNCHANGED <<account, code, link, access, refresh>>

VerifyEmail(s) == \E e \in Address : \E u \in Registered(e) :
  /\ ~account[u].verified
  /\ Begin(s, [st |-> "guessing", token |-> TokenOf(u, NoIdentity),
               verified |-> FALSE])
  /\ UNCHANGED <<account, code, link, access, refresh>>

\* Variant: the attempt that reaches the limit is still answered.
AnswersOneMore(c) ==
  c.there /\ ~c.used /\ ~c.expired /\ c.attempts <= MaxAttempts

\* verify_otp, up to the comparison.
Answers(c) == c.there /\ ~c.used /\ ~c.expired /\ c.attempts < MaxAttempts

\* The row is locked from the read to the commit.
GuessRight(s) ==
  /\ call[s].st = "guessing"
  /\ LET u == call[s].token.user
     IN  /\ Answers(code[u])
         /\ code' = [code EXCEPT ![u].used = TRUE, ![u].compared = @ + 1,
                                 ![u].opened = @ + 1]
  /\ Go(s, [call[s] EXCEPT !.st = "marking"])
  /\ UNCHANGED <<account, link, access, refresh>>

GuessWrong(s) ==
  /\ call[s].st = "guessing"
  /\ LET u == call[s].token.user
     IN  /\ Answers(code[u])
         /\ code' = [code EXCEPT ![u].attempts = @ + 1, ![u].compared = @ + 1]
  /\ End(s)
  /\ UNCHANGED <<account, link, access, refresh>>

MarkVerified(s) ==
  /\ call[s].st = "marking"
  /\ account' = [account EXCEPT ![call[s].token.user].verified = TRUE]
  /\ Mint(call[s].token)
  /\ End(s)
  /\ UNCHANGED <<code, link>>

CodeExpires(u) ==
  /\ code[u].there /\ ~code[u].used /\ ~code[u].expired
  /\ code' = [code EXCEPT ![u].expired = TRUE]
  /\ UNCHANGED <<account, link, access, refresh, call, served>>

-----------------------------------------------------------------------------
(* Signing in with a password, renewing, changing the profile.             *)

\* The row is read before bcrypt compares the password it holds.
ReadLogin(s) == \E e \in Address : \E u \in Registered(e) :
  /\ account[u].pass # NoPassword
  /\ Begin(s, [st |-> "comparing", token |-> TokenOf(u, NoIdentity),
               verified |-> account[u].verified])
  /\ UNCHANGED <<account, code, link, access, refresh>>

\* The password was right and the address is verified; otherwise Abandon.
Login(s) ==
  /\ call[s].st = "comparing"
  /\ call[s].verified
  /\ Mint(call[s].token)
  /\ End(s)
  /\ UNCHANGED <<account, code, link>>

ReadRefresh(s) == \E t \in refresh :
  /\ Current(t)
  /\ Begin(s, [st |-> "renewing", token |-> t, verified |-> FALSE])
  /\ UNCHANGED <<account, code, link, access, refresh>>

\* get_me, then an access token with the version of the refresh token.
Renew(s) ==
  /\ call[s].st = "renewing"
  /\ account[call[s].token.user].verified
  /\ access' = access \cup {call[s].token}
  /\ End(s)
  /\ UNCHANGED <<account, code, link, refresh>>

\* update_profile, up to the write: whether the address has changed is decided
\* here.
EditProfile(s) == \E t \in access, e \in Address :
  /\ Current(t)
  /\ Registered(e) \subseteq {t.user}
  /\ Begin(s, [st |-> "editing", user |-> t.user, email |-> e,
               moved |-> account[t.user].email # e])
  /\ UNCHANGED <<account, code, link, access, refresh>>

\* update_user: the address may have been taken since.
WriteProfile(s) ==
  LET c == call[s]
  IN  /\ c.st = "editing"
      /\ Registered(c.email) \subseteq {c.user}
      /\ account' = [account EXCEPT ![c.user].email = c.email,
                       ![c.user].verified = @ /\ ~c.moved]
      /\ IF c.moved
           THEN Go(s, [st |-> "issuing", user |-> c.user, again |-> FALSE])
           ELSE End(s)
      /\ UNCHANGED <<code, link, access, refresh>>

-----------------------------------------------------------------------------
(* Changing and resetting the password.                                    *)

\* set_password_and_revoke_sessions: one UPDATE.
SetPassword(u, p) ==
  /\ account[u].version < MaxVersion
  /\ account' = [account EXCEPT ![u].pass = p, ![u].version = @ + 1]

\* get_current_user, then the row whose password is compared.
ReadChange(s) == \E t \in access :
  /\ Current(t)
  /\ account[t.user].pass # NoPassword
  /\ Begin(s, [st |-> "changing", token |-> TokenOf(t.user, NoIdentity),
               verified |-> FALSE])
  /\ UNCHANGED <<account, code, link, access, refresh>>

\* The old password was right: the caller gets the version the UPDATE returned.
ChangePassword(s) == \E p \in Password :
  LET u == call[s].token.user
  IN  /\ call[s].st = "changing"
      /\ SetPassword(u, p)
      /\ Mint([call[s].token EXCEPT !.version = account'[u].version, !.pass = p])
      /\ End(s)
      /\ UNCHANGED <<code, link>>

\* request_password_reset: accounts with a password only.
SendLink(l) == \E e \in Address : \E u \in Registered(e) :
  /\ link[l] = Unsent
  /\ served < MaxServed
  /\ account[u].pass # NoPassword
  /\ link' = [link EXCEPT ![l] = [st |-> "sent", user |-> u, writes |-> 0]]
  /\ served' = served + 1
  /\ UNCHANGED <<account, code, access, refresh, call>>

LinkExpires(l) ==
  /\ link[l].st = "sent"
  /\ link' = [link EXCEPT ![l].st = "expired"]
  /\ UNCHANGED <<account, code, access, refresh, call, served>>

\* Variant: a link that was consumed is taken again.
ConsumeAgain(s) == \E l \in Link :
  /\ link[l].st \in {"sent", "consumed"}
  /\ link' = [link EXCEPT ![l].st = "consumed"]
  /\ Begin(s, [st |-> "resetting", link |-> l, user |-> link[l].user])
  /\ UNCHANGED <<account, code, access, refresh>>

\* The record is locked, checked and marked in one transaction.
ConsumeLink(s) == \E l \in Link :
  /\ link[l].st = "sent"
  /\ link' = [link EXCEPT ![l].st = "consumed"]
  /\ Begin(s, [st |-> "resetting", link |-> l, user |-> link[l].user])
  /\ UNCHANGED <<account, code, access, refresh>>

\* In a transaction of its own, after bcrypt.
ResetPassword(s) == \E p \in Password :
  /\ call[s].st = "resetting"
  /\ SetPassword(call[s].user, p)
  /\ link' = [link EXCEPT ![call[s].link].writes = @ + 1]
  /\ End(s)
  /\ UNCHANGED <<code, access, refresh>>

-----------------------------------------------------------------------------
(* Signing in with Google.                                                 *)

GoogleKnown(s) == \E g \in Identity : \E u \in Linked(g) :
  /\ served < MaxServed
  /\ call[s] = Free
  /\ Mint(TokenOf(u, g))
  /\ served' = served + 1
  /\ UNCHANGED <<account, code, link, call>>

\* Nobody has the identity yet.  An address Google vouches for is looked up;
\* an account that has it must have proved it.
GoogleNew(s) == \E g \in Identity, e \in Address, trusted \in BOOLEAN :
  /\ Linked(g) = {}
  /\ IF trusted /\ Registered(e) # {}
       THEN \E u \in Registered(e) :
              /\ account[u].verified
              /\ Begin(s, [st |-> "linking", token |-> TokenOf(u, g),
                           verified |-> TRUE])
       ELSE Begin(s, [st |-> "joining", email |-> e, identity |-> g,
                      trusted |-> trusted])
  /\ UNCHANGED <<account, code, link, access, refresh>>

\* update_user and the session; an identity has one account.
GoogleLink(s) ==
  /\ call[s].st = "linking"
  /\ LET t == call[s].token
     IN  /\ Linked(t.via) \subseteq {t.user}
         /\ account' = [account EXCEPT ![t.user].identity = t.via]
         /\ Mint(t)
  /\ End(s)
  /\ UNCHANGED <<code, link>>

GoogleCreate(s) ==
  LET c == call[s]
  IN  /\ c.st = "joining"
      /\ Registered(c.email) = {} /\ Linked(c.identity) = {}
      /\ \E u \in {v \in UserId : ~There(v)} :
           /\ account' = [account EXCEPT ![u] =
                NewAccount(c.email, NoPassword, c.trusted, c.identity)]
           /\ Mint([user |-> u, version |-> 0, pass |-> NoPassword,
                    via |-> c.identity])
      /\ End(s)
      /\ UNCHANGED <<code, link>>

\* Variant: whoever has the address by now is signed in.
JoinByAddress(s) ==
  /\ call[s].st = "joining"
  /\ \E u \in Registered(call[s].email) : Mint(TokenOf(u, call[s].identity))
  /\ End(s)
  /\ UNCHANGED <<account, code, link>>

\* The row could not be inserted: only whoever has the identity by now is
\* signed in.
GoogleRaced(s) ==
  /\ call[s].st = "joining"
  /\ \E u \in Linked(call[s].identity) : Mint(TokenOf(u, call[s].identity))
  /\ End(s)
  /\ UNCHANGED <<account, code, link>>

AccountsNext ==
  \/ \E s \in Session :
       \/ Signup(s) \/ CreateUser(s) \/ IssueCode(s) \/ DropCode(s) \/ Resend(s)
       \/ VerifyEmail(s) \/ GuessRight(s) \/ GuessWrong(s) \/ MarkVerified(s)
       \/ ReadLogin(s) \/ Login(s) \/ ReadRefresh(s) \/ Renew(s)
       \/ EditProfile(s) \/ WriteProfile(s) \/ ReadChange(s) \/ ChangePassword(s)
       \/ ConsumeLink(s) \/ ResetPassword(s)
       \/ GoogleKnown(s) \/ GoogleNew(s) \/ GoogleLink(s) \/ GoogleCreate(s)
       \/ GoogleRaced(s) \/ Abandon(s)
  \/ \E u \in UserId : CodeExpires(u)
  \/ \E l \in Link : SendLink(l) \/ LinkExpires(l)
  \/ SessionEnds

AccountsSpec == AccountsInit /\ [][AccountsNext]_accountVars

-----------------------------------------------------------------------------
(* Properties.                                                             *)

AccountTypes ==
  /\ account \in [UserId -> {NoAccount} \cup Account]
  /\ code \in [UserId -> {NoCode} \cup Code]
  /\ link \in [Link -> LinkType]
  /\ access \subseteq Token /\ refresh \subseteq Token
  /\ call \in [Session -> CallType]
  /\ served \in 0..MaxServed

\* A session that is let in was opened against the password the account has
\* now: no login, renewal, verification or Google sign-in that was in progress
\* while the password changed brings a session of the old one back.
SessionsEndWithPassword == \A t \in access \cup refresh :
  Current(t) => t.pass = account[t.user].pass

\* However guesses, resends and verifications interleave, a code is compared
\* at most MaxAttempts times and opens its account once.
CodeSpentOnce == \A u \in UserId : code[u].there =>
  code[u].compared <= MaxAttempts /\ code[u].opened <= 1

\* A reset link sets a password at most once, and never after it has expired
\* unused.
LinkSpentOnce == \A l \in Link : link[l] # Unsent =>
  link[l].writes <= (IF link[l].st = "consumed" THEN 1 ELSE 0)

\* A Google sign-in opens a session of the account its identity is linked to
\* and of no other, also when another request took the address or the identity
\* meanwhile.
OpensItsOwn == \A t \in refresh' \ refresh :
  t.via # NoIdentity => account'[t.user].there /\ account'[t.user].identity = t.via
GoogleOpensItsOwn == [][OpensItsOwn]_accountVars
=============================================================================
