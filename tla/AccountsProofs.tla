----------------------------- MODULE AccountsProofs -----------------------------
(***************************************************************************)
(* What holds of accounts and sessions for any number of rows, requests,   *)
(* links, identities and password changes.                                 *)
(*                                                                         *)
(* Tokens are never taken back, so that a session ends with its password   *)
(* needs more than what is said of the sessions that are let in: every     *)
(* token somebody holds, and every token a request is about to make, has a *)
(* version its row has had, and where it is the row's version of now, the  *)
(* row's password of now (TokenGood).  Rows are never deleted, versions    *)
(* never go back, and the password changes only with the version, so       *)
(* whatever happens to the rows keeps it (Grows).  In the same way a       *)
(* request that resets a password relies on being the only one that took   *)
(* its link.                                                               *)
(*                                                                         *)
(* The parts are stated of values, so that they can be used before and     *)
(* after a step.                                                           *)
(***************************************************************************)
EXTENDS MCPeople, WorkspacesProofs, TLAPS

Rows == [UserId -> {NoAccount} \cup Account]
Links == [Link -> LinkType]
Codes == [UserId -> {NoCode} \cup Code]

CreatingCall == [st : {"creating"}, email : Address, pass : Password]
IssuingCall == [st : {"issuing"}, user : UserId, again : BOOLEAN]
TokenCall == [st : {"comparing", "guessing", "marking", "linking", "changing",
                    "renewing"}, token : Token, verified : BOOLEAN]
EditingCall == [st : {"editing"}, user : UserId, email : Address, moved : BOOLEAN]
ResettingCall == [st : {"resetting"}, link : Link, user : UserId]
JoiningCall == [st : {"joining"}, email : Address, identity : Identity,
                trusted : BOOLEAN]

TokenGood(t, a) ==
  /\ t \in Token
  /\ a[t.user].there
  /\ t.version <= a[t.user].version
  /\ t.version = a[t.user].version => t.pass = a[t.user].pass

\* What a request in progress relies on.
CallGood(c, a, k) ==
  /\ c \in CallType
  /\ c \in TokenCall => TokenGood(c.token, a)
  /\ c.st \in {"comparing", "guessing", "marking", "changing"} =>
       c.token.via = NoIdentity
  /\ c.st \in {"issuing", "editing", "resetting"} => a[c.user].there
  /\ c.st = "resetting" => k[c.link].st = "consumed" /\ k[c.link].writes = 0

CodeGood(c) ==
  c.there => /\ c.opened = (IF c.used THEN 1 ELSE 0)
             /\ c.compared = c.attempts + c.opened
             /\ c.compared <= MaxAttempts

LinkGood(k, a) ==
  k # Unsent => /\ a[k.user].there
                /\ k.writes <= (IF k.st = "consumed" THEN 1 ELSE 0)

\* A link is used by one request.
OneTaker(calls) ==
  \A s, r \in Session :
    (calls[s].st = "resetting" /\ calls[r].st = "resetting"
       /\ calls[s].link = calls[r].link) => s = r

Inv ==
  /\ account \in Rows /\ code \in Codes /\ link \in Links
  /\ served \in 0 .. MaxServed
  /\ \A t \in access \cup refresh : TokenGood(t, account)
  /\ call \in [Session -> CallType]
  /\ \A s \in Session : CallGood(call[s], account, link)
  /\ \A u \in UserId : CodeGood(code[u])
  /\ \A l \in Link : LinkGood(link[l], account)
  /\ OneTaker(call)

\* What any step may do to the rows.
Grows(a, b) ==
  \A u \in UserId : a[u].there =>
    /\ b[u].there
    /\ a[u].version <= b[u].version
    /\ b[u].version = a[u].version => b[u].pass = a[u].pass

-----------------------------------------------------------------------------
(* Values.                                                                 *)

LEMMA RowFields ==
  ASSUME NEW a \in Rows, NEW u \in UserId, a[u].there
  PROVE  a[u] \in Account
  BY DEF Rows, NoAccount

LEMMA VersionIsNat ==
  ASSUME NEW a \in Rows, NEW u \in UserId, a[u].there
  PROVE  a[u].version \in Nat /\ a[u].version \in 0 .. MaxVersion
<1>1. a[u] \in Account
  BY RowFields
<1>2. a[u].version \in 0 .. MaxVersion
  BY <1>1 DEF Account
<1>3. QED
  BY <1>2, AccountsAssumption

LEMMA NewAccountType ==
  ASSUME NEW e \in Address, NEW p \in Password \cup {NoPassword}, NEW v \in BOOLEAN,
         NEW g \in Identity \cup {NoIdentity}
  PROVE  NewAccount(e, p, v, g) \in Account
  BY AccountsAssumption DEF NewAccount, Account

LEMMA GrowsKeepsToken ==
  ASSUME NEW a \in Rows, NEW b \in Rows, Grows(a, b), NEW t, TokenGood(t, a)
  PROVE  TokenGood(t, b)
<1>1. t.user \in UserId /\ t.version \in Nat
  BY AccountsAssumption DEF TokenGood, Token
<1>2. a[t.user].version \in Nat /\ b[t.user].version \in Nat
  BY <1>1, VersionIsNat DEF Grows, TokenGood
<1>3. /\ a[t.user].there /\ b[t.user].there
      /\ a[t.user].version <= b[t.user].version
      /\ b[t.user].version = a[t.user].version => b[t.user].pass = a[t.user].pass
      /\ t.version <= a[t.user].version
      /\ t.version = a[t.user].version => t.pass = a[t.user].pass
  BY <1>1 DEF Grows, TokenGood
<1>4. t \in Token
  BY DEF TokenGood
<1>5. QED
  BY <1>1, <1>2, <1>3, <1>4 DEF TokenGood

(* The calls by their stage.                                               *)
LEMMA CallKinds ==
  ASSUME NEW c \in CallType
  PROVE  /\ c.st = "creating" => c \in CreatingCall
         /\ c.st = "issuing" => c \in IssuingCall
         /\ c.st \in {"comparing", "guessing", "marking", "linking", "changing",
                      "renewing"} => c \in TokenCall
         /\ c.st = "editing" => c \in EditingCall
         /\ c.st = "resetting" => c \in ResettingCall
         /\ c.st = "joining" => c \in JoiningCall
  BY DEF CallType, Free, CreatingCall, IssuingCall, TokenCall, EditingCall,
         ResettingCall, JoiningCall

LEMMA KindsAreCalls ==
  CreatingCall \cup IssuingCall \cup TokenCall \cup EditingCall \cup ResettingCall
    \cup JoiningCall \cup {Free} \subseteq CallType
  BY DEF CallType, CreatingCall, IssuingCall, TokenCall, EditingCall,
         ResettingCall, JoiningCall

LEMMA TokenOfGood ==
  ASSUME account \in Rows, NEW u \in UserId, There(u),
         NEW g \in Identity \cup {NoIdentity}
  PROVE  TokenGood(TokenOf(u, g), account) /\ TokenOf(u, g).via = g
<1>1. account[u] \in Account /\ account[u].version \in Nat
  BY RowFields, VersionIsNat DEF There
<1>2. TokenOf(u, g) \in Token
  BY <1>1 DEF TokenOf, Token, Account
<1>3. TokenOf(u, g).user = u /\ TokenOf(u, g).version = account[u].version
      /\ TokenOf(u, g).pass = account[u].pass /\ TokenOf(u, g).via = g
  BY DEF TokenOf
<1>4. QED
  BY <1>1, <1>2, <1>3 DEF TokenGood, There

LEMMA RegisteredRows ==
  \A e : \A u \in Registered(e) : u \in UserId /\ There(u)
  BY DEF Registered

LEMMA LinkedRows ==
  \A g : \A u \in Linked(g) : u \in UserId /\ There(u) /\ account[u].identity = g
  BY DEF Linked

-----------------------------------------------------------------------------
(* Which actions touch what.                                               *)

LEMMA RowsAlone ==
  ASSUME AccountsNext
  PROVE  \/ account' = account
         \/ \E s \in Session :
              \/ CreateUser(s) \/ MarkVerified(s) \/ WriteProfile(s)
              \/ ChangePassword(s) \/ ResetPassword(s) \/ GoogleLink(s)
              \/ GoogleCreate(s)
<1>1. ASSUME NEW s \in Session,
             Signup(s) \/ IssueCode(s) \/ DropCode(s) \/ Resend(s) \/ VerifyEmail(s) \/
               GuessRight(s) \/ GuessWrong(s) \/ ReadLogin(s) \/ Login(s)
      PROVE  account' = account
  BY <1>1
     DEF Signup, IssueCode, DropCode, Resend, VerifyEmail, GuessRight, GuessWrong,
         ReadLogin, Login
<1>2. ASSUME NEW s \in Session,
             ReadRefresh(s) \/ Renew(s) \/ EditProfile(s) \/ ReadChange(s) \/
               ConsumeLink(s) \/ GoogleKnown(s) \/ GoogleNew(s) \/ GoogleRaced(s) \/
               Abandon(s)
      PROVE  account' = account
  BY <1>2
     DEF ReadRefresh, Renew, EditProfile, ReadChange, ConsumeLink, GoogleKnown,
         GoogleNew, GoogleRaced, Abandon
<1>3. ASSUME \/ \E u \in UserId : CodeExpires(u)
             \/ \E l \in Link : SendLink(l) \/ LinkExpires(l)
             \/ SessionEnds
      PROVE  account' = account
  BY <1>3 DEF CodeExpires, SendLink, LinkExpires, SessionEnds
<1>4. QED
  BY <1>1, <1>2, <1>3 DEF AccountsNext

LEMMA TokensAlone ==
  ASSUME AccountsNext
  PROVE  \/ access' \subseteq access /\ refresh' \subseteq refresh
         \/ \E s \in Session :
              \/ MarkVerified(s) \/ Login(s) \/ Renew(s) \/ ChangePassword(s)
              \/ GoogleKnown(s) \/ GoogleLink(s) \/ GoogleCreate(s) \/ GoogleRaced(s)
<1>1. ASSUME NEW s \in Session,
             Signup(s) \/ CreateUser(s) \/ IssueCode(s) \/ DropCode(s) \/ Resend(s) \/
               VerifyEmail(s) \/ GuessRight(s) \/ GuessWrong(s) \/ ReadLogin(s)
      PROVE  access' \subseteq access /\ refresh' \subseteq refresh
  BY <1>1
     DEF Signup, CreateUser, IssueCode, DropCode, Resend, VerifyEmail, GuessRight,
         GuessWrong, ReadLogin
<1>2. ASSUME NEW s \in Session,
             ReadRefresh(s) \/ EditProfile(s) \/ WriteProfile(s) \/ ReadChange(s) \/
               ConsumeLink(s) \/ ResetPassword(s) \/ GoogleNew(s) \/ Abandon(s)
      PROVE  access' \subseteq access /\ refresh' \subseteq refresh
  BY <1>2
     DEF ReadRefresh, EditProfile, WriteProfile, ReadChange, ConsumeLink,
         ResetPassword, GoogleNew, Abandon
<1>3. ASSUME \/ \E u \in UserId : CodeExpires(u)
             \/ \E l \in Link : SendLink(l) \/ LinkExpires(l)
             \/ SessionEnds
      PROVE  access' \subseteq access /\ refresh' \subseteq refresh
  BY <1>3 DEF CodeExpires, SendLink, LinkExpires, SessionEnds
<1>4. QED
  BY <1>1, <1>2, <1>3 DEF AccountsNext

LEMMA CodesAlone ==
  ASSUME AccountsNext
  PROVE  \/ code' = code
         \/ \E s \in Session :
              IssueCode(s) \/ DropCode(s) \/ GuessRight(s) \/ GuessWrong(s)
         \/ \E u \in UserId : CodeExpires(u)
<1>1. ASSUME NEW s \in Session,
             Signup(s) \/ CreateUser(s) \/ Resend(s) \/ VerifyEmail(s) \/
               MarkVerified(s) \/ ReadLogin(s) \/ Login(s) \/ ReadRefresh(s) \/ Renew(s)
               \/ EditProfile(s) \/ WriteProfile(s)
      PROVE  code' = code
  BY <1>1
     DEF Signup, CreateUser, Resend, VerifyEmail, MarkVerified, ReadLogin, Login,
         ReadRefresh, Renew, EditProfile, WriteProfile
<1>2. ASSUME NEW s \in Session,
             ReadChange(s) \/ ChangePassword(s) \/ ConsumeLink(s) \/ ResetPassword(s)
               \/ GoogleKnown(s) \/ GoogleNew(s) \/ GoogleLink(s) \/ GoogleCreate(s) \/
               GoogleRaced(s) \/ Abandon(s)
      PROVE  code' = code
  BY <1>2
     DEF ReadChange, ChangePassword, ConsumeLink, ResetPassword, GoogleKnown,
         GoogleNew, GoogleLink, GoogleCreate, GoogleRaced, Abandon
<1>3. ASSUME \/ \E l \in Link : SendLink(l) \/ LinkExpires(l)
             \/ SessionEnds
      PROVE  code' = code
  BY <1>3 DEF SendLink, LinkExpires, SessionEnds
<1>4. QED
  BY <1>1, <1>2, <1>3 DEF AccountsNext

LEMMA LinksAlone ==
  ASSUME AccountsNext
  PROVE  \/ link' = link
         \/ \E s \in Session : ConsumeLink(s) \/ ResetPassword(s)
         \/ \E l \in Link : SendLink(l) \/ LinkExpires(l)
<1>1. ASSUME NEW s \in Session,
             Signup(s) \/ CreateUser(s) \/ IssueCode(s) \/ DropCode(s) \/ Resend(s) \/
               VerifyEmail(s) \/ GuessRight(s) \/ GuessWrong(s) \/ MarkVerified(s) \/
               ReadLogin(s) \/ Login(s) \/ ReadRefresh(s)
      PROVE  link' = link
  BY <1>1
     DEF Signup, CreateUser, IssueCode, DropCode, Resend, VerifyEmail, GuessRight,
         GuessWrong, MarkVerified, ReadLogin, Login, ReadRefresh
<1>2. ASSUME NEW s \in Session,
             Renew(s) \/ EditProfile(s) \/ WriteProfile(s) \/ ReadChange(s) \/
               ChangePassword(s) \/ GoogleKnown(s) \/ GoogleNew(s) \/ GoogleLink(s) \/
               GoogleCreate(s) \/ GoogleRaced(s) \/ Abandon(s)
      PROVE  link' = link
  BY <1>2
     DEF Renew, EditProfile, WriteProfile, ReadChange, ChangePassword, GoogleKnown,
         GoogleNew, GoogleLink, GoogleCreate, GoogleRaced, Abandon
<1>3. ASSUME \/ \E u \in UserId : CodeExpires(u)
             \/ SessionEnds
      PROVE  link' = link
  BY <1>3 DEF CodeExpires, SessionEnds
<1>4. QED
  BY <1>1, <1>2, <1>3 DEF AccountsNext

LEMMA CallsAlone ==
  ASSUME AccountsNext
  PROVE  \/ call' = call
         \/ \E s \in Session : call' = [call EXCEPT ![s] = Free]
         \/ \E s \in Session :
              \/ Signup(s) \/ CreateUser(s) \/ DropCode(s) \/ Resend(s)
              \/ VerifyEmail(s) \/ GuessRight(s) \/ ReadLogin(s) \/ ReadRefresh(s)
              \/ EditProfile(s) \/ WriteProfile(s) \/ ReadChange(s) \/ ConsumeLink(s)
              \/ GoogleNew(s)
<1>1. ASSUME NEW s \in Session,
             IssueCode(s) \/ GuessWrong(s) \/ MarkVerified(s) \/ Login(s) \/ Renew(s)
               \/ ChangePassword(s)
      PROVE  call' = call \/ \E r \in Session : call' = [call EXCEPT ![r] = Free]
  BY <1>1
     DEF IssueCode, GuessWrong, MarkVerified, Login, Renew, ChangePassword, End, Go
<1>2. ASSUME NEW s \in Session,
             ResetPassword(s) \/ GoogleKnown(s) \/ GoogleLink(s) \/ GoogleCreate(s) \/
               GoogleRaced(s) \/ Abandon(s)
      PROVE  call' = call \/ \E r \in Session : call' = [call EXCEPT ![r] = Free]
  BY <1>2
     DEF ResetPassword, GoogleKnown, GoogleLink, GoogleCreate, GoogleRaced, Abandon,
         End, Go
<1>3. ASSUME \/ \E u \in UserId : CodeExpires(u)
             \/ \E l \in Link : SendLink(l) \/ LinkExpires(l)
             \/ SessionEnds
      PROVE  call' = call
  BY <1>3 DEF CodeExpires, SendLink, LinkExpires, SessionEnds
<1>4. QED
  BY <1>1, <1>2, <1>3 DEF AccountsNext

LEMMA ServedStep ==
  ASSUME AccountsNext, served \in 0 .. MaxServed
  PROVE  served' \in 0 .. MaxServed
<1>1. ASSUME NEW s \in Session, NEW next, Begin(s, next) \/ Go(s, next)
      PROVE  served' \in 0 .. MaxServed
  BY <1>1, AccountsAssumption DEF Begin, Go
<1>2. CASE served' = served
  BY <1>2
<1>3. CASE served < MaxServed /\ served' = served + 1
  BY <1>3, AccountsAssumption
<1>4. (\E s \in Session : \E next : Begin(s, next) \/ Go(s, next))
        \/ served' = served \/ (served < MaxServed /\ served' = served + 1)
  <2>1. ASSUME NEW s \in Session,
               \/ Signup(s) \/ CreateUser(s) \/ IssueCode(s) \/ DropCode(s)
               \/ Resend(s) \/ VerifyEmail(s) \/ GuessRight(s) \/ GuessWrong(s)
               \/ MarkVerified(s)
        PROVE  \E next : Begin(s, next) \/ Go(s, next)
    BY <2>1 DEF Signup, CreateUser, IssueCode, DropCode, Resend, VerifyEmail,
                GuessRight, GuessWrong, MarkVerified, End
  <2>2. ASSUME NEW s \in Session,
               \/ ReadLogin(s) \/ Login(s) \/ ReadRefresh(s) \/ Renew(s)
               \/ EditProfile(s) \/ WriteProfile(s) \/ ReadChange(s)
               \/ ChangePassword(s) \/ ConsumeLink(s) \/ ResetPassword(s)
        PROVE  \E next : Begin(s, next) \/ Go(s, next)
    BY <2>2 DEF ReadLogin, Login, ReadRefresh, Renew, EditProfile, WriteProfile,
                ReadChange, ChangePassword, ConsumeLink, ResetPassword, End
  <2>3. ASSUME NEW s \in Session,
               GoogleNew(s) \/ GoogleLink(s) \/ GoogleCreate(s) \/ GoogleRaced(s)
                 \/ Abandon(s)
        PROVE  \E next : Begin(s, next) \/ Go(s, next)
    BY <2>3 DEF GoogleNew, GoogleLink, GoogleCreate, GoogleRaced, Abandon, End
  <2>4. ASSUME \/ SessionEnds \/ \E s \in Session : GoogleKnown(s)
               \/ \E u \in UserId : CodeExpires(u)
               \/ \E l \in Link : SendLink(l) \/ LinkExpires(l)
        PROVE  served' = served \/ (served < MaxServed /\ served' = served + 1)
    BY <2>4 DEF SessionEnds, GoogleKnown, CodeExpires, SendLink, LinkExpires
  <2>5. QED
    BY <2>1, <2>2, <2>3, <2>4 DEF AccountsNext
<1>5. QED
  BY <1>1, <1>2, <1>3, <1>4

-----------------------------------------------------------------------------
(* The rows.                                                               *)

LEMMA GrowsSame ==
  ASSUME NEW a \in Rows
  PROVE  Grows(a, a)
  BY VersionIsNat DEF Grows

(* A row is added where there was none, or changed beside its password.    *)
LEMMA GrowsAt ==
  ASSUME NEW a \in Rows, NEW u \in UserId, NEW x \in Account,
         a[u].there =>
           /\ a[u].version <= x.version
           /\ x.version = a[u].version => x.pass = a[u].pass,
         NEW b, b = [a EXCEPT ![u] = x]
  PROVE  b \in Rows /\ Grows(a, b)
<1>1. x.there
  BY DEF Account
<1>2. \A v \in UserId : a[v].there => a[v].version <= a[v].version
  BY VersionIsNat
<1>3. QED
  BY <1>1, <1>2 DEF Rows, Grows

LEMMA SetPasswordGrows ==
  ASSUME account \in Rows, NEW u \in UserId, NEW p \in Password, There(u),
         SetPassword(u, p)
  PROVE  /\ account' \in Rows /\ Grows(account, account')
         /\ account'[u].there /\ account'[u].pass = p
         /\ account'[u].version = account[u].version + 1
         /\ account'[u].version \in 0 .. MaxVersion
<1>1. account[u] \in Account /\ account[u].version \in Nat
  BY RowFields, VersionIsNat DEF There
<1> DEFINE x == [account[u] EXCEPT !.pass = p, !.version = @ + 1]
<1>2. account' = [account EXCEPT ![u] = x]
  BY <1>1 DEF SetPassword, Rows, Account
<1>3. x.version = account[u].version + 1 /\ x.pass = p /\ x.there
  BY <1>1 DEF Account
<1>3a. x \in Account
  <2>1. account[u].version + 1 \in 0 .. MaxVersion
    BY <1>1, AccountsAssumption DEF SetPassword
  <2>2. QED
    BY <1>1, <2>1 DEF Account
<1>4. account'[u] = x
  BY <1>2 DEF Rows
<1>5. x.version \in 0 .. MaxVersion
  BY <1>3a DEF Account
<1> HIDE DEF x
<1>6. account[u].version <= x.version /\ ~(x.version = account[u].version)
  BY <1>1, <1>3
<1>7. account' \in Rows /\ Grows(account, account')
  BY <1>2, <1>3a, <1>6, GrowsAt
<1>8. QED
  BY <1>3, <1>4, <1>5, <1>7

LEMMA RowsStep ==
  ASSUME Inv, AccountsNext
  PROVE  account' \in Rows /\ Grows(account, account')
<1> USE DEF Inv
<1>1. CASE account' = account
  BY <1>1, GrowsSame
<1>2. ASSUME NEW s \in Session, CreateUser(s)
      PROVE  account' \in Rows /\ Grows(account, account')
  <2>1. call[s] \in CreatingCall
    BY <1>2, CallKinds DEF CreateUser
  <2>2. PICK u \in UserId : ~There(u)
          /\ account' = [account EXCEPT ![u] =
               NewAccount(call[s].email, call[s].pass, FALSE, NoIdentity)]
    BY <1>2 DEF CreateUser
  <2>3. NewAccount(call[s].email, call[s].pass, FALSE, NoIdentity) \in Account
    BY <2>1, NewAccountType DEF CreatingCall
  <2>4. QED
    BY <2>2, <2>3, GrowsAt DEF There
<1>3. ASSUME NEW s \in Session, MarkVerified(s)
      PROVE  account' \in Rows /\ Grows(account, account')
  <2> DEFINE u == call[s].token.user
             x == [account[u] EXCEPT !.verified = TRUE]
  <2>1. u \in UserId /\ account[u].there
    BY <1>3, CallKinds DEF MarkVerified, CallGood, TokenGood, Token
  <2>2. account[u] \in Account /\ account[u].version \in Nat
    BY <2>1, RowFields, VersionIsNat
  <2>3. x \in Account /\ x.version = account[u].version /\ x.pass = account[u].pass
    BY <2>2 DEF Account
  <2>4. account' = [account EXCEPT ![u] = x]
    BY <1>3 DEF MarkVerified
  <2> HIDE DEF u, x
  <2>5. account[u].version <= x.version
    BY <2>2, <2>3
  <2>6. QED
    BY <2>1, <2>3, <2>4, <2>5, GrowsAt
<1>4. ASSUME NEW s \in Session, WriteProfile(s)
      PROVE  account' \in Rows /\ Grows(account, account')
  <2> DEFINE c == call[s]
             u == c.user
             x == [account[u] EXCEPT !.email = c.email, !.verified = @ /\ ~c.moved]
  <2>1. c \in EditingCall /\ account[u].there
    BY <1>4, CallKinds DEF WriteProfile, CallGood
  <2>2. u \in UserId /\ c.email \in Address
    BY <2>1 DEF EditingCall
  <2>3. account[u] \in Account /\ account[u].version \in Nat
    BY <2>1, <2>2, RowFields, VersionIsNat
  <2>4. x \in Account /\ x.version = account[u].version /\ x.pass = account[u].pass
    BY <2>2, <2>3 DEF Account
  <2>5. account' = [account EXCEPT ![u] = x]
    BY <1>4, <2>2 DEF WriteProfile, Rows
  <2> HIDE DEF c, u, x
  <2>6. account[u].version <= x.version
    BY <2>3, <2>4
  <2>7. QED
    BY <2>2, <2>4, <2>5, <2>6, GrowsAt
<1>5. ASSUME NEW s \in Session, ChangePassword(s)
      PROVE  account' \in Rows /\ Grows(account, account')
  <2>1. call[s].token.user \in UserId /\ There(call[s].token.user)
    BY <1>5, CallKinds DEF ChangePassword, CallGood, TokenGood, Token, There
  <2>2. QED
    BY <1>5, <2>1, SetPasswordGrows DEF ChangePassword
<1>6. ASSUME NEW s \in Session, ResetPassword(s)
      PROVE  account' \in Rows /\ Grows(account, account')
  <2>1. call[s].user \in UserId /\ There(call[s].user)
    BY <1>6, CallKinds DEF ResetPassword, CallGood, ResettingCall, There
  <2>2. QED
    BY <1>6, <2>1, SetPasswordGrows DEF ResetPassword
<1>7. ASSUME NEW s \in Session, GoogleLink(s)
      PROVE  account' \in Rows /\ Grows(account, account')
  <2> DEFINE t == call[s].token
             u == t.user
             x == [account[u] EXCEPT !.identity = t.via]
  <2>1. t \in Token /\ account[u].there
    BY <1>7, CallKinds DEF GoogleLink, CallGood, TokenGood
  <2>2. u \in UserId /\ t.via \in Identity \cup {NoIdentity}
    BY <2>1 DEF Token
  <2>3. account[u] \in Account /\ account[u].version \in Nat
    BY <2>1, <2>2, RowFields, VersionIsNat
  <2>4. x \in Account /\ x.version = account[u].version /\ x.pass = account[u].pass
    BY <2>2, <2>3 DEF Account
  <2>5. account' = [account EXCEPT ![u] = x]
    BY <1>7 DEF GoogleLink
  <2> HIDE DEF t, u, x
  <2>6. account[u].version <= x.version
    BY <2>3, <2>4
  <2>7. QED
    BY <2>2, <2>4, <2>5, <2>6, GrowsAt
<1>8. ASSUME NEW s \in Session, GoogleCreate(s)
      PROVE  account' \in Rows /\ Grows(account, account')
  <2>1. call[s] \in JoiningCall
    BY <1>8, CallKinds DEF GoogleCreate
  <2>2. PICK u \in UserId : ~There(u)
          /\ account' = [account EXCEPT ![u] =
               NewAccount(call[s].email, NoPassword, call[s].trusted, call[s].identity)]
    BY <1>8 DEF GoogleCreate
  <2>3. NewAccount(call[s].email, NoPassword, call[s].trusted, call[s].identity)
          \in Account
    BY <2>1, NewAccountType DEF JoiningCall
  <2>4. QED
    BY <2>2, <2>3, GrowsAt DEF There
<1>9. QED
  BY <1>1, <1>2, <1>3, <1>4, <1>5, <1>6, <1>7, <1>8, RowsAlone

-----------------------------------------------------------------------------
(* The tokens.                                                             *)

LEMMA MintGood ==
  ASSUME NEW t, Mint(t), TokenGood(t, account'), account' \in Rows, account \in Rows,
         Grows(account, account'),
         \A u \in access \cup refresh : TokenGood(u, account)
  PROVE  \A u \in access' \cup refresh' : TokenGood(u, account')
<1>1. TAKE u \in access' \cup refresh'
<1>2. u = t \/ u \in access \cup refresh
  BY DEF Mint
<1>3. QED
  BY <1>2, GrowsKeepsToken

(* The token a request has read, when the rows have not changed or grown.  *)
LEMMA HeldToken ==
  ASSUME Inv, AccountsNext, NEW s \in Session,
         call[s].st \in {"comparing", "guessing", "marking", "linking", "changing",
                         "renewing"}
  PROVE  TokenGood(call[s].token, account')
<1>1. call[s] \in TokenCall
  BY CallKinds DEF Inv
<1>2. TokenGood(call[s].token, account)
  BY <1>1 DEF Inv, CallGood
<1>3. QED
  BY <1>2, RowsStep, GrowsKeepsToken DEF Inv

LEMMA TokensStep ==
  ASSUME Inv, AccountsNext
  PROVE  \A u \in access' \cup refresh' : TokenGood(u, account')
<1>1. account \in Rows /\ account' \in Rows /\ Grows(account, account')
  BY RowsStep DEF Inv
<1>2. \A u \in access \cup refresh : TokenGood(u, account)
  BY DEF Inv
<1>3. \A u \in access \cup refresh : TokenGood(u, account')
  BY <1>1, <1>2, GrowsKeepsToken
<1>4. CASE access' \subseteq access /\ refresh' \subseteq refresh
  BY <1>3, <1>4
<1>5. ASSUME NEW s \in Session, MarkVerified(s) \/ Login(s) \/ GoogleLink(s)
      PROVE  \A u \in access' \cup refresh' : TokenGood(u, account')
  <2>1. Mint(call[s].token) /\ call[s].st \in {"marking", "comparing", "linking"}
    BY <1>5 DEF MarkVerified, Login, GoogleLink
  <2>2. TokenGood(call[s].token, account')
    BY <2>1, HeldToken
  <2>3. QED
    BY <1>1, <1>2, <2>1, <2>2, MintGood
<1>6. ASSUME NEW s \in Session, Renew(s)
      PROVE  \A u \in access' \cup refresh' : TokenGood(u, account')
  <2>1. TokenGood(call[s].token, account')
    BY <1>6, HeldToken DEF Renew
  <2>2. QED
    BY <1>3, <1>6, <2>1 DEF Renew
<1>7. ASSUME NEW s \in Session, ChangePassword(s)
      PROVE  \A u \in access' \cup refresh' : TokenGood(u, account')
  <2> DEFINE u == call[s].token.user
  <2>1. PICK p \in Password :
          /\ SetPassword(u, p)
          /\ Mint([call[s].token EXCEPT !.version = account'[u].version, !.pass = p])
    BY <1>7 DEF ChangePassword
  <2> DEFINE t == [call[s].token EXCEPT !.version = account'[u].version, !.pass = p]
  <2>2. call[s].token \in Token /\ u \in UserId /\ There(u)
    BY <1>7, CallKinds DEF ChangePassword, Inv, CallGood, TokenGood, Token, There
  <2>3. /\ account'[u].there /\ account'[u].pass = p
        /\ account'[u].version \in 0 .. MaxVersion
    BY <1>1, <2>1, <2>2, SetPasswordGrows
  <2>4. t \in Token /\ t.user = u /\ t.version = account'[u].version /\ t.pass = p
    BY <2>2, <2>3 DEF Token
  <2>5. TokenGood(t, account')
    BY <2>3, <2>4 DEF TokenGood
  <2>6. Mint(t)
    BY <2>1
  <2> HIDE DEF t
  <2>7. QED
    BY <1>1, <1>2, <2>5, <2>6, MintGood
<1>8. ASSUME NEW s \in Session, GoogleKnown(s) \/ GoogleRaced(s)
      PROVE  \A u \in access' \cup refresh' : TokenGood(u, account')
  <2>1. PICK g \in Identity : \E u \in Linked(g) : Mint(TokenOf(u, g))
    <3>1. CASE GoogleKnown(s)
      BY <3>1 DEF GoogleKnown
    <3>2. CASE GoogleRaced(s)
      BY <3>2, CallKinds DEF GoogleRaced, JoiningCall, Inv
    <3>3. QED
      BY <1>8, <3>1, <3>2
  <2>1a. PICK u \in Linked(g) : Mint(TokenOf(u, g))
    BY <2>1
  <2>2. TokenGood(TokenOf(u, g), account)
    BY <1>1, <2>1a, LinkedRows, TokenOfGood
  <2>3. TokenGood(TokenOf(u, g), account')
    BY <1>1, <2>2, GrowsKeepsToken
  <2>4. QED
    BY <1>1, <1>2, <2>1a, <2>3, MintGood
<1>9. ASSUME NEW s \in Session, GoogleCreate(s)
      PROVE  \A u \in access' \cup refresh' : TokenGood(u, account')
  <2>1. call[s] \in JoiningCall
    BY <1>9, CallKinds DEF GoogleCreate, Inv
  <2>2. PICK u \in UserId :
          /\ account' = [account EXCEPT ![u] =
               NewAccount(call[s].email, NoPassword, call[s].trusted, call[s].identity)]
          /\ Mint([user |-> u, version |-> 0, pass |-> NoPassword,
                   via |-> call[s].identity])
    BY <1>9 DEF GoogleCreate
  <2> DEFINE t == [user |-> u, version |-> 0, pass |-> NoPassword,
                   via |-> call[s].identity]
  <2>3. account'[u] =
          NewAccount(call[s].email, NoPassword, call[s].trusted, call[s].identity)
    BY <1>1, <2>2 DEF Rows
  <2>4. t \in Token
    BY <2>1, AccountsAssumption DEF Token, JoiningCall
  <2>5. TokenGood(t, account')
    BY <2>3, <2>4 DEF TokenGood, NewAccount
  <2>6. Mint(t)
    BY <2>2
  <2> HIDE DEF t
  <2>7. QED
    BY <1>1, <1>2, <2>5, <2>6, MintGood
<1>10. QED
  BY <1>4, <1>5, <1>6, <1>7, <1>8, <1>9, TokensAlone

-----------------------------------------------------------------------------
(* Codes and links.                                                        *)

LEMMA CodeUpdated ==
  ASSUME NEW c \in Code, NEW x \in Nat, NEW y \in Nat
  PROVE  /\ [c EXCEPT !.used = TRUE, !.compared = x, !.opened = y] \in Code
         /\ [c EXCEPT !.attempts = x, !.compared = y] \in Code
  BY DEF Code

(* A comparison counts, whichever way it ends.                             *)
LEMMA GuessGood ==
  ASSUME NEW c \in Code, CodeGood(c), Answers(c)
  PROVE  /\ [c EXCEPT !.used = TRUE, !.compared = @ + 1, !.opened = @ + 1] \in Code
         /\ CodeGood([c EXCEPT !.used = TRUE, !.compared = @ + 1, !.opened = @ + 1])
         /\ [c EXCEPT !.attempts = @ + 1, !.compared = @ + 1] \in Code
         /\ CodeGood([c EXCEPT !.attempts = @ + 1, !.compared = @ + 1])
<1>1. c.attempts \in Nat /\ c.compared \in Nat /\ c.opened \in Nat /\ c.there
  BY DEF Code
<1>1a. c.attempts + 1 \in Nat /\ c.compared + 1 \in Nat /\ c.opened + 1 \in Nat
  BY <1>1
<1>2. c.attempts < MaxAttempts /\ ~c.used
  BY DEF Answers
<1>3. c.opened = 0 /\ c.compared = c.attempts + c.opened
  BY <1>1, <1>2 DEF CodeGood
<1>4. c.compared + 1 \in Nat /\ c.compared + 1 <= MaxAttempts
  BY <1>1, <1>2, <1>3, AccountsAssumption
<1> DEFINE r == [c EXCEPT !.used = TRUE, !.compared = @ + 1, !.opened = @ + 1]
           w == [c EXCEPT !.attempts = @ + 1, !.compared = @ + 1]
<1>5. r \in Code /\ r.used /\ r.opened = c.opened + 1 /\ r.attempts = c.attempts
        /\ r.compared = c.compared + 1
  <2>1. r \in Code
    BY <1>1a, CodeUpdated
  <2>2. QED
    BY <2>1 DEF Code
<1>6. w \in Code /\ ~w.used /\ w.opened = c.opened /\ w.attempts = c.attempts + 1
        /\ w.compared = c.compared + 1
  <2>1. w \in Code
    BY <1>1a, CodeUpdated
  <2>2. QED
    BY <1>2, <2>1 DEF Code
<1> HIDE DEF r, w
<1>7. CodeGood(r)
  BY <1>1, <1>3, <1>4, <1>5 DEF CodeGood
<1>8. CodeGood(w)
  BY <1>1, <1>3, <1>4, <1>6 DEF CodeGood
<1>9. QED
  BY <1>5, <1>6, <1>7, <1>8 DEF r, w

LEMMA CodesStep ==
  ASSUME Inv, AccountsNext
  PROVE  code' \in Codes /\ \A u \in UserId : CodeGood(code'[u])
<1> USE DEF Inv
<1>1. CASE code' = code
  BY <1>1
<1>2. ASSUME NEW u \in UserId, NEW c \in {NoCode} \cup Code, CodeGood(c),
             code' = [code EXCEPT ![u] = c]
      PROVE  code' \in Codes /\ \A v \in UserId : CodeGood(code'[v])
  BY <1>2 DEF Codes
<1>3. ASSUME NEW s \in Session, IssueCode(s)
      PROVE  code' \in Codes /\ \A u \in UserId : CodeGood(code'[u])
  <2>1. call[s].user \in UserId
    BY <1>3, CallKinds DEF IssueCode, IssuingCall
  <2>2. NewCode \in Code /\ CodeGood(NewCode)
    BY AccountsAssumption DEF NewCode, Code, CodeGood
  <2>3. QED
    BY <1>2, <1>3, <2>1, <2>2 DEF IssueCode
<1>4. ASSUME NEW s \in Session, DropCode(s)
      PROVE  code' \in Codes /\ \A u \in UserId : CodeGood(code'[u])
  <2>1. call[s].user \in UserId
    BY <1>4, CallKinds DEF DropCode, IssuingCall
  <2>2. CodeGood(NoCode)
    BY DEF NoCode, CodeGood
  <2>3. QED
    BY <1>2, <1>4, <2>1, <2>2 DEF DropCode
<1>5. ASSUME NEW s \in Session, GuessRight(s) \/ GuessWrong(s)
      PROVE  code' \in Codes /\ \A u \in UserId : CodeGood(code'[u])
  <2> DEFINE u == call[s].token.user
             r == [code[u] EXCEPT !.used = TRUE, !.compared = @ + 1, !.opened = @ + 1]
             w == [code[u] EXCEPT !.attempts = @ + 1, !.compared = @ + 1]
  <2>1. u \in UserId
    BY <1>5, CallKinds DEF GuessRight, GuessWrong, CallGood, TokenGood, Token
  <2>2. Answers(code[u])
    BY <1>5 DEF GuessRight, GuessWrong
  <2>3. code[u] \in Code /\ CodeGood(code[u])
    BY <2>1, <2>2 DEF Answers, Codes, NoCode
  <2>4. /\ r \in Code /\ CodeGood(r)
        /\ w \in Code /\ CodeGood(w)
    BY <2>2, <2>3, GuessGood
  <2>5. CASE GuessRight(s)
    <3>1. code' = [code EXCEPT ![u] = r]
      BY <2>1, <2>5 DEF GuessRight, Codes
    <3> HIDE DEF u, r
    <3>2. QED
      BY <1>2, <2>1, <2>4, <3>1
  <2>6. CASE GuessWrong(s)
    <3>1. code' = [code EXCEPT ![u] = w]
      BY <2>1, <2>6 DEF GuessWrong, Codes
    <3> HIDE DEF u, w
    <3>2. QED
      BY <1>2, <2>1, <2>4, <3>1
  <2>7. QED
    BY <1>5, <2>5, <2>6
<1>6. ASSUME NEW u \in UserId, CodeExpires(u)
      PROVE  code' \in Codes /\ \A v \in UserId : CodeGood(code'[v])
  <2> DEFINE x == [code[u] EXCEPT !.expired = TRUE]
  <2>1. code[u] \in Code /\ CodeGood(code[u])
    BY <1>6 DEF CodeExpires, Codes, NoCode
  <2>2. x \in Code /\ CodeGood(x)
    BY <2>1 DEF Code, CodeGood
  <2>3. code' = [code EXCEPT ![u] = x]
    BY <1>6 DEF CodeExpires
  <2> HIDE DEF x
  <2>4. QED
    BY <1>2, <2>2, <2>3
<1>7. QED
  BY <1>1, <1>3, <1>4, <1>5, <1>6, CodesAlone

LEMMA LinkStays ==
  ASSUME Inv, AccountsNext, NEW l \in Link
  PROVE  LinkGood(link[l], account')
<1>1. LinkGood(link[l], account) /\ link[l] \in LinkType
  BY DEF Inv, Links
<1>2. link[l] # Unsent => link[l].user \in UserId
  BY <1>1 DEF LinkType
<1>3. QED
  BY <1>1, <1>2, RowsStep DEF LinkGood, Grows

LEMMA LinksStep ==
  ASSUME Inv, AccountsNext
  PROVE  link' \in Links /\ \A l \in Link : LinkGood(link'[l], account')
<1>1. link \in Links /\ \A l \in Link : LinkGood(link[l], account')
  BY LinkStays DEF Inv
<1>2. CASE link' = link
  BY <1>1, <1>2
<1>3. ASSUME NEW l \in Link, NEW k \in LinkType, LinkGood(k, account'),
             link' = [link EXCEPT ![l] = k]
      PROVE  link' \in Links /\ \A m \in Link : LinkGood(link'[m], account')
  BY <1>1, <1>3 DEF Links
<1>4. ASSUME NEW s \in Session, ConsumeLink(s)
      PROVE  link' \in Links /\ \A l \in Link : LinkGood(link'[l], account')
  <2>1. PICK l \in Link :
          link[l].st = "sent" /\ link' = [link EXCEPT ![l].st = "consumed"]
    BY <1>4 DEF ConsumeLink
  <2> DEFINE k == [link[l] EXCEPT !.st = "consumed"]
  <2>2. link[l] \in LinkType /\ link[l] # Unsent /\ LinkGood(link[l], account')
    BY <1>1, <2>1 DEF Links, Unsent
  <2>3. k \in LinkType /\ k.st = "consumed" /\ k.user = link[l].user
          /\ k.writes = link[l].writes /\ link[l].writes \in Nat
    BY <2>2 DEF LinkType
  <2>4. LinkGood(k, account')
    BY <2>1, <2>2, <2>3 DEF LinkGood
  <2>5. link' = [link EXCEPT ![l] = k]
    BY <2>1
  <2> HIDE DEF k
  <2>6. QED
    BY <1>3, <2>3, <2>4, <2>5
<1>5. ASSUME NEW s \in Session, ResetPassword(s)
      PROVE  link' \in Links /\ \A l \in Link : LinkGood(link'[l], account')
  <2> DEFINE l == call[s].link
             k == [link[l] EXCEPT !.writes = @ + 1]
  <2>1. call[s].st = "resetting" /\ link' = [link EXCEPT ![l].writes = @ + 1]
    BY <1>5 DEF ResetPassword
  <2>2. l \in Link
    BY <2>1, CallKinds DEF Inv, ResettingCall
  <2>3. link[l].st = "consumed" /\ link[l].writes = 0
    BY <2>1 DEF Inv, CallGood
  <2>4. link[l] \in LinkType /\ link[l] # Unsent /\ LinkGood(link[l], account')
    BY <1>1, <2>2, <2>3 DEF Links, Unsent
  <2>5. k \in LinkType /\ k.st = "consumed" /\ k.user = link[l].user /\ k.writes = 1
    BY <2>3, <2>4 DEF LinkType
  <2>6. LinkGood(k, account')
    BY <2>4, <2>5 DEF LinkGood
  <2>7. link' = [link EXCEPT ![l] = k]
    BY <2>1
  <2> HIDE DEF k, l
  <2>8. QED
    BY <1>3, <2>2, <2>5, <2>6, <2>7
<1>6. ASSUME NEW l \in Link, SendLink(l)
      PROVE  link' \in Links /\ \A m \in Link : LinkGood(link'[m], account')
  <2>1. PICK e \in Address : \E u \in Registered(e) :
          link' = [link EXCEPT ![l] = [st |-> "sent", user |-> u, writes |-> 0]]
    BY <1>6 DEF SendLink
  <2>2. PICK u \in Registered(e) :
          link' = [link EXCEPT ![l] = [st |-> "sent", user |-> u, writes |-> 0]]
    BY <2>1
  <2> DEFINE k == [st |-> "sent", user |-> u, writes |-> 0]
  <2>3. u \in UserId /\ account'[u].there
    BY <2>2, RegisteredRows, RowsStep DEF There, Grows
  <2>4. k \in LinkType /\ LinkGood(k, account')
    BY <2>3 DEF LinkType, LinkGood
  <2>5. QED
    BY <1>3, <2>2, <2>4
<1>7. ASSUME NEW l \in Link, LinkExpires(l)
      PROVE  link' \in Links /\ \A m \in Link : LinkGood(link'[m], account')
  <2> DEFINE k == [link[l] EXCEPT !.st = "expired"]
  <2>1. link[l].st = "sent" /\ link' = [link EXCEPT ![l] = k]
    BY <1>7 DEF LinkExpires
  <2>2. link[l] \in LinkType /\ link[l] # Unsent /\ LinkGood(link[l], account')
    BY <1>1, <2>1 DEF Links, Unsent
  <2>3. k \in LinkType /\ k.st = "expired" /\ k.user = link[l].user
          /\ k.writes = link[l].writes
    BY <2>2 DEF LinkType
  <2>4. LinkGood(k, account')
    BY <2>1, <2>2, <2>3 DEF LinkGood
  <2> HIDE DEF k
  <2>5. QED
    BY <1>3, <2>1, <2>3, <2>4
<1>8. QED
  BY <1>2, <1>4, <1>5, <1>6, <1>7, LinksAlone

-----------------------------------------------------------------------------
(* Requests in progress.                                                   *)

(* A request keeps what it relies on, whatever the others do.              *)
LEMMA CallStays ==
  ASSUME Inv, AccountsNext, NEW r \in Session, ~ResetPassword(r)
  PROVE  CallGood(call[r], account', link')
<1> DEFINE c == call[r]
<1>1. c \in CallType /\ CallGood(c, account, link)
  BY DEF Inv
<1>2. c \in TokenCall => TokenGood(c.token, account')
  BY <1>1, RowsStep, GrowsKeepsToken DEF CallGood, Inv
<1>3. c.st \in {"issuing", "editing", "resetting"} => account'[c.user].there
  <2>1. c.st \in {"issuing", "editing", "resetting"} => c.user \in UserId
    BY <1>1, CallKinds DEF IssuingCall, EditingCall, ResettingCall
  <2>2. QED
    BY <1>1, <2>1, RowsStep DEF CallGood, Grows
<1>4. ASSUME c.st = "resetting"
      PROVE  link'[c.link].st = "consumed" /\ link'[c.link].writes = 0
  <2>1. c.link \in Link /\ link[c.link].st = "consumed" /\ link[c.link].writes = 0
    BY <1>1, <1>4, CallKinds DEF CallGood, ResettingCall
  <2>2. link'[c.link] = link[c.link]
    <3>1. CASE link' = link
      BY <3>1
    <3>2. ASSUME NEW s \in Session, ConsumeLink(s)
          PROVE  link'[c.link] = link[c.link]
      BY <2>1, <3>2 DEF ConsumeLink, Inv, Links
    <3>3. ASSUME NEW s \in Session, ResetPassword(s)
          PROVE  link'[c.link] = link[c.link]
      <4>1. s # r /\ call[s].st = "resetting"
              /\ link' = [link EXCEPT ![call[s].link].writes = @ + 1]
        BY <3>3 DEF ResetPassword
      <4>2. call[s].link # c.link
        BY <1>4, <4>1 DEF Inv, OneTaker
      <4>3. QED
        BY <2>1, <4>1, <4>2 DEF Inv, Links
    <3>4. ASSUME NEW l \in Link, SendLink(l) \/ LinkExpires(l)
          PROVE  link'[c.link] = link[c.link]
      BY <2>1, <3>4 DEF SendLink, LinkExpires, Inv, Links, Unsent
    <3>5. QED
      BY <3>1, <3>2, <3>3, <3>4, LinksAlone
  <2>3. QED
    BY <2>1, <2>2
<1>5. c.st \in {"comparing", "guessing", "marking", "changing"} => c.token.via = NoIdentity
  BY <1>1 DEF CallGood
<1> HIDE DEF c
<1>6. CallGood(c, account', link')
  BY <1>1, <1>2, <1>3, <1>4, <1>5 DEF CallGood
<1>7. QED
  BY <1>6 DEF c

LEMMA FreeIsGood ==
  ASSUME NEW a, NEW k
  PROVE  CallGood(Free, a, k) /\ Free.st # "resetting"
  BY DEF CallGood, Free, CallType, TokenCall

(* A request that begins or goes on with a token it has just read.         *)
LEMMA TokenCallGood ==
  ASSUME NEW a, NEW k, NEW t, TokenGood(t, a), NEW v \in BOOLEAN,
         NEW st \in {"comparing", "guessing", "marking", "linking", "changing",
                     "renewing"},
         st \in {"linking", "renewing"} \/ t.via = NoIdentity
  PROVE  CallGood([st |-> st, token |-> t, verified |-> v], a, k)
<1> DEFINE c == [st |-> st, token |-> t, verified |-> v]
<1>1. c \in TokenCall /\ c.st = st /\ c.token = t
  BY DEF TokenCall, TokenGood
<1>2. c \in CallType
  BY <1>1, KindsAreCalls
<1> HIDE DEF c
<1>3. CallGood(c, a, k)
  BY <1>1, <1>2 DEF CallGood
<1>4. QED
  BY <1>3 DEF c

LEMMA IssuingGood ==
  ASSUME NEW a, NEW k, NEW c \in IssuingCall, a[c.user].there
  PROVE  CallGood(c, a, k) /\ c.st # "resetting"
<1>1. c.st = "issuing" /\ c \in CallType /\ c \notin TokenCall
  BY KindsAreCalls DEF IssuingCall, TokenCall
<1>2. QED
  BY <1>1 DEF CallGood

(* What s is doing next is good, and is not the reset of a password.       *)
Goes(s) ==
  \E next : /\ call' = [call EXCEPT ![s] = next]
            /\ CallGood(next, account', link')
            /\ next.st # "resetting"

LEMMA TokenGoes ==
  ASSUME Inv, AccountsNext, NEW s \in Session, NEW t, TokenGood(t, account),
         NEW v \in BOOLEAN,
         NEW st \in {"comparing", "guessing", "marking", "linking", "changing",
                     "renewing"},
         st \in {"linking", "renewing"} \/ t.via = NoIdentity,
         call' = [call EXCEPT ![s] = [st |-> st, token |-> t, verified |-> v]]
  PROVE  Goes(s)
<1>1. TokenGood(t, account')
  BY RowsStep, GrowsKeepsToken DEF Inv
<1> DEFINE c == [st |-> st, token |-> t, verified |-> v]
<1>2. CallGood(c, account', link')
  BY <1>1, TokenCallGood
<1>3. c.st # "resetting" /\ call' = [call EXCEPT ![s] = c]
  OBVIOUS
<1> HIDE DEF c
<1>4. QED
  BY <1>2, <1>3 DEF Goes

LEMMA BeginsWithToken ==
  ASSUME Inv, AccountsNext, NEW s \in Session,
         VerifyEmail(s) \/ ReadLogin(s) \/ ReadRefresh(s) \/ ReadChange(s)
  PROVE  Goes(s)
<1>1. CASE VerifyEmail(s)
  <2>1. PICK e \in Address : \E u \in Registered(e) :
          call' = [call EXCEPT ![s] = [st |-> "guessing", token |-> TokenOf(u, NoIdentity),
                                       verified |-> FALSE]]
    BY <1>1 DEF VerifyEmail, Begin
  <2>2. PICK u \in Registered(e) :
          call' = [call EXCEPT ![s] = [st |-> "guessing", token |-> TokenOf(u, NoIdentity),
                                       verified |-> FALSE]]
    BY <2>1
  <2>3. TokenGood(TokenOf(u, NoIdentity), account) /\ TokenOf(u, NoIdentity).via = NoIdentity
    BY RegisteredRows, TokenOfGood DEF Inv
  <2>4. QED
    BY <2>2, <2>3, TokenGoes
<1>2. CASE ReadLogin(s)
  <2>1. PICK e \in Address : \E u \in Registered(e) :
          call' = [call EXCEPT ![s] = [st |-> "comparing", token |-> TokenOf(u, NoIdentity),
                                       verified |-> account[u].verified]]
    BY <1>2 DEF ReadLogin, Begin
  <2>2. PICK u \in Registered(e) :
          call' = [call EXCEPT ![s] = [st |-> "comparing", token |-> TokenOf(u, NoIdentity),
                                       verified |-> account[u].verified]]
    BY <2>1
  <2>3. TokenGood(TokenOf(u, NoIdentity), account) /\ TokenOf(u, NoIdentity).via = NoIdentity
    BY RegisteredRows, TokenOfGood DEF Inv
  <2>4. account[u].verified \in BOOLEAN
    BY RegisteredRows, RowFields DEF Inv, There, Account
  <2>5. QED
    BY <2>2, <2>3, <2>4, TokenGoes
<1>3. CASE ReadRefresh(s)
  <2>1. PICK t \in refresh :
          call' = [call EXCEPT ![s] = [st |-> "renewing", token |-> t, verified |-> FALSE]]
    BY <1>3 DEF ReadRefresh, Begin
  <2>2. TokenGood(t, account)
    BY DEF Inv
  <2>3. QED
    BY <2>1, <2>2, TokenGoes
<1>4. CASE ReadChange(s)
  <2>1. PICK t \in access :
          call' = [call EXCEPT ![s] = [st |-> "changing",
                     token |-> TokenOf(t.user, NoIdentity), verified |-> FALSE]]
    BY <1>4 DEF ReadChange, Begin
  <2>2. t.user \in UserId /\ There(t.user)
    BY DEF Inv, TokenGood, Token, There
  <2>3. TokenGood(TokenOf(t.user, NoIdentity), account)
          /\ TokenOf(t.user, NoIdentity).via = NoIdentity
    BY <2>2, TokenOfGood DEF Inv
  <2>4. QED
    BY <2>1, <2>3, TokenGoes
<1>5. QED
  BY <1>1, <1>2, <1>3, <1>4

LEMMA GuessGoesOn ==
  ASSUME Inv, AccountsNext, NEW s \in Session, GuessRight(s)
  PROVE  Goes(s)
<1> DEFINE c == [call[s] EXCEPT !.st = "marking"]
<1>1. call[s].st = "guessing" /\ call' = [call EXCEPT ![s] = c]
  BY DEF GuessRight, Go
<1>2. call[s] \in TokenCall /\ call[s].token.via = NoIdentity
  BY <1>1, CallKinds DEF Inv, CallGood
<1>3. TokenGood(call[s].token, account)
  BY <1>2 DEF Inv, CallGood
<1>4. c = [st |-> "marking", token |-> call[s].token, verified |-> call[s].verified]
        /\ call[s].verified \in BOOLEAN
  BY <1>2 DEF TokenCall
<1> HIDE DEF c
<1>5. QED
  BY <1>1, <1>2, <1>3, <1>4, TokenGoes

LEMMA IssuesCode ==
  ASSUME Inv, AccountsNext, NEW s \in Session,
         CreateUser(s) \/ DropCode(s) \/ Resend(s) \/ WriteProfile(s)
  PROVE  Goes(s) \/ call' = [call EXCEPT ![s] = Free]
<1> SUFFICES ASSUME call' # [call EXCEPT ![s] = Free]
             PROVE  Goes(s)
  OBVIOUS
<1>1. \E c \in IssuingCall :
        account'[c.user].there /\ call' = [call EXCEPT ![s] = c]
  <2>1. CASE CreateUser(s)
    <3>1. PICK u \in UserId :
            /\ account' = [account EXCEPT ![u] =
                 NewAccount(call[s].email, call[s].pass, FALSE, NoIdentity)]
            /\ Go(s, [st |-> "issuing", user |-> u, again |-> FALSE])
      BY <2>1 DEF CreateUser
    <3>2. account'[u].there
      BY <3>1 DEF Inv, Rows, NewAccount
    <3>3. [st |-> "issuing", user |-> u, again |-> FALSE] \in IssuingCall
      BY DEF IssuingCall
    <3>4. QED
      BY <3>1, <3>2, <3>3 DEF Go
  <2>2. CASE DropCode(s)
    <3>1. call[s] \in IssuingCall /\ account'[call[s].user].there
      <4>1. call[s] \in IssuingCall /\ account[call[s].user].there
        BY <2>2, CallKinds DEF DropCode, Inv, CallGood
      <4>2. QED
        BY <2>2, <4>1 DEF DropCode
    <3> DEFINE c == [call[s] EXCEPT !.again = FALSE]
    <3>2. c \in IssuingCall /\ c.user = call[s].user
      BY <3>1 DEF IssuingCall
    <3>3. call' = [call EXCEPT ![s] = c]
      BY <2>2 DEF DropCode, Go
    <3> HIDE DEF c
    <3>4. QED
      BY <3>1, <3>2, <3>3
  <2>3. CASE Resend(s)
    <3>1. PICK e \in Address : \E u \in Registered(e) :
            Begin(s, [st |-> "issuing", user |-> u, again |-> TRUE])
      BY <2>3 DEF Resend
    <3>2. PICK u \in Registered(e) :
            Begin(s, [st |-> "issuing", user |-> u, again |-> TRUE])
      BY <3>1
    <3>3. u \in UserId /\ account'[u].there
      BY RegisteredRows, RowsStep DEF There, Grows
    <3>4. [st |-> "issuing", user |-> u, again |-> TRUE] \in IssuingCall
      BY <3>3 DEF IssuingCall
    <3>5. QED
      BY <3>2, <3>3, <3>4 DEF Begin
  <2>4. CASE WriteProfile(s)
    <3>1. call[s] \in EditingCall /\ account[call[s].user].there
      BY <2>4, CallKinds DEF WriteProfile, Inv, CallGood
    <3>2. call[s].user \in UserId
      BY <3>1 DEF EditingCall
    <3>3. account'[call[s].user].there
      BY <3>1, <3>2, RowsStep DEF Grows
    <3>4. call' = [call EXCEPT ![s] =
                    [st |-> "issuing", user |-> call[s].user, again |-> FALSE]]
      BY <2>4 DEF WriteProfile, Go, End
    <3>5. [st |-> "issuing", user |-> call[s].user, again |-> FALSE] \in IssuingCall
      BY <3>2 DEF IssuingCall
    <3>6. QED
      BY <3>3, <3>4, <3>5
  <2>5. QED
    BY <2>1, <2>2, <2>3, <2>4
<1>2. QED
  BY <1>1, IssuingGood DEF Goes

(* Requests that begin with a form, and Google's.                          *)
LEMMA BeginsOtherwise ==
  ASSUME Inv, AccountsNext, NEW s \in Session,
         Signup(s) \/ EditProfile(s) \/ GoogleNew(s)
  PROVE  Goes(s)
<1>1. CASE Signup(s)
  <2>1. PICK e \in Address, p \in Password :
          call' = [call EXCEPT ![s] = [st |-> "creating", email |-> e, pass |-> p]]
    BY <1>1 DEF Signup, Begin
  <2> DEFINE c == [st |-> "creating", email |-> e, pass |-> p]
  <2>2. c \in CreatingCall /\ c.st = "creating"
    BY DEF CreatingCall
  <2>3. CallGood(c, account', link')
    BY <2>2, KindsAreCalls DEF CallGood, TokenCall
  <2>4. QED
    BY <2>1, <2>2, <2>3 DEF Goes
<1>2. CASE EditProfile(s)
  <2>1. PICK t \in access, e \in Address :
          call' = [call EXCEPT ![s] = [st |-> "editing", user |-> t.user, email |-> e,
                                       moved |-> account[t.user].email # e]]
    BY <1>2 DEF EditProfile, Begin
  <2> DEFINE c == [st |-> "editing", user |-> t.user, email |-> e,
                   moved |-> account[t.user].email # e]
  <2>2. t.user \in UserId /\ account[t.user].there
    BY DEF Inv, TokenGood, Token
  <2>3. account'[t.user].there
    BY <2>2, RowsStep DEF Grows
  <2>4. c \in EditingCall /\ c.st = "editing" /\ c.user = t.user
    BY <2>2 DEF EditingCall
  <2>5. CallGood(c, account', link')
    BY <2>3, <2>4, KindsAreCalls DEF CallGood, TokenCall
  <2>6. QED
    BY <2>1, <2>4, <2>5 DEF Goes
<1>3. CASE GoogleNew(s)
  <2>1. PICK g \in Identity, e \in Address, trusted \in BOOLEAN :
          \/ \E u \in Registered(e) :
               Begin(s, [st |-> "linking", token |-> TokenOf(u, g), verified |-> TRUE])
          \/ Begin(s, [st |-> "joining", email |-> e, identity |-> g,
                       trusted |-> trusted])
    BY <1>3 DEF GoogleNew
  <2>2. ASSUME NEW u \in Registered(e),
               Begin(s, [st |-> "linking", token |-> TokenOf(u, g), verified |-> TRUE])
        PROVE  Goes(s)
    <3>1. TokenGood(TokenOf(u, g), account)
      BY RegisteredRows, TokenOfGood DEF Inv
    <3>2. QED
      BY <2>2, <3>1, TokenGoes DEF Begin
  <2>3. ASSUME Begin(s, [st |-> "joining", email |-> e, identity |-> g,
                         trusted |-> trusted])
        PROVE  Goes(s)
    <3> DEFINE c == [st |-> "joining", email |-> e, identity |-> g, trusted |-> trusted]
    <3>1. c \in JoiningCall /\ c.st = "joining"
      BY DEF JoiningCall
    <3>2. CallGood(c, account', link')
      BY <3>1, KindsAreCalls DEF CallGood, TokenCall
    <3>3. QED
      BY <2>3, <3>1, <3>2 DEF Goes, Begin
  <2>4. QED
    BY <2>1, <2>2, <2>3
<1>4. QED
  BY <1>1, <1>2, <1>3

LEMMA CallMoves ==
  ASSUME Inv, AccountsNext
  PROVE  call' = call \/ \E s \in Session : Goes(s) \/ ConsumeLink(s)
<1>1. ASSUME NEW s \in Session, call' = [call EXCEPT ![s] = Free]
      PROVE  Goes(s)
  BY <1>1, FreeIsGood DEF Goes
<1>2. ASSUME NEW s \in Session,
             \/ Signup(s) \/ CreateUser(s) \/ DropCode(s) \/ Resend(s) \/ VerifyEmail(s)
             \/ GuessRight(s) \/ ReadLogin(s) \/ ReadRefresh(s) \/ EditProfile(s)
             \/ WriteProfile(s) \/ ReadChange(s) \/ GoogleNew(s)
      PROVE  Goes(s)
  BY <1>1, <1>2, BeginsWithToken, GuessGoesOn, IssuesCode, BeginsOtherwise
<1>3. QED
  BY <1>1, <1>2, CallsAlone

LEMMA Taken ==
  ASSUME Inv, AccountsNext, NEW s \in Session, ConsumeLink(s)
  PROVE  \E l \in Link, next \in ResettingCall :
           /\ link[l].st = "sent"
           /\ next.link = l /\ CallGood(next, account', link')
           /\ call' = [call EXCEPT ![s] = next]
<1>1. PICK l \in Link :
        /\ link[l].st = "sent" /\ link' = [link EXCEPT ![l].st = "consumed"]
        /\ call' = [call EXCEPT ![s] =
                      [st |-> "resetting", link |-> l, user |-> link[l].user]]
  BY DEF ConsumeLink, Begin
<1> DEFINE c == [st |-> "resetting", link |-> l, user |-> link[l].user]
<1>2. link[l] \in LinkType /\ link[l] # Unsent /\ LinkGood(link[l], account)
  BY <1>1 DEF Inv, Links, Unsent
<1>3. link[l].user \in UserId /\ link[l].writes \in Nat
  BY <1>2 DEF LinkType
<1>4. link[l].writes = 0
  BY <1>1, <1>2, <1>3 DEF LinkGood
<1>5. link'[l].st = "consumed" /\ link'[l].writes = 0
  <2>1. link'[l] = [link[l] EXCEPT !.st = "consumed"]
    BY <1>1 DEF Inv, Links
  <2>2. link[l] \in [st : {"sent", "expired", "consumed"}, user : UserId, writes : Nat]
    BY <1>2 DEF LinkType
  <2>3. QED
    BY <1>4, <2>1, <2>2
<1>6. account'[link[l].user].there
  BY <1>2, LinkStays DEF LinkGood
<1>7. c \in ResettingCall /\ c.st = "resetting" /\ c.link = l /\ c.user = link[l].user
  BY <1>3 DEF ResettingCall
<1>8. c \in CallType /\ c \notin TokenCall
  BY <1>7, KindsAreCalls DEF TokenCall
<1>9. call' = [call EXCEPT ![s] = c]
  BY <1>1
<1> HIDE DEF c
<1>10. CallGood(c, account', link')
  BY <1>5, <1>6, <1>7, <1>8 DEF CallGood
<1>11. QED
  BY <1>1, <1>7, <1>9, <1>10

LEMMA CallsStep ==
  ASSUME Inv, AccountsNext
  PROVE  /\ call' \in [Session -> CallType]
         /\ \A r \in Session : CallGood(call'[r], account', link')
         /\ OneTaker(call')
<1>1. ASSUME NEW r \in Session, call'[r] = call[r]
      PROVE  CallGood(call'[r], account', link')
  <2>1. ~ResetPassword(r)
    <3>1. ASSUME ResetPassword(r) PROVE FALSE
      <4>1. call[r].st = "resetting" /\ call'[r] = Free
        BY <3>1 DEF ResetPassword, End, Go, Inv
      <4>2. QED
        BY <1>1, <4>1, FreeIsGood
    <3>2. QED
      BY <3>1
  <2>2. QED
    BY <1>1, <2>1, CallStays
<1>2. CASE call' = call
  BY <1>1, <1>2 DEF Inv
<1>3. ASSUME NEW s \in Session, Goes(s)
      PROVE  /\ call' \in [Session -> CallType]
             /\ \A r \in Session : CallGood(call'[r], account', link')
             /\ OneTaker(call')
  <2>1. PICK next : /\ call' = [call EXCEPT ![s] = next]
                    /\ CallGood(next, account', link')
                    /\ next.st # "resetting"
    BY <1>3 DEF Goes
  <2>2. next \in CallType
    BY <2>1 DEF CallGood
  <2>3. call'[s] = next /\ \A r \in Session \ {s} : call'[r] = call[r]
    BY <2>1 DEF Inv
  <2>4. OneTaker(call')
    BY <2>1, <2>3 DEF OneTaker, Inv
  <2>5. QED
    BY <1>1, <2>1, <2>2, <2>3, <2>4 DEF Inv
<1>4. ASSUME NEW s \in Session, ConsumeLink(s)
      PROVE  /\ call' \in [Session -> CallType]
             /\ \A r \in Session : CallGood(call'[r], account', link')
             /\ OneTaker(call')
  <2>1. PICK l \in Link, next \in ResettingCall :
           /\ link[l].st = "sent"
           /\ next.link = l /\ CallGood(next, account', link')
           /\ call' = [call EXCEPT ![s] = next]
    BY <1>4, Taken
  <2>2. call'[s] = next /\ \A r \in Session \ {s} : call'[r] = call[r]
    BY <2>1 DEF Inv
  <2>3. \A r \in Session : call[r].st = "resetting" => call[r].link # l
    BY <2>1 DEF Inv, CallGood
  <2>4. OneTaker(call')
    BY <2>1, <2>2, <2>3 DEF OneTaker, Inv
  <2>5. QED
    BY <1>1, <2>1, <2>2, <2>4, KindsAreCalls DEF Inv
<1>5. QED
  BY <1>2, <1>3, <1>4, CallMoves

-----------------------------------------------------------------------------
(* Results.                                                                *)

LEMMA InvInit == AccountsInit => Inv
<1> SUFFICES ASSUME AccountsInit PROVE Inv
  OBVIOUS
<1>1. account \in Rows
  BY NewAccountType, AccountsAssumption DEF AccountsInit, Rows
<1>2. code \in Codes /\ \A u \in UserId : CodeGood(code[u])
  BY DEF AccountsInit, Codes, CodeGood, NoCode
<1>3. link \in Links /\ \A l \in Link : LinkGood(link[l], account)
  BY DEF AccountsInit, Links, LinkGood, LinkType
<1>4. /\ call \in [Session -> CallType]
      /\ \A s \in Session : CallGood(call[s], account, link)
      /\ OneTaker(call)
  BY FreeIsGood, KindsAreCalls DEF AccountsInit, OneTaker
<1>5. served \in 0 .. MaxServed
  BY AccountsAssumption DEF AccountsInit
<1>6. QED
  BY <1>1, <1>2, <1>3, <1>4, <1>5 DEF Inv, AccountsInit

LEMMA InvStep == Inv /\ [AccountsNext]_accountVars => Inv'
<1>1. CASE UNCHANGED accountVars
  BY <1>1 DEF accountVars, Inv, OneTaker
<1>2. ASSUME Inv, AccountsNext
      PROVE  Inv'
  BY <1>2, RowsStep, TokensStep, CodesStep, LinksStep, CallsStep, ServedStep DEF Inv
<1>3. QED
  BY <1>1, <1>2

LEMMA Invariance == AccountsSpec => []Inv
  BY InvInit, InvStep, PTL DEF AccountsSpec

(* Every variable keeps its type.                                          *)
THEOREM AccountsTyped == AccountsSpec => []AccountTypes
<1>1. Inv => AccountTypes
  BY DEF Inv, AccountTypes, Rows, Codes, Links, TokenGood
<1>2. QED
  BY <1>1, Invariance, PTL

(* A session that is let in was opened against the password the account    *)
(* has now, whatever requests were in progress when that was set.          *)
THEOREM SessionsEnd == AccountsSpec => []SessionsEndWithPassword
<1>1. Inv => SessionsEndWithPassword
  BY DEF Inv, SessionsEndWithPassword, TokenGood, Current
<1>2. QED
  BY <1>1, Invariance, PTL

(* A code is compared at most MaxAttempts times, and opens its account     *)
(* once.                                                                   *)
THEOREM CodeOnce == AccountsSpec => []CodeSpentOnce
<1>1. Inv => CodeSpentOnce
  BY DEF Inv, CodeSpentOnce, CodeGood
<1>2. QED
  BY <1>1, Invariance, PTL

(* A reset link sets at most one password, once it was taken in time.      *)
THEOREM LinkOnce == AccountsSpec => []LinkSpentOnce
<1>1. Inv => LinkSpentOnce
  BY DEF Inv, LinkSpentOnce, LinkGood
<1>2. QED
  BY <1>1, Invariance, PTL

LEMMA OpensStep ==
  ASSUME Inv, AccountsNext
  PROVE  OpensItsOwn
<1> USE DEF OpensItsOwn
<1>0. account' \in Rows /\ Grows(account, account')
  BY RowsStep
<1>1. CASE refresh' \subseteq refresh
  BY <1>1
<1>2. ASSUME NEW s \in Session, MarkVerified(s) \/ Login(s) \/ ChangePassword(s)
      PROVE  OpensItsOwn
  <2>1. call[s].st \in {"marking", "comparing", "changing"}
    BY <1>2 DEF MarkVerified, Login, ChangePassword
  <2>2. call[s].token.via = NoIdentity /\ call[s].token \in Token
    BY <2>1, CallKinds DEF Inv, CallGood, TokenGood
  <2>3. \A t \in refresh' \ refresh : t.via = NoIdentity
    <3>1. CASE MarkVerified(s) \/ Login(s)
      BY <2>2, <3>1 DEF MarkVerified, Login, Mint
    <3>2. CASE ChangePassword(s)
      BY <2>2, <3>2 DEF ChangePassword, Mint, Token
    <3>3. QED
      BY <1>2, <3>1, <3>2
  <2>4. QED
    BY <2>3
<1>3. ASSUME NEW s \in Session, GoogleLink(s)
      PROVE  OpensItsOwn
  <2> DEFINE t == call[s].token
  <2>1. TokenGood(t, account) /\ t \in Token
    BY <1>3, CallKinds DEF GoogleLink, Inv, CallGood, TokenGood
  <2>2. t.user \in UserId /\ account[t.user].there
    BY <2>1 DEF TokenGood, Token
  <2>3. account[t.user] \in Account
    BY <2>2, RowFields DEF Inv
  <2>4. account'[t.user] = [account[t.user] EXCEPT !.identity = t.via]
    BY <1>3, <2>2 DEF GoogleLink, Inv, Rows
  <2>5. account'[t.user].there /\ account'[t.user].identity = t.via
    BY <2>3, <2>4 DEF Account
  <2>6. refresh' = refresh \cup {t}
    BY <1>3 DEF GoogleLink, Mint
  <2> HIDE DEF t
  <2>7. QED
    BY <2>5, <2>6
<1>4. ASSUME NEW s \in Session, GoogleKnown(s) \/ GoogleRaced(s)
      PROVE  OpensItsOwn
  <2>1. account' = account /\ \E g : \E u \in Linked(g) : refresh' = refresh \cup {TokenOf(u, g)}
    BY <1>4 DEF GoogleKnown, GoogleRaced, Mint
  <2>2. PICK g : \E u \in Linked(g) : refresh' = refresh \cup {TokenOf(u, g)}
    BY <2>1
  <2>3. PICK u \in Linked(g) : refresh' = refresh \cup {TokenOf(u, g)}
    BY <2>2
  <2>4. u \in UserId /\ account[u].there /\ account[u].identity = g
    BY LinkedRows DEF There
  <2>5. TokenOf(u, g).user = u /\ TokenOf(u, g).via = g
    BY DEF TokenOf
  <2>6. QED
    BY <2>1, <2>3, <2>4, <2>5
<1>5. ASSUME NEW s \in Session, GoogleCreate(s)
      PROVE  OpensItsOwn
  <2>1. PICK u \in UserId :
          /\ account' = [account EXCEPT ![u] =
               NewAccount(call[s].email, NoPassword, call[s].trusted, call[s].identity)]
          /\ refresh' = refresh \cup {[user |-> u, version |-> 0, pass |-> NoPassword,
                                       via |-> call[s].identity]}
    BY <1>5 DEF GoogleCreate, Mint
  <2>2. account'[u].there /\ account'[u].identity = call[s].identity
    BY <2>1 DEF Inv, Rows, NewAccount
  <2>3. QED
    BY <2>1, <2>2
<1>6. ASSUME NEW s \in Session, Renew(s)
      PROVE  OpensItsOwn
  BY <1>6 DEF Renew
<1>7. QED
  BY <1>1, <1>2, <1>3, <1>4, <1>5, <1>6, TokensAlone

(* A Google sign-in opens a session of its own account and of no other.    *)
THEOREM GoogleOwn == AccountsSpec => GoogleOpensItsOwn
<1>1. Inv /\ [AccountsNext]_accountVars => [OpensItsOwn]_accountVars
  BY OpensStep
<1>2. QED
  BY <1>1, Invariance, PTL DEF AccountsSpec, GoogleOpensItsOwn

-----------------------------------------------------------------------------
(* Side by side: MCPeople explores accounts and workspaces in one run, and   *)
(* each of its behaviours is one of either part.                             *)

THEOREM PeopleCompose == Spec => AccountsSpec /\ WorkspacesSpec
<1>1. Init => AccountsInit /\ WorkspacesInit
  BY DEF Init
<1>2. [Next]_<<side, accountVars, workspaceVars>> =>
        [AccountsNext]_accountVars /\ [WorkspacesNext]_workspaceVars
  BY DEF Next
<1>3. QED
  BY <1>1, <1>2, PTL DEF Spec, AccountsSpec, WorkspacesSpec

\* The rows, tokens, codes, links and members of a run keep their types.
THEOREM PeopleTyped == Spec => []TypesKept
<1>1. AccountTypes /\ WorkspaceTypes => TypesKept
  BY DEF TypesKept
<1>2. QED
  BY <1>1, AccountsTyped, WorkspacesTyped, PeopleCompose, PTL
=============================================================================
