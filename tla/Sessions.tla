------------------------------- MODULE Sessions -------------------------------
(***************************************************************************)
(* Accounts and sign-in sessions: register, login, loginWithGoogle,        *)
(* refreshToken and logout, each await a step, and the staff endpoints     *)
(* that deactivate and delete accounts.  A session keeps the one refresh   *)
(* token it accepts; a client keeps the token it was last given, and two   *)
(* tabs may keep the same one.                                             *)
(***************************************************************************)
EXTENDS Naturals

CONSTANTS
  Users,           \* accounts, by the email they have or would have
  Kinds,           \* kinds of requests: sign-in, staff, settings, visits
  Mixes,           \* bound: how many of each kind a behaviour has, one of these
  None             \* no tenant, no session, no value

ASSUME AccountsAssumption == Mixes \subseteq [Kinds -> Nat]

VARIABLES
  account,         \* user -> [state, password]; a deleted account keeps its email
  left             \* kind -> requests still to come

AccountStates == {"absent", "active", "inactive", "deleted"}

\* Reads pass over deleted accounts (isDeleted: false).
Found(u) == account[u].state \in {"active", "inactive"}

\* An insert fails when the email was ever used: it is unique over all rows.
Insert(u, password) ==
  /\ account[u].state = "absent"
  /\ account' = [account EXCEPT ![u] = [state |-> "active", password |-> password]]

InsertFails(u) == account[u].state # "absent" /\ UNCHANGED account

\* One request less to come.
Asked(kind) ==
  /\ left[kind] > 0
  /\ left' = [left EXCEPT ![kind] = @ - 1]

\* UserService.createUser, with or without a password.
AddAccount(u, password) == Asked("settings") /\ Insert(u, password)

\* UserService.updateUser, UserService.deleteUser
SetAccount(u, state) ==
  /\ Asked("settings")
  /\ Found(u) /\ account[u].state # state
  /\ account' = [account EXCEPT ![u].state = state]

-----------------------------------------------------------------------------
CONSTANTS
  Signers,         \* accounts that sign in
  Clients          \* tabs and devices

ASSUME SessionsAssumption == Signers \subseteq Users

VARIABLES
  linked,          \* users with a Google AuthSocialAccount
  session,         \* AuthSession rows: [id, user, token]
  issued,          \* refresh tokens issued; a session's id is its first token
  held,            \* client -> the tokens it holds, [id, user, token], or None
  call,            \* client -> the step its request is at
  spent,           \* history: tokens exchanged for another
  spentTwice,      \* history: a token was exchanged twice
  raced            \* history: sessions refreshed by two requests at once

sessionVars == <<account, left, linked, session, issued, held, call, spent, spentTwice, raced>>

Ready == [at |-> "idle"]

Live(id) == {s \in session : s.id = id}

\* The rows after a session is written, as new or in its own place, or deleted.
With(s) == (session \ Live(s.id)) \cup {s}
Without(id) == session \ Live(id)

\* One link per platform and user of the platform.
Linked(u) == u \in linked

SessionInit ==
  /\ linked = {}
  /\ session = {}
  /\ issued = 0
  /\ held = [c \in Clients |-> None]
  /\ call = [c \in Clients |-> Ready]
  /\ spent = {}
  /\ spentTwice = FALSE
  /\ raced = {}

Begin(c, at, u) ==
  /\ call[c] = Ready
  /\ Asked("sign-in")
  /\ call' = [call EXCEPT ![c] = [at |-> at, user |-> u]]

Go(c, at) == call' = [call EXCEPT ![c].at = at]

Answer(c) == call' = [call EXCEPT ![c] = Ready]

history == <<spent, spentTwice, raced>>
tokens == <<session, issued, held>>

----------------------------------------------------------------------------
(* register, login, loginWithGoogle *)

BeginRegister(c, u) ==
  /\ ~Found(u)
  /\ Begin(c, "create", u)
  /\ UNCHANGED <<account, linked, tokens, history>>

\* createUser, then the session or, at Google's sign-in, the link.
CreateUser(c, password) ==
  LET u == call[c].user IN
  \/ Insert(u, password) /\ Go(c, IF password THEN "session" ELSE "link")
  \/ InsertFails(u) /\ Answer(c)

Register(c) ==
  /\ call[c].at = "create"
  /\ CreateUser(c, TRUE)
  /\ UNCHANGED <<linked, tokens, left, history>>

BeginLogin(c, u) ==
  /\ Found(u) /\ account[u].password
  /\ Begin(c, "status", u)
  /\ UNCHANGED <<account, linked, tokens, history>>

\* updateUserLoginStatus: a login makes the account active.
LoginStatus(c) ==
  LET u == call[c].user IN
  /\ call[c].at = "status"
  /\ IF Found(u)
     THEN account' = [account EXCEPT ![u].state = "active"] /\ Go(c, "session")
     ELSE Answer(c) /\ UNCHANGED account
  /\ UNCHANGED <<linked, tokens, left, history>>

\* An account known by its link or its email may sign in if it is active.
BeginGoogle(c, u) ==
  /\ IF Linked(u)
     THEN account[u].state = "active" /\ Begin(c, "session", u)
     ELSE Begin(c, "find", u)
  /\ UNCHANGED <<account, linked, tokens, history>>

GoogleFind(c) ==
  /\ call[c].at = "find"
  /\ Go(c, IF ~Found(call[c].user) THEN "signup"
           ELSE IF account[call[c].user].state = "active" THEN "link" ELSE "only link")
  /\ UNCHANGED <<account, linked, tokens, left, history>>

GoogleSignUp(c) ==
  /\ call[c].at = "signup"
  /\ CreateUser(c, FALSE)
  /\ UNCHANGED <<linked, tokens, left, history>>

\* The link is written before the account is looked at; a second one throws.
GoogleLink(c) ==
  /\ call[c].at \in {"link", "only link"}
  /\ linked' = linked \cup {call[c].user}
  /\ IF Linked(call[c].user) \/ call[c].at = "only link" THEN Answer(c) ELSE Go(c, "session")
  /\ UNCHANGED <<account, tokens, left, history>>

\* The client gets the tokens, or the answer is lost on its way.
Deliver(c, s) == held' = [held EXCEPT ![c] = s] \/ UNCHANGED held

\* generateAuthResponse without a session
CreateSession(c) ==
  LET s == [id |-> issued + 1, user |-> call[c].user, token |-> issued + 1] IN
  /\ call[c].at = "session"
  /\ issued' = issued + 1
  /\ session' = With(s)
  /\ Deliver(c, s)
  /\ Answer(c)
  /\ UNCHANGED <<account, linked, left, history>>

----------------------------------------------------------------------------
(* refreshToken, logout *)

Refreshing(d, id) == call[d].at \in {"user", "rotate", "revoke"} /\ call[d].id = id

\* A client presents the token it holds.  A session it is no longer the token
\* of is revoked; an unknown session is refused.
BeginRefresh(c) ==
  /\ held[c] # None
  /\ \E s \in Live(held[c].id) :
       /\ call[c] = Ready
       /\ Asked("sign-in")
       /\ call' = [call EXCEPT ![c] =
                     [at |-> IF s.token = held[c].token THEN "user" ELSE "revoke",
                      user |-> s.user, id |-> s.id, token |-> held[c].token]]
       /\ raced' = IF \E d \in Clients : Refreshing(d, s.id) THEN raced \cup {s.id} ELSE raced
  /\ UNCHANGED <<account, linked, tokens, spent, spentTwice>>

RefreshUser(c) ==
  /\ call[c].at = "user"
  /\ IF Found(call[c].user) THEN Go(c, "rotate") ELSE Answer(c)
  /\ UNCHANGED <<account, linked, tokens, left, history>>

Exchanged(c) ==
  /\ spent' = spent \cup {call[c].token}
  /\ spentTwice' = (spentTwice \/ call[c].token \in spent)
  /\ UNCHANGED raced

\* Mutant of Rotate: updateSession creates the row it does not find.
RotateUpserts(c) ==
  LET s == [id |-> call[c].id, user |-> call[c].user, token |-> issued + 1] IN
  /\ call[c].at = "rotate"
  /\ issued' = issued + 1
  /\ session' = With(s)
  /\ Deliver(c, s)
  /\ Exchanged(c)
  /\ Answer(c)
  /\ UNCHANGED <<account, linked, left>>

\* Mutant of Rotate: the session keeps its token.
RotateKeepsToken(c) ==
  LET s == [id |-> call[c].id, user |-> call[c].user, token |-> issued + 1] IN
  /\ call[c].at = "rotate"
  /\ issued' = issued + 1
  /\ Exchanged(c)
  /\ Deliver(c, s)
  /\ Answer(c)
  /\ UNCHANGED <<account, linked, session, left>>

\* generateAuthResponse with the session: its token is replaced, whatever it is
\* by now; a session that is gone is an error.
Rotate(c) ==
  LET s == [id |-> call[c].id, user |-> call[c].user, token |-> issued + 1] IN
  /\ call[c].at = "rotate"
  /\ IF Live(s.id) = {}
     THEN UNCHANGED <<tokens, history>>
     ELSE /\ issued' = issued + 1
          /\ session' = With(s)
          /\ Deliver(c, s)
          /\ Exchanged(c)
  /\ Answer(c)
  /\ UNCHANGED <<account, linked, left>>

\* Token reuse: the session goes, whatever its token is by now.
Revoke(c) ==
  /\ call[c].at = "revoke"
  /\ session' = Without(call[c].id)
  /\ Answer(c)
  /\ UNCHANGED <<account, linked, issued, held, left, history>>

\* A session that is gone already is no error here.
Logout(c) ==
  /\ call[c] = Ready
  /\ held[c] # None /\ Found(held[c].user)
  /\ session' = Without(held[c].id)
  /\ held' = [held EXCEPT ![c] = None]
  /\ UNCHANGED <<account, linked, issued, call, left, history>>

----------------------------------------------------------------------------
(* Clients *)

\* Two tabs of a browser, or a copied token.
Share(c, d) ==
  /\ held[c] # None /\ held[d] # held[c]
  /\ held' = [held EXCEPT ![d] = held[c]]
  /\ UNCHANGED <<account, linked, session, issued, call, left, history>>

\* The server stops.
Drop(c) ==
  /\ call[c] # Ready
  /\ Answer(c)
  /\ UNCHANGED <<account, linked, tokens, left, history>>

SignIn(c) ==
  Register(c) \/ LoginStatus(c) \/ GoogleFind(c) \/ GoogleSignUp(c) \/ GoogleLink(c)
    \/ CreateSession(c)

SessionNext ==
  \/ \E c \in Clients :
       \/ \E u \in Signers : BeginRegister(c, u) \/ BeginLogin(c, u) \/ BeginGoogle(c, u)
       \/ SignIn(c)
       \/ BeginRefresh(c) \/ RefreshUser(c) \/ Rotate(c) \/ Revoke(c)
       \/ Logout(c) \/ Drop(c)
       \/ \E d \in Clients : Share(c, d)

----------------------------------------------------------------------------
(* Properties *)

\* A session that was logged out or revoked for token reuse never comes back,
\* whatever refresh of it was on its way (refreshToken, deleteSessionById): a
\* session that is new has the id of the token just issued.
RevokedIsFinal ==
  [][\A s \in session' : Live(s.id) # {} \/ s.id = issued + 1]_session

\* A refresh token is exchanged for another at most once (refreshToken: "the
\* presented refresh token is single-use"), as long as no two requests refreshed
\* its session at once: both would find it current.
SerialTokenIsSingleUse == spentTwice => raced # {}

=============================================================================
