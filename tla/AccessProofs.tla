----------------------------- MODULE AccessProofs -----------------------------
(***************************************************************************)
(* Proofs about Access, for any users, clients and mixes of requests: what *)
(* refreshToken promises of a session and of its one refresh token, and    *)
(* what assertNotLastOwner promises of a store.                            *)
(***************************************************************************)
EXTENDS Access, FiniteSetTheorems, FunctionTheorems, TLAPS

RefreshSteps == {"user", "rotate", "revoke"}
OtherSteps == {"create", "status", "session", "find", "signup", "link", "only link"}

Row == [id : Nat, user : Signers, token : Nat]
Call == [at : {"idle"}] \cup [at : OtherSteps, user : Signers]
          \cup [at : RefreshSteps, user : Signers, id : Nat, token : Nat]

SignInTypeOK ==
  /\ issued \in Nat
  /\ session \in SUBSET Row
  /\ held \in [Clients -> Row \cup {None}]
  /\ call \in [Clients -> Call]
  /\ spent \in SUBSET Nat
  /\ spentTwice \in BOOLEAN

IsRefreshing(c) == call[c].at \in RefreshSteps

\* Tokens are counted up: no session has one that is later than the last.
TokensAreIssued ==
  /\ \A s \in session : s.id <= issued /\ s.token <= issued
  /\ \A c \in Clients : IsRefreshing(c) => call[c].id <= issued

\* A session is one row, and no token is that of two sessions.
SessionsDiffer ==
  \A s, t \in session : s.id = t.id \/ s.token = t.token => s = t

\* While no session was refreshed by two requests at once, a refresh has its
\* session to itself, so the token it found current still is when it writes, and
\* a session's token was never exchanged.
RefreshesAreAlone ==
  raced = {} =>
    /\ \A c, d \in Clients : c # d /\ IsRefreshing(c) /\ IsRefreshing(d) => call[c].id # call[d].id
    /\ \A c \in Clients : call[c].at \in {"user", "rotate"} =>
         \A s \in session : s.id = call[c].id => s.token = call[c].token
    /\ \A s \in session : s.token \notin spent
    /\ \A t \in spent : t <= issued
    /\ ~spentTwice

IInv == SignInTypeOK /\ TokensAreIssued /\ SessionsDiffer /\ RefreshesAreAlone

-----------------------------------------------------------------------------
\* Membership and the staff endpoints leave the sessions alone.
LEMMA NextSignsIn == [Next]_accessVars => SessionNext \/ UNCHANGED signInState
BY DEF Next, accessVars, Staffing, signInState

LEMMA InitIInv == Init => IInv
<1>1. SUFFICES ASSUME Init PROVE IInv
  OBVIOUS
<1>2. \A c \in Clients : call[c] = Ready /\ Ready.at = "idle"
  BY <1>1 DEF Init, SessionInit, Ready
<1>3. call \in [Clients -> Call] /\ \A c \in Clients : call[c].at = "idle"
  BY <1>1 DEF Init, SessionInit, Ready, Call
<1>4. SignInTypeOK
  BY <1>1, <1>3 DEF Init, SessionInit, SignInTypeOK
<1>5. QED
  BY <1>1, <1>3, <1>4 DEF Init, SessionInit, IInv, TokensAreIssued, SessionsDiffer,
     RefreshesAreAlone, IsRefreshing, RefreshSteps

\* What a request keeps at the step it is at.
LEMMA Keeps ==
  ASSUME SignInTypeOK, NEW c \in Clients
  PROVE  /\ call[c].at \in OtherSteps \cup RefreshSteps => call[c].user \in Signers
         /\ IsRefreshing(c) => call[c].id \in Nat /\ call[c].token \in Nat
<1>1. call[c] \in Call
  BY DEF SignInTypeOK
<1>2. CASE call[c] \in [at : {"idle"}]
  BY <1>2 DEF IsRefreshing, OtherSteps, RefreshSteps
<1>3. CASE call[c] \in [at : OtherSteps, user : Signers]
  BY <1>3 DEF IsRefreshing, OtherSteps, RefreshSteps
<1>4. CASE call[c] \in [at : RefreshSteps, user : Signers, id : Nat, token : Nat]
  BY <1>4
<1>5. QED
  BY <1>1, <1>2, <1>3, <1>4 DEF Call

\* What a request's move to another step does to the requests.
LEMMA GoesOn ==
  ASSUME SignInTypeOK, NEW c \in Clients, NEW at,
         \/ call[c].at \in OtherSteps /\ at \in OtherSteps
         \/ call[c].at \in RefreshSteps /\ at \in RefreshSteps,
         Go(c, at)
  PROVE  /\ call' \in [Clients -> Call]
         /\ call'[c].at = at
         /\ IsRefreshing(c) => call'[c].id = call[c].id /\ call'[c].token = call[c].token
         /\ \A d \in Clients \ {c} : call'[d] = call[d]
<1>1. call' = [call EXCEPT ![c] = [call[c] EXCEPT !.at = at]]
  BY DEF Go
<1>2. [call[c] EXCEPT !.at = at] \in Call
  BY DEF SignInTypeOK, Call, OtherSteps, RefreshSteps
<1>3. /\ [call[c] EXCEPT !.at = at].at = at
      /\ IsRefreshing(c) => /\ [call[c] EXCEPT !.at = at].id = call[c].id
                            /\ [call[c] EXCEPT !.at = at].token = call[c].token
  BY DEF SignInTypeOK, Call, OtherSteps, RefreshSteps, IsRefreshing
<1>4. QED
  BY <1>1, <1>2, <1>3 DEF SignInTypeOK

\* ... and the answer to a request.
LEMMA Answers ==
  ASSUME SignInTypeOK, NEW c \in Clients, Answer(c)
  PROVE  /\ call' \in [Clients -> Call]
         /\ call'[c].at = "idle"
         /\ \A d \in Clients \ {c} : call'[d] = call[d]
<1>1. Ready \in Call /\ Ready.at = "idle"
  BY DEF Ready, Call
<1>2. QED
  BY <1>1 DEF Answer, SignInTypeOK

\* A request that ends, or moves on, without a session written keeps it too.
LEMMA Quietly ==
  ASSUME IInv, NEW c \in Clients,
         UNCHANGED <<issued, history>>,
         session' \in SUBSET session,
         held' \in [Clients -> Row \cup {None}],
         call' \in [Clients -> Call],
         \A d \in Clients : \/ call'[d] = call[d]
                            \/ call'[d].at \notin RefreshSteps
                            \/ /\ IsRefreshing(d) /\ call'[d].at \in RefreshSteps
                               /\ call'[d].id = call[d].id /\ call'[d].token = call[d].token
                               /\ call'[d].at \in {"user", "rotate"} => call[d].at \in {"user", "rotate"}
  PROVE  IInv'
<1>1. \A d \in Clients : (IsRefreshing(d))' =>
         IsRefreshing(d) /\ call'[d].id = call[d].id /\ call'[d].token = call[d].token
  BY DEF IsRefreshing
<1>2. SignInTypeOK'
  BY DEF IInv, SignInTypeOK, history
<1>3. TokensAreIssued' /\ SessionsDiffer'
  BY <1>1 DEF IInv, TokensAreIssued, SessionsDiffer
<1>4. RefreshesAreAlone'
  <2>1. SUFFICES ASSUME raced = {} PROVE RefreshesAreAlone'
    BY DEF RefreshesAreAlone, history
  <2>2. \A d \in Clients : call'[d].at \in {"user", "rotate"} =>
           call[d].at \in {"user", "rotate"} /\ call'[d].id = call[d].id /\ call'[d].token = call[d].token
    BY DEF RefreshSteps
  <2>3. QED
    BY <1>1, <2>1, <2>2 DEF IInv, RefreshesAreAlone, history
<1>5. QED
  BY <1>2, <1>3, <1>4 DEF IInv

\* A request that is begun, other than a refresh.
LEMMA Begins ==
  ASSUME SignInTypeOK, NEW c \in Clients, NEW u \in Signers, NEW at \in OtherSteps,
         Begin(c, at, u)
  PROVE  /\ call' \in [Clients -> Call]
         /\ call'[c].at = at
         /\ \A d \in Clients \ {c} : call'[d] = call[d]
<1>1. [at |-> at, user |-> u] \in Call
  BY DEF Call
<1>2. QED
  BY <1>1 DEF Begin, SignInTypeOK

-----------------------------------------------------------------------------
\* Registering and signing in write no session before they create one.
LEMMA SigningIn ==
  ASSUME IInv, NEW c \in Clients,
         \/ \E u \in Signers : BeginRegister(c, u) \/ BeginLogin(c, u) \/ BeginGoogle(c, u)
         \/ Register(c) \/ LoginStatus(c) \/ GoogleFind(c) \/ GoogleSignUp(c) \/ GoogleLink(c)
  PROVE  IInv'
<1>1. UNCHANGED <<tokens, history>>
  BY DEF BeginRegister, BeginLogin, BeginGoogle, Register, LoginStatus, GoogleFind,
     GoogleSignUp, GoogleLink
<1>2. \/ \E u \in Signers, at \in OtherSteps : Begin(c, at, u)
      \/ Answer(c)
      \/ call[c].at \in OtherSteps /\ \E at \in OtherSteps : Go(c, at)
  BY DEF BeginRegister, BeginLogin, BeginGoogle, Register, LoginStatus, GoogleFind,
     GoogleSignUp, GoogleLink, CreateUser, OtherSteps
<1>3. /\ call' \in [Clients -> Call]
      /\ call'[c].at \in OtherSteps \cup {"idle"}
      /\ \A d \in Clients \ {c} : call'[d] = call[d]
  BY <1>2, Begins, Answers, GoesOn DEF IInv
<1>4. call'[c].at \notin RefreshSteps
  BY <1>3 DEF OtherSteps, RefreshSteps
<1>5. session' \in SUBSET session /\ held' \in [Clients -> Row \cup {None}] /\ UNCHANGED issued
  BY <1>1 DEF IInv, SignInTypeOK, tokens
<1>6. QED
  BY <1>1, <1>3, <1>4, <1>5, Quietly

\* A session that is deleted, a request that stops, a token that is shared.
LEMMA Ending ==
  ASSUME IInv, NEW c \in Clients,
         Revoke(c) \/ Logout(c) \/ Drop(c) \/ \E d \in Clients : Share(c, d)
  PROVE  IInv'
<1>1. UNCHANGED <<issued, history>> /\ session' \in SUBSET session
  BY DEF Revoke, Logout, Drop, Share, Without, tokens
<1>2. held' \in [Clients -> Row \cup {None}]
  BY DEF IInv, SignInTypeOK, Revoke, Logout, Drop, Share, tokens
<1>3. Answer(c) \/ UNCHANGED call
  BY DEF Revoke, Logout, Drop, Share
<1>4. /\ call' \in [Clients -> Call]
      /\ \A d \in Clients : call'[d] = call[d] \/ call'[d].at \notin RefreshSteps
  <2>1. CASE Answer(c)
    BY <2>1, Answers DEF IInv, RefreshSteps
  <2>2. CASE UNCHANGED call
    BY <2>2 DEF IInv, SignInTypeOK
  <2>3. QED
    BY <1>3, <2>1, <2>2
<1>5. QED
  BY <1>1, <1>2, <1>4, Quietly

\* A refresh that finds its account goes on to write, else it is refused.
LEMMA FindingUser ==
  ASSUME IInv, NEW c \in Clients, RefreshUser(c)
  PROVE  IInv'
<1>1. UNCHANGED <<tokens, history>> /\ call[c].at = "user"
  BY DEF RefreshUser
<1>2. Go(c, "rotate") \/ Answer(c)
  BY DEF RefreshUser
<1>3. call[c].at \in RefreshSteps /\ "rotate" \in RefreshSteps
  BY <1>1 DEF RefreshSteps
<1>4. CASE Go(c, "rotate")
  <2>1. /\ call' \in [Clients -> Call]
        /\ call'[c].at = "rotate" /\ call'[c].id = call[c].id /\ call'[c].token = call[c].token
        /\ \A d \in Clients \ {c} : call'[d] = call[d]
    BY <1>3, <1>4, GoesOn DEF IInv, IsRefreshing
  <2>2. QED
    BY <1>1, <1>3, <2>1, Quietly DEF IInv, SignInTypeOK, tokens, IsRefreshing
<1>5. CASE Answer(c)
  BY <1>1, <1>5, Answers, Quietly DEF IInv, SignInTypeOK, tokens, RefreshSteps
<1>6. QED
  BY <1>2, <1>4, <1>5

\* A new session has the token just issued for its own, and nobody refreshes it yet.
LEMMA Creating ==
  ASSUME IInv, NEW c \in Clients, CreateSession(c)
  PROVE  IInv'
<1> DEFINE s == [id |-> issued + 1, user |-> call[c].user, token |-> issued + 1]
<1>1. /\ call[c].at = "session" /\ issued' = issued + 1
      /\ session' = (session \ Live(s.id)) \cup {s}
      /\ held' = [held EXCEPT ![c] = s] \/ UNCHANGED held
      /\ Answer(c) /\ UNCHANGED history
  BY DEF CreateSession, With, Deliver
<1>2. s \in Row
  <2>1. call[c].user \in Signers /\ issued \in Nat
    BY <1>1, Keeps DEF IInv, SignInTypeOK, OtherSteps
  <2>2. QED
    BY <2>1 DEF Row
<1>3. /\ call' \in [Clients -> Call]
      /\ call'[c].at = "idle"
      /\ \A d \in Clients \ {c} : call'[d] = call[d]
  BY <1>1, Answers DEF IInv
<1>4. session' = session \cup {s} /\ \A t \in session : t.id # s.id /\ t.token # s.token
  BY <1>1 DEF IInv, SignInTypeOK, TokensAreIssued, Live, Row
<1>5. \A d \in Clients : (IsRefreshing(d))' => d # c /\ IsRefreshing(d) /\ call'[d] = call[d]
  BY <1>3 DEF IsRefreshing, RefreshSteps
<1>6. \A d \in Clients : IsRefreshing(d) => call[d].id \in Nat /\ call[d].id # s.id
  BY Keeps DEF IInv, SignInTypeOK, TokensAreIssued
<1>7. SignInTypeOK'
  BY <1>1, <1>2, <1>3, <1>4 DEF IInv, SignInTypeOK, history
<1>8. TokensAreIssued'
  BY <1>1, <1>4, <1>5, <1>6 DEF IInv, SignInTypeOK, TokensAreIssued, Row
<1>9. SessionsDiffer'
  BY <1>4 DEF IInv, SessionsDiffer
<1>10. RefreshesAreAlone'
  <2>1. SUFFICES ASSUME raced = {} PROVE RefreshesAreAlone'
    BY <1>1 DEF RefreshesAreAlone, history
  <2>2. \A d, e \in Clients : d # e /\ (IsRefreshing(d))' /\ (IsRefreshing(e))'
                               => call'[d].id # call'[e].id
    BY <1>5, <2>1 DEF IInv, RefreshesAreAlone
  <2>3. ASSUME NEW d \in Clients, call'[d].at \in {"user", "rotate"}, NEW t \in session', t.id = call'[d].id
        PROVE  t.token = call'[d].token
    <3>1. (IsRefreshing(d))'
      BY <2>3 DEF IsRefreshing, RefreshSteps
    <3>2. call'[d] = call[d] /\ t \in session
      BY <1>4, <1>5, <1>6, <2>3, <3>1
    <3>3. QED
      BY <2>1, <2>3, <3>2 DEF IInv, RefreshesAreAlone
  <2>4. /\ \A t \in session' : t.token \notin spent
        /\ \A t \in spent : t <= issued + 1
        /\ ~spentTwice
    BY <1>4, <2>1 DEF IInv, SignInTypeOK, RefreshesAreAlone
  <2>5. QED
    BY <1>1, <2>2, <2>3, <2>4 DEF RefreshesAreAlone, history
<1>11. QED
  BY <1>7, <1>8, <1>9, <1>10 DEF IInv

\* A refresh finds its token current or revokes; one that is not alone is noted.
LEMMA Presenting ==
  ASSUME IInv, NEW c \in Clients, BeginRefresh(c)
  PROVE  IInv'
<1>1. PICK s \in Live(held[c].id) :
         /\ call[c] = Ready
         /\ call' = [call EXCEPT ![c] =
                       [at |-> IF s.token = held[c].token THEN "user" ELSE "revoke",
                        user |-> s.user, id |-> s.id, token |-> held[c].token]]
         /\ raced' = IF \E d \in Clients : Refreshing(d, s.id) THEN raced \cup {s.id} ELSE raced
  BY DEF BeginRefresh
<1>2. held[c] \in Row /\ UNCHANGED <<session, issued, held, spent, spentTwice>>
  BY DEF BeginRefresh, tokens, IInv, SignInTypeOK
<1>3. s \in session /\ s \in Row
  BY DEF Live, IInv, SignInTypeOK
<1> DEFINE r == [at |-> IF s.token = held[c].token THEN "user" ELSE "revoke",
                 user |-> s.user, id |-> s.id, token |-> held[c].token]
<1>4. r \in Call /\ r.id = s.id /\ r.token = held[c].token /\ (r.at # "revoke" => s.token = r.token)
  BY <1>2, <1>3 DEF Call, Row, RefreshSteps
<1>5. /\ call' \in [Clients -> Call] /\ call'[c] = r
      /\ \A d \in Clients \ {c} : call'[d] = call[d]
  BY <1>1, <1>4 DEF IInv, SignInTypeOK
<1>6. SignInTypeOK'
  BY <1>2, <1>5 DEF IInv, SignInTypeOK
<1>7. TokensAreIssued' /\ SessionsDiffer'
  BY <1>2, <1>3, <1>4, <1>5 DEF IInv, TokensAreIssued, SessionsDiffer, IsRefreshing
<1>8. RefreshesAreAlone'
  <2>1. SUFFICES ASSUME raced' = {} PROVE RefreshesAreAlone'
    BY DEF RefreshesAreAlone
  <2>2. raced = {} /\ \A d \in Clients : IsRefreshing(d) => call[d].id # s.id
    BY <1>1, <2>1 DEF Refreshing, IsRefreshing, RefreshSteps
  <2>3. \A d, e \in Clients : d # e /\ (IsRefreshing(d))' /\ (IsRefreshing(e))'
                               => call'[d].id # call'[e].id
    BY <1>4, <1>5, <2>2 DEF IInv, RefreshesAreAlone, IsRefreshing
  <2>4. ASSUME NEW d \in Clients, call'[d].at \in {"user", "rotate"}, NEW t \in session, t.id = call'[d].id
        PROVE  t.token = call'[d].token
    <3>1. CASE d = c
      BY <1>3, <1>4, <1>5, <2>4, <3>1 DEF IInv, SessionsDiffer
    <3>2. CASE d # c
      BY <1>5, <2>2, <2>4, <3>2 DEF IInv, RefreshesAreAlone
    <3>3. QED
      BY <3>1, <3>2
  <2>5. QED
    BY <1>2, <2>2, <2>3, <2>4 DEF IInv, RefreshesAreAlone
<1>9. QED
  BY <1>6, <1>7, <1>8 DEF IInv

\* A refresh that writes exchanges the token its session has for one never seen.
LEMMA Rotating ==
  ASSUME IInv, NEW c \in Clients, Rotate(c)
  PROVE  IInv'
<1> DEFINE s == [id |-> call[c].id, user |-> call[c].user, token |-> issued + 1]
<1>1. call[c].at = "rotate" /\ Answer(c) /\ IsRefreshing(c)
  BY DEF Rotate, IsRefreshing, RefreshSteps
<1>2. /\ call' \in [Clients -> Call]
      /\ call'[c].at = "idle"
      /\ \A d \in Clients \ {c} : call'[d] = call[d]
  BY <1>1, Answers DEF IInv
<1>3. CASE Live(s.id) = {}
  <2>1. UNCHANGED <<tokens, history>>
    BY <1>3 DEF Rotate
  <2>2. QED
    BY <1>2, <2>1, Quietly DEF IInv, SignInTypeOK, tokens, RefreshSteps
<1>4. CASE Live(s.id) # {}
  <2>1. /\ issued' = issued + 1
        /\ session' = (session \ Live(s.id)) \cup {s}
        /\ held' = [held EXCEPT ![c] = s] \/ UNCHANGED held
        /\ spent' = spent \cup {call[c].token}
        /\ UNCHANGED raced
    BY <1>4 DEF Rotate, With, Deliver, Exchanged
  <2>12. spentTwice' = (spentTwice \/ call[c].token \in spent)
    BY <1>4 DEF Rotate, Exchanged
  <2>2. PICK old \in session : old.id = s.id
    BY <1>4 DEF Live
  <2>3. s \in Row /\ issued \in Nat /\ call[c].token \in Nat
    BY <1>1, Keeps DEF IInv, SignInTypeOK, RefreshSteps, Row
  <2>4. \A t \in session' : t = s \/ (t \in session /\ t.id # s.id)
    <3>1. \A t \in session' : t \in {s} \/ (t \in session /\ t \notin Live(s.id))
      BY <2>1
    <3>2. QED
      BY <3>1 DEF Live
  <2>5. \A t \in session : t.id \in Nat /\ t.token \in Nat /\ t.id <= issued /\ t.token <= issued
    BY DEF IInv, SignInTypeOK, TokensAreIssued, Row
  <2>6. \A d \in Clients : (IsRefreshing(d))' => d # c /\ IsRefreshing(d) /\ call'[d] = call[d]
    BY <1>2 DEF IsRefreshing, RefreshSteps
  <2>7. SignInTypeOK'
    <3>1. issued' \in Nat /\ spent' \in SUBSET Nat
      <4>1. spent \in SUBSET Nat
        BY DEF IInv, SignInTypeOK
      <4>2. issued' = issued + 1 /\ spent' = spent \cup {call[c].token}
        BY <2>1
      <4>3. issued \in Nat /\ call[c].token \in Nat
        BY <2>3
      <4>4. issued' \in Nat
        BY <4>2, <4>3
      <4>5. {call[c].token} \in SUBSET Nat
        BY <4>3, Zenon
      <4>6. spent' \in SUBSET Nat
        BY <4>1, <4>2, <4>5, Zenon
      <4>7. QED
        BY <4>4, <4>6
    <3>4. spentTwice' \in BOOLEAN
      BY <2>12, Zenon
    <3>2. session' \in SUBSET Row /\ held' \in [Clients -> Row \cup {None}]
      BY <2>1, <2>3 DEF IInv, SignInTypeOK
    <3>3. QED
      BY <1>2, <3>1, <3>2, <3>4 DEF SignInTypeOK
  <2>8. TokensAreIssued'
    <3>1. \A t \in session' : t.id <= issued + 1 /\ t.token <= issued + 1
      BY <2>2, <2>3, <2>4, <2>5
    <3>2. \A d \in Clients : (IsRefreshing(d))' => call'[d].id <= issued + 1
      BY <2>3, <2>6, Keeps DEF IInv, TokensAreIssued
    <3>3. QED
      BY <2>1, <3>1, <3>2 DEF TokensAreIssued, IsRefreshing
  <2>9. SessionsDiffer'
    BY <2>3, <2>4, <2>5 DEF IInv, SessionsDiffer
  <2>10. RefreshesAreAlone'
    <3>1. SUFFICES ASSUME raced = {} PROVE RefreshesAreAlone'
      BY <2>1 DEF RefreshesAreAlone
    <3>2. old.token = call[c].token
      BY <1>1, <2>2, <3>1 DEF IInv, RefreshesAreAlone
    <3>3. \A d, e \in Clients : d # e /\ (IsRefreshing(d))' /\ (IsRefreshing(e))'
                                 => call'[d].id # call'[e].id
      BY <2>6, <3>1 DEF IInv, RefreshesAreAlone
    <3>4. ASSUME NEW d \in Clients, call'[d].at \in {"user", "rotate"}, NEW t \in session', t.id = call'[d].id
          PROVE  t.token = call'[d].token
      <4>1. (IsRefreshing(d))'
        BY <3>4 DEF IsRefreshing, RefreshSteps
      <4>2. d # c /\ call'[d] = call[d] /\ call[d].id # s.id
        BY <1>1, <2>6, <3>1, <4>1 DEF IInv, RefreshesAreAlone
      <4>3. t \in session
        BY <2>4, <3>4, <4>2
      <4>4. QED
        BY <3>1, <3>4, <4>2, <4>3 DEF IInv, RefreshesAreAlone
    <3>5. \A t \in session' : t.token \notin spent'
      <4>1. s.token \notin spent'
        BY <2>1, <2>2, <2>3, <2>5, <3>1, <3>2 DEF IInv, SignInTypeOK, RefreshesAreAlone
      <4>2. \A t \in session : t.id # s.id => t.token \notin spent'
        BY <2>1, <2>2, <3>1, <3>2 DEF IInv, SessionsDiffer, RefreshesAreAlone
      <4>3. QED
        BY <2>4, <4>1, <4>2
    <3>6. \A t \in spent' : t <= issued'
      BY <2>1, <2>2, <2>3, <2>5, <3>1, <3>2 DEF IInv, SignInTypeOK, RefreshesAreAlone
    <3>7. ~spentTwice'
      BY <2>12, <2>2, <3>1, <3>2 DEF IInv, RefreshesAreAlone
    <3>8. QED
      BY <2>1, <3>3, <3>4, <3>5, <3>6, <3>7 DEF RefreshesAreAlone
  <2>11. QED
    BY <2>7, <2>8, <2>9, <2>10 DEF IInv
<1>5. QED
  BY <1>3, <1>4

-----------------------------------------------------------------------------
\* Every step keeps the invariant.
LEMMA NextIInv == IInv /\ [Next]_accessVars => IInv'
<1>1. SUFFICES ASSUME IInv, [Next]_accessVars PROVE IInv'
  OBVIOUS
<1>2. CASE SessionNext
  BY <1>1, <1>2, SigningIn, Creating, Presenting, FindingUser, Rotating, Ending
  DEF SessionNext, SignIn
<1>3. CASE UNCHANGED signInState
  BY <1>1, <1>3 DEF signInState, IInv, SignInTypeOK, TokensAreIssued, SessionsDiffer,
     RefreshesAreAlone, IsRefreshing
<1>4. QED
  BY <1>1, <1>2, <1>3, NextSignsIn

\* Every behaviour keeps the invariant.
THEOREM SignInIsSound == Spec => []IInv
BY InitIInv, NextIInv, PTL DEF Spec

\* A refresh token is exchanged at most once unless two requests refreshed its
\* session at once (refreshToken), for any number of accounts, clients, requests.
THEOREM SingleUse == Spec => []SerialTokenIsSingleUse
<1>1. IInv => SerialTokenIsSingleUse
  BY DEF IInv, RefreshesAreAlone, SerialTokenIsSingleUse
<1>2. QED
  BY <1>1, SignInIsSound, PTL

\* A session that was deleted never comes back (deleteSessionById, updateSession).
THEOREM RevokedStays == Spec => RevokedIsFinal
<1>1. ASSUME [Next]_accessVars, NEW s \in session'
      PROVE  Live(s.id) # {} \/ s.id = issued + 1
  <2>1. CASE s \in session
    BY <2>1 DEF Live
  <2>2. CASE s \notin session
    <3>1. SessionNext /\ ~UNCHANGED session
      BY <1>1, <2>2, NextSignsIn DEF signInState
    <3>2. PICK c \in Clients : CreateSession(c) \/ Rotate(c) \/ Revoke(c) \/ Logout(c)
      BY <3>1 DEF SessionNext, SignIn, BeginRegister, BeginLogin, BeginGoogle, Register,
         LoginStatus, GoogleFind, GoogleSignUp, GoogleLink, BeginRefresh, RefreshUser,
         Drop, Share, tokens
    <3>3. CreateSession(c) \/ Rotate(c)
      BY <2>2, <3>2 DEF Revoke, Logout, Without
    <3>4. QED
      BY <1>1, <2>2, <3>1, <3>3 DEF CreateSession, Rotate, With, tokens
  <2>3. QED
    BY <2>1, <2>2
<1>2. [Next]_accessVars => [\A s \in session' : Live(s.id) # {} \/ s.id = issued + 1]_session
  BY <1>1
<1>3. QED
  BY <1>2, PTL DEF Spec, RevokedIsFinal

-----------------------------------------------------------------------------
(* Membership *)

Seat == [id : Nat \ {0}, tenant : Tenants \cup {None}, user : Users, role : TenantRoles]

Grants == [op : {"grant"}, user : Users, role : Roles, join : BOOLEAN, tenant : Tenants \cup {None}]
Changes == [op : {"update"}, id : Ids, role : Roles] \cup [op : {"remove"}, id : Ids]

GrantSteps == {"account", "open", "existing", "create"}
ChangeSteps == {"target", "count", "write"}

Job == [at : {"idle"}]
         \cup [at : {"acting"}, by : Users, order : Orders, tenant : Tenants \cup {None}]
         \cup [at : GrantSteps, by : Users, order : Grants, tenant : Tenants \cup {None},
               full : BOOLEAN]
         \cup [at : ChangeSteps, by : Users, order : Changes, tenant : Tenants \cup {None},
               full : BOOLEAN]
         \cup [at : {"log"}, tenant : Tenants \cup {None}, user : Users,
               role : TenantRoles \cup {None}]

RosterTypeOK ==
  /\ rows \in Nat
  /\ member \in SUBSET Seat
  /\ request \in [Staff -> Job]
  /\ alone \in BOOLEAN

\* Rows are numbered as they come.
RowsDiffer ==
  /\ \A r \in member : r.id <= rows
  /\ \A r, s \in member : r.id = s.id => r = s

\* A request that is about to take the role of a row's owner knows the row's
\* store before it counts, and that there is another owner afterwards.
LeavesAnOwner(job) ==
  job.at \in {"count", "write"} =>
    \A r \in member :
      /\ r.id = job.order.id /\ job.at = "count" => r.tenant = job.tenant
      /\ r.id = job.order.id /\ job.at = "write" /\ LosesOwner(job.order, r) =>
           \E s \in member : s # r /\ s.tenant = r.tenant /\ s.role = "OWNER"

OneAtATime == \A p, q \in Staff : request[p].at = "idle" \/ request[q].at = "idle" \/ p = q

OwnersInv ==
  /\ RosterTypeOK
  /\ RowsDiffer
  /\ alone => /\ OneAtATime
              /\ \A p \in Staff : LeavesAnOwner(request[p])
              /\ \A f \in Founders : f.role = "OWNER" => Owners(f.tenant) # {}

\* The founders are numbered apart.
LEMMA FoundersAreNumbered ==
  /\ Cardinality(Founders) \in Nat
  /\ FounderId \in [Founders -> 1 .. Cardinality(Founders)]
  /\ \A f, g \in Founders : FounderId[f] = FounderId[g] => f = g
<1> DEFINE n == Cardinality(Founders)
<1>1. n \in Nat /\ ExistsBijection(1 .. n, Founders)
  BY FS_CardinalityType, MembershipAssumption
<1>2. ExistsBijection(Founders, 1 .. n)
  BY <1>1, Fun_ExistsBijSymmetric
<1>3. PICK id \in Bijection(Founders, 1 .. n) : TRUE
  BY <1>2, Fun_ExistsBij
<1>4. id \in [Founders -> 1 .. n] /\ \A f, g \in Founders : id[f] = id[g] => f = g
  BY <1>3, Fun_BijectionProperties
<1>5. QED
  BY <1>1, <1>4 DEF FounderId

\* A store begins with its founders.
LEMMA InitOwners == Init => OwnersInv
<1> SUFFICES ASSUME Init PROVE OwnersInv
  OBVIOUS
<1> DEFINE seat(f) == [id |-> FounderId[f], tenant |-> f.tenant, user |-> f.user, role |-> f.role]
<1>1. /\ member = {seat(f) : f \in Founders} /\ rows = Cardinality(Founders) /\ alone = TRUE
      /\ request = [p \in Staff |-> Idle]
  BY DEF Init, MemberInit
<1>2. \A f \in Founders : FounderId[f] \in Nat \ {0} /\ FounderId[f] <= rows
  BY <1>1, FoundersAreNumbered
<1>3. \A f \in Founders : f.tenant \in Tenants /\ f.user \in Users /\ f.role \in TenantRoles
  BY MembershipAssumption
<1>4. \A f \in Founders : seat(f) \in Seat
  BY <1>2, <1>3 DEF Seat
<1>5. RosterTypeOK
  BY <1>1, <1>4, FoundersAreNumbered DEF RosterTypeOK, Idle, Job
<1>6. RowsDiffer
  BY <1>1, <1>2, FoundersAreNumbered DEF RowsDiffer
<1>7. \A p \in Staff : request[p].at = "idle"
  BY <1>1 DEF Idle
<1>8. ASSUME NEW f \in Founders, f.role = "OWNER" PROVE Owners(f.tenant) # {}
  <2>1. seat(f) \in member /\ seat(f).tenant = f.tenant /\ seat(f).role = "OWNER"
    BY <1>1, <1>8
  <2>2. QED
    BY <2>1 DEF Owners
<1>9. QED
  BY <1>5, <1>6, <1>7, <1>8 DEF OwnersInv, OneAtATime, LeavesAnOwner

\* A request that moves on, or ends, without writing a row or being about to.
LEMMA Aside ==
  ASSUME OwnersInv, NEW p \in Staff, NEW job \in Job,
         job.at \notin {"count", "write"},
         request[p].at # "idle" \/ job.at = "idle",
         request' = [request EXCEPT ![p] = job],
         UNCHANGED <<roster, alone>>
  PROVE  OwnersInv'
<1>1. /\ request' \in [Staff -> Job] /\ request'[p] = job
      /\ \A q \in Staff \ {p} : request'[q] = request[q]
      /\ UNCHANGED <<member, rows>>
  BY DEF OwnersInv, RosterTypeOK, roster
<1>2. RosterTypeOK' /\ RowsDiffer'
  BY <1>1 DEF OwnersInv, RosterTypeOK, RowsDiffer
<1>3. ASSUME alone
      PROVE  /\ OneAtATime'
             /\ \A q \in Staff : LeavesAnOwner(request[q])'
             /\ \A f \in Founders : f.role = "OWNER" => Owners(f.tenant)' # {}
  <2>1. OneAtATime'
    BY <1>1, <1>3 DEF OwnersInv, OneAtATime
  <2>2. \A q \in Staff : LeavesAnOwner(request[q])'
    BY <1>1, <1>3 DEF OwnersInv, LeavesAnOwner
  <2>3. \A f \in Founders : f.role = "OWNER" => Owners(f.tenant)' # {}
    BY <1>1, <1>3 DEF OwnersInv, Owners
  <2>4. QED
    BY <2>1, <2>2, <2>3
<1>4. QED
  BY <1>2, <1>3 DEF OwnersInv

\* The shape of a request past the check of its role, and of one that goes on.
LEMMA Stepping ==
  ASSUME RosterTypeOK, NEW p \in Staff
  PROVE  /\ request[p].at \in GrantSteps =>
              /\ request[p].order \in Grants /\ request[p].tenant \in Tenants \cup {None}
              /\ \A at \in GrantSteps : LET job == [request[p] EXCEPT !.at = at] IN
                   job \in Job /\ job.at = at
         /\ request[p].at \in ChangeSteps =>
              /\ request[p].order \in Changes /\ request[p].by \in Users
              /\ request[p].full \in BOOLEAN
              /\ \A at \in ChangeSteps : LET job == [request[p] EXCEPT !.at = at] IN
                   /\ job \in Job /\ job.at = at
                   /\ job.order = request[p].order /\ job.tenant = request[p].tenant
<1>1. CASE request[p].at \in GrantSteps
  <2>1. request[p] \in [at : GrantSteps, by : Users, order : Grants,
                        tenant : Tenants \cup {None}, full : BOOLEAN]
    BY <1>1 DEF RosterTypeOK, Job, GrantSteps, ChangeSteps
  <2>2. request[p].at \notin ChangeSteps
    BY <1>1 DEF GrantSteps, ChangeSteps
  <2>3. QED
    BY <2>1, <2>2 DEF Job
<1>2. CASE request[p].at \in ChangeSteps
  <2>1. request[p] \in [at : ChangeSteps, by : Users, order : Changes,
                        tenant : Tenants \cup {None}, full : BOOLEAN]
    BY <1>2 DEF RosterTypeOK, Job, GrantSteps, ChangeSteps
  <2>2. request[p].at \notin GrantSteps
    BY <1>2 DEF GrantSteps, ChangeSteps
  <2>3. QED
    BY <2>1, <2>2 DEF Job
<1>3. QED
  BY <1>1, <1>2

\* The answer to a request, at whatever step.
LEMMA Answering ==
  ASSUME OwnersInv, NEW p \in Staff, Answered(p), UNCHANGED <<roster, alone>>
  PROVE  OwnersInv'
<1>1. Idle \in Job /\ Idle.at = "idle"
  BY DEF Idle, Job
<1>2. QED
  BY <1>1, Aside DEF Answered

\* A grant up to the row it creates.
LEMMA Granting ==
  ASSUME OwnersInv, NEW p \in Staff,
         FindAccount(p) \/ OpenAccount(p) \/ FindMember(p)
  PROVE  OwnersInv'
<1>1. UNCHANGED <<roster, alone>> /\ request[p].at \in GrantSteps
  BY DEF FindAccount, OpenAccount, FindMember, UnchangedRest, GrantSteps
<1>2. Answered(p) \/ \E at \in {"existing", "open", "create"} : Step(p, at)
  BY DEF FindAccount, OpenAccount, FindMember
<1>3. CASE Answered(p)
  BY <1>1, <1>3, Answering
<1>4. ASSUME NEW at \in {"existing", "open", "create"}, Step(p, at)
      PROVE  OwnersInv'
  <2> DEFINE job == [request[p] EXCEPT !.at = at]
  <2>1. at \in GrantSteps /\ at \notin {"count", "write", "idle"}
    BY DEF GrantSteps
  <2>2. job \in Job /\ job.at = at
    BY <1>1, <2>1, Stepping DEF OwnersInv
  <2>3. request' = [request EXCEPT ![p] = job] /\ request[p].at # "idle"
    BY <1>1, <1>4 DEF Step, GrantSteps
  <2>4. QED
    BY <1>1, <2>1, <2>2, <2>3, Aside
<1>5. QED
  BY <1>2, <1>3, <1>4

\* What a request works for is settled before its target is looked at.
LEMMA Settling ==
  ASSUME OwnersInv, NEW p \in Staff, Acting(p)
  PROVE  OwnersInv'
<1>1. UNCHANGED <<roster, alone>> /\ request[p].at = "acting"
  BY DEF Acting, UnchangedRest
<1>2. request[p] \in [at : {"acting"}, by : Users, order : Orders, tenant : Tenants \cup {None}]
  BY <1>1 DEF OwnersInv, RosterTypeOK, Job, GrantSteps, ChangeSteps
<1>3. CASE Answered(p)
  BY <1>1, <1>3, Answering
<1>4. CASE ~Answered(p)
  <2>1. PICK full \in BOOLEAN :
          request' = [request EXCEPT ![p] =
            [at |-> IF request[p].order.op = "grant" THEN "account" ELSE "target",
             by |-> request[p].by, order |-> request[p].order, tenant |-> request[p].tenant,
             full |-> full]]
    BY <1>4 DEF Acting
  <2> DEFINE job == [at |-> IF request[p].order.op = "grant" THEN "account" ELSE "target",
                     by |-> request[p].by, order |-> request[p].order,
                     tenant |-> request[p].tenant, full |-> full]
  <2>2. job \in Job /\ job.at \in {"account", "target"}
    <3>1. CASE request[p].order.op = "grant"
      <4>1. request[p].order \in Grants
        BY <1>2, <3>1 DEF Orders, Grants
      <4>2. QED
        BY <1>2, <3>1, <4>1 DEF Job, GrantSteps
    <3>2. CASE request[p].order.op # "grant"
      <4>1. request[p].order \in Changes
        BY <1>2, <3>2 DEF Orders, Changes
      <4>2. QED
        BY <1>2, <3>2, <4>1 DEF Job, ChangeSteps
    <3>3. QED
      BY <3>1, <3>2
  <2>3. QED
    BY <1>1, <2>1, <2>2, Aside
<1>5. QED
  BY <1>3, <1>4

\* A request that comes alone is the only one.
LEMMA Asking ==
  ASSUME OwnersInv, NEW p \in Staff, NEW u \in Users, NEW t \in Tenants \cup {None},
         NEW o \in Orders, Ask(p, u, t, o)
  PROVE  OwnersInv'
<1> DEFINE job == [at |-> "acting", by |-> u, order |-> o, tenant |-> StoreOf(o, t)]
<1>1. /\ request' = [request EXCEPT ![p] = job] /\ UNCHANGED <<member, rows>>
      /\ alone' = (alone /\ \A q \in Staff : request[q] = Idle)
  BY DEF Ask, roster
<1>2. StoreOf(o, t) \in Tenants \cup {None}
  BY DEF StoreOf, NamesStore, Orders
<1>3. job \in Job
  BY <1>2 DEF Job
<1>4. /\ request' \in [Staff -> Job] /\ request'[p] = job
      /\ \A q \in Staff \ {p} : request'[q] = request[q]
  BY <1>1, <1>3 DEF OwnersInv, RosterTypeOK
<1>5. alone' \in BOOLEAN /\ (alone' => alone /\ \A q \in Staff : request[q] = Idle)
  BY <1>1
<1>6. RosterTypeOK' /\ RowsDiffer'
  BY <1>1, <1>4, <1>5 DEF OwnersInv, RosterTypeOK, RowsDiffer
<1>7. ASSUME alone'
      PROVE  /\ OneAtATime'
             /\ \A q \in Staff : LeavesAnOwner(request[q])'
             /\ \A f \in Founders : f.role = "OWNER" => Owners(f.tenant)' # {}
  <2>1. \A q \in Staff : request'[q].at \in {"idle", "acting"} /\ (q # p => request'[q].at = "idle")
    BY <1>4, <1>5, <1>7 DEF Idle
  <2>2. OneAtATime' /\ \A q \in Staff : LeavesAnOwner(request[q])'
    BY <2>1 DEF OneAtATime, LeavesAnOwner
  <2>3. \A f \in Founders : f.role = "OWNER" => Owners(f.tenant)' # {}
    BY <1>1, <1>5, <1>7 DEF OwnersInv, Owners
  <2>4. QED
    BY <2>2, <2>3
<1>8. QED
  BY <1>6, <1>7 DEF OwnersInv

\* A request whose next step is the audit entry.
LEMMA Logging ==
  ASSUME RosterTypeOK, NEW p \in Staff, NEW t \in Tenants \cup {None}, NEW u \in Users,
         NEW role \in TenantRoles \cup {None}, ToLog(p, t, u, role)
  PROVE  /\ request' \in [Staff -> Job] /\ request'[p].at = "log"
         /\ \A q \in Staff \ {p} : request'[q] = request[q]
<1>1. [at |-> "log", tenant |-> t, user |-> u, role |-> role] \in Job
  BY DEF Job
<1>2. QED
  BY <1>1 DEF ToLog, RosterTypeOK

\* A new member takes nobody's role.
LEMMA Joining ==
  ASSUME OwnersInv, NEW p \in Staff, Create(p)
  PROVE  OwnersInv'
<1> DEFINE o == request[p].order
           new == [id |-> rows + 1, tenant |-> request[p].tenant, user |-> o.user, role |-> o.role]
<1>1. request[p].at = "create" /\ request[p].at \in GrantSteps /\ UNCHANGED alone
  BY DEF Create, GrantSteps, UnchangedRest
<1>2. CASE RowOf(request[p].tenant, o.user) # {}
  BY <1>1, <1>2, Answering DEF Create, roster
<1>3. CASE RowOf(request[p].tenant, o.user) = {}
  <2>1. /\ rows' = rows + 1 /\ member' = member \cup {new}
        /\ ToLog(p, request[p].tenant, o.user, o.role)
    BY <1>3 DEF Create
  <2>2. o \in Grants /\ request[p].tenant \in Tenants \cup {None}
    BY <1>1, Stepping DEF OwnersInv
  <2>3. o.user \in Users /\ o.role \in TenantRoles /\ rows \in Nat
    BY <2>2, MembershipAssumption DEF Grants, OwnersInv, RosterTypeOK
  <2>4. new \in Seat /\ rows' \in Nat
    BY <2>1, <2>2, <2>3 DEF Seat
  <2>5. /\ request' \in [Staff -> Job] /\ request'[p].at = "log"
        /\ \A q \in Staff \ {p} : request'[q] = request[q]
    BY <2>1, <2>2, <2>3, Logging DEF OwnersInv
  <2>6. RosterTypeOK'
    BY <1>1, <2>1, <2>4, <2>5 DEF OwnersInv, RosterTypeOK
  <2>7. \A r \in member : r.id \in Nat /\ r.id <= rows
    BY DEF OwnersInv, RosterTypeOK, RowsDiffer, Seat
  <2>8. RowsDiffer'
    BY <2>1, <2>3, <2>7 DEF OwnersInv, RowsDiffer
  <2>9. ASSUME alone
        PROVE  /\ OneAtATime'
               /\ \A q \in Staff : LeavesAnOwner(request[q])'
               /\ \A f \in Founders : f.role = "OWNER" => Owners(f.tenant)' # {}
    <3>1. \A q \in Staff \ {p} : request'[q] = request[q] /\ request[q].at = "idle"
      BY <1>1, <2>5, <2>9 DEF OwnersInv, OneAtATime
    <3>2. OneAtATime' /\ \A q \in Staff : LeavesAnOwner(request[q])'
      BY <2>5, <3>1 DEF OneAtATime, LeavesAnOwner
    <3>3. \A f \in Founders : f.role = "OWNER" => Owners(f.tenant)' # {}
      BY <2>1, <2>9 DEF OwnersInv, Owners
    <3>4. QED
      BY <3>2, <3>3
  <2>10. QED
    BY <1>1, <2>6, <2>8, <2>9 DEF OwnersInv
<1>4. QED
  BY <1>2, <1>3

\* A change that costs an owner counts; another needs no count.
LEMMA Targeting ==
  ASSUME OwnersInv, NEW p \in Staff, FindTarget(p)
  PROVE  OwnersInv'
<1>1. request[p].at = "target" /\ request[p].at \in ChangeSteps /\ UNCHANGED <<roster, alone>>
  BY DEF FindTarget, ChangeSteps, UnchangedRest
<1>2. CASE Answered(p)
  BY <1>1, <1>2, Answering
<1>3. CASE ~Answered(p)
  <2>1. PICK r \in Target(p) :
          request' = [request EXCEPT ![p] =
            [at |-> IF LosesOwner(request[p].order, r) THEN "count" ELSE "write",
             by |-> request[p].by, order |-> request[p].order, tenant |-> r.tenant,
             full |-> request[p].full]]
    BY <1>3 DEF FindTarget
  <2> DEFINE job == [at |-> IF LosesOwner(request[p].order, r) THEN "count" ELSE "write",
                     by |-> request[p].by, order |-> request[p].order, tenant |-> r.tenant,
                     full |-> request[p].full]
  <2>2. r \in member /\ r.id = request[p].order.id /\ r.tenant \in Tenants \cup {None}
    BY DEF Target, OwnersInv, RosterTypeOK, Seat
  <2>3. job \in Job
    BY <1>1, <2>2, Stepping DEF OwnersInv, Job, ChangeSteps
  <2>4. /\ request' \in [Staff -> Job] /\ request'[p] = job
        /\ \A q \in Staff \ {p} : request'[q] = request[q]
        /\ UNCHANGED <<member, rows, alone>>
    BY <1>1, <2>1, <2>3 DEF OwnersInv, RosterTypeOK, roster
  <2>5. RosterTypeOK' /\ RowsDiffer'
    BY <2>4 DEF OwnersInv, RosterTypeOK, RowsDiffer
  <2>6. ASSUME alone
        PROVE  /\ OneAtATime'
               /\ \A q \in Staff : LeavesAnOwner(request[q])'
               /\ \A f \in Founders : f.role = "OWNER" => Owners(f.tenant)' # {}
    <3>1. \A q \in Staff \ {p} : request'[q] = request[q] /\ request[q].at = "idle"
      BY <1>1, <2>4, <2>6 DEF OwnersInv, OneAtATime
    <3>2. \A s \in member : s.id = request[p].order.id => s = r
      BY <2>2 DEF OwnersInv, RowsDiffer
    <3>3. LeavesAnOwner(request[p])'
      BY <2>4, <3>2 DEF LeavesAnOwner, LosesOwner
    <3>4. \A q \in Staff : LeavesAnOwner(request[q])'
      BY <3>1, <3>3 DEF LeavesAnOwner
    <3>5. OneAtATime' /\ \A f \in Founders : f.role = "OWNER" => Owners(f.tenant)' # {}
      BY <2>4, <2>6, <3>1 DEF OwnersInv, Owners, OneAtATime
    <3>6. QED
      BY <3>4, <3>5
  <2>7. QED
    BY <2>4, <2>5, <2>6 DEF OwnersInv
<1>4. QED
  BY <1>2, <1>3

\* With more than one owner there is another one.
LEMMA Counting ==
  ASSUME OwnersInv, NEW p \in Staff, CountOwners(p)
  PROVE  OwnersInv'
<1> DEFINE o == request[p].order
           t == request[p].tenant
           job == [request[p] EXCEPT !.at = "write"]
<1>1. request[p].at = "count" /\ request[p].at \in ChangeSteps /\ UNCHANGED <<roster, alone>>
  BY DEF CountOwners, ChangeSteps, UnchangedRest
<1>2. CASE Cardinality(Owners(t)) <= 1
  BY <1>1, <1>2, Answering DEF CountOwners
<1>3. CASE ~(Cardinality(Owners(t)) <= 1)
  <2>1. request' = [request EXCEPT ![p] = job]
    BY <1>3 DEF CountOwners, Step
  <2>2. job \in Job /\ job.at = "write" /\ job.order = o
    BY <1>1, Stepping DEF OwnersInv, ChangeSteps
  <2>3. /\ request' \in [Staff -> Job] /\ request'[p] = job
        /\ \A q \in Staff \ {p} : request'[q] = request[q]
        /\ UNCHANGED <<member, rows, alone>>
    BY <1>1, <2>1, <2>2 DEF OwnersInv, RosterTypeOK, roster
  <2>4. RosterTypeOK' /\ RowsDiffer'
    BY <2>3 DEF OwnersInv, RosterTypeOK, RowsDiffer
  <2>5. \A r : \E s \in Owners(t) : s # r
    <3>1. SUFFICES ASSUME NEW r, \A s \in Owners(t) : s = r PROVE FALSE
      OBVIOUS
    <3>2. Owners(t) = {} \/ Owners(t) = {r}
      BY <3>1
    <3>3. Cardinality(Owners(t)) = 0 \/ Cardinality(Owners(t)) = 1
      BY <3>2, FS_EmptySet, FS_Singleton
    <3>4. QED
      BY <1>3, <3>3
  <2>6. ASSUME alone
        PROVE  /\ OneAtATime'
               /\ \A q \in Staff : LeavesAnOwner(request[q])'
               /\ \A f \in Founders : f.role = "OWNER" => Owners(f.tenant)' # {}
    <3>1. \A q \in Staff \ {p} : request'[q] = request[q] /\ request[q].at = "idle"
      BY <1>1, <2>3, <2>6 DEF OwnersInv, OneAtATime
    <3>2. ASSUME NEW r \in member, r.id = o.id PROVE r.tenant = t
      BY <1>1, <2>6, <3>2 DEF OwnersInv, LeavesAnOwner
    <3>3. ASSUME NEW r \in member, r.id = o.id
          PROVE  \E s \in member : s # r /\ s.tenant = r.tenant /\ s.role = "OWNER"
      BY <2>5, <3>2, <3>3 DEF Owners
    <3>4. LeavesAnOwner(request[p])'
      BY <2>2, <2>3, <3>3 DEF LeavesAnOwner
    <3>5. \A q \in Staff : LeavesAnOwner(request[q])'
      BY <3>1, <3>4 DEF LeavesAnOwner
    <3>6. OneAtATime' /\ \A f \in Founders : f.role = "OWNER" => Owners(f.tenant)' # {}
      BY <2>3, <2>6, <3>1 DEF OwnersInv, Owners, OneAtATime
    <3>7. QED
      BY <3>5, <3>6
  <2>7. QED
    BY <2>3, <2>4, <2>6 DEF OwnersInv
<1>4. QED
  BY <1>2, <1>3

\* A change that costs an owner leaves the other one.
LEMMA Changing ==
  ASSUME OwnersInv, NEW p \in Staff, Write(p)
  PROVE  OwnersInv'
<1> DEFINE o == request[p].order
<1>1. request[p].at = "write" /\ request[p].at \in ChangeSteps /\ UNCHANGED <<rows, alone>>
  BY DEF Write, ChangeSteps, UnchangedRest
<1>2. CASE Answered(p) /\ UNCHANGED member
  BY <1>1, <1>2, Answering DEF roster
<1>3. CASE ~(Answered(p) /\ UNCHANGED member)
  <2>1. PICK r \in member :
          /\ r.id = o.id
          /\ member' = (member \ {r}) \cup
               (IF o.op = "update" THEN {[r EXCEPT !.role = o.role]} ELSE {})
          /\ ToLog(p, r.tenant, r.user, IF o.op = "update" THEN o.role ELSE None)
    BY <1>3 DEF Write
  <2> DEFINE new == [r EXCEPT !.role = o.role]
  <2>2. o \in Changes /\ r \in Seat
    BY <1>1, Stepping DEF OwnersInv, RosterTypeOK
  <2>3. o.op = "update" => o.role \in TenantRoles
    BY <2>2, MembershipAssumption DEF Changes
  <2>4. o.op = "update" => /\ new \in Seat /\ new.role = o.role
                           /\ new.id = r.id /\ new.tenant = r.tenant
    BY <2>2, <2>3 DEF Seat
  <2>5. /\ request' \in [Staff -> Job] /\ request'[p].at = "log"
        /\ \A q \in Staff \ {p} : request'[q] = request[q]
    BY <2>1, <2>2, <2>3, Logging DEF OwnersInv, Seat
  <2>6. \A s \in member' : s \in member \ {r} \/ (o.op = "update" /\ s = new)
    BY <2>1
  <2>7. RosterTypeOK'
    <3>1. member' \in SUBSET Seat
      BY <2>4, <2>6 DEF OwnersInv, RosterTypeOK
    <3>2. QED
      BY <1>1, <2>5, <3>1 DEF OwnersInv, RosterTypeOK
  <2>8. RowsDiffer'
    BY <1>1, <2>4, <2>6 DEF OwnersInv, RowsDiffer
  <2>9. ASSUME alone
        PROVE  /\ OneAtATime'
               /\ \A q \in Staff : LeavesAnOwner(request[q])'
               /\ \A f \in Founders : f.role = "OWNER" => Owners(f.tenant)' # {}
    <3>1. \A q \in Staff \ {p} : request'[q] = request[q] /\ request[q].at = "idle"
      BY <1>1, <2>5, <2>9 DEF OwnersInv, OneAtATime
    <3>2. OneAtATime' /\ \A q \in Staff : LeavesAnOwner(request[q])'
      BY <2>5, <3>1 DEF OneAtATime, LeavesAnOwner
    <3>3. ASSUME NEW f \in Founders, f.role = "OWNER" PROVE Owners(f.tenant)' # {}
      <4>1. PICK x \in member : x.tenant = f.tenant /\ x.role = "OWNER"
        BY <2>9, <3>3 DEF OwnersInv, Owners
      <4>2. CASE x # r
        <5>1. x \in member'
          BY <2>1, <4>2
        <5>2. QED
          BY <4>1, <5>1 DEF Owners
      <4>3. CASE x = r /\ LosesOwner(o, r)
        <5>1. PICK s \in member : s # r /\ s.tenant = r.tenant /\ s.role = "OWNER"
          BY <1>1, <2>1, <2>9, <4>3 DEF OwnersInv, LeavesAnOwner
        <5>2. s \in member'
          BY <2>1, <5>1
        <5>3. QED
          BY <4>1, <4>3, <5>1, <5>2 DEF Owners
      <4>4. CASE x = r /\ ~LosesOwner(o, r)
        <5>1. o.op = "update" /\ o.role = "OWNER"
          BY <4>1, <4>4 DEF LosesOwner
        <5>2. new \in member'
          BY <2>1, <5>1
        <5>3. QED
          BY <2>4, <4>1, <4>4, <5>1, <5>2 DEF Owners
      <4>5. QED
        BY <4>2, <4>3, <4>4
    <3>4. QED
      BY <3>2, <3>3
  <2>10. QED
    BY <1>1, <2>7, <2>8, <2>9 DEF OwnersInv
<1>4. QED
  BY <1>2, <1>3

\* Every step keeps the invariant of the stores.
LEMMA NextOwners == OwnersInv /\ [Next]_accessVars => OwnersInv'
<1>1. SUFFICES ASSUME OwnersInv, [Next]_accessVars PROVE OwnersInv'
  OBVIOUS
<1>2. CASE UNCHANGED <<roster, request, alone>>
  BY <1>1, <1>2 DEF OwnersInv, RosterTypeOK, RowsDiffer, OneAtATime, LeavesAnOwner, Owners, roster
<1>3. ASSUME NEW p \in Staff,
             \/ \E u \in Users, t \in Tenants \cup {None}, o \in Orders : Ask(p, u, t, o)
             \/ Serve(p) \/ Stop(p)
      PROVE  OwnersInv'
  <2>1. CASE Log(p) \/ Stop(p)
    BY <1>1, <2>1, Answering DEF Log, Stop, UnchangedRest
  <2>2. CASE ~(Log(p) \/ Stop(p))
    BY <1>1, <1>3, <2>2, Asking, Settling, Granting, Joining, Targeting, Counting, Changing DEF Serve
  <2>3. QED
    BY <2>1, <2>2
<1>4. \/ UNCHANGED <<roster, request, alone>>
      \/ \E p \in Staff :
           \/ \E u \in Users, t \in Tenants \cup {None}, o \in Orders : Ask(p, u, t, o)
           \/ Serve(p) \/ Stop(p)
  <2>1. MemberNext \/ UNCHANGED storeState
    BY <1>1 DEF Next, Staffing, accessVars, storeState
  <2>2. CASE UNCHANGED storeState
    BY <2>2 DEF storeState, roster
  <2>3. CASE MemberNext
    BY <2>3 DEF MemberNext, Visit, Expire, SetStatus
  <2>4. QED
    BY <2>1, <2>2, <2>3
<1>5. QED
  BY <1>2, <1>3, <1>4

\* A store keeps an owner as long as its membership requests come one at a time
\* (assertNotLastOwner), for any number of stores, members and requests.
THEOREM OwnersRemain == Spec => []AloneStoreHasOwner
<1>1. OwnersInv => AloneStoreHasOwner
  BY DEF OwnersInv, AloneStoreHasOwner
<1>2. QED
  BY <1>1, InitOwners, NextOwners, PTL DEF Spec

=============================================================================
