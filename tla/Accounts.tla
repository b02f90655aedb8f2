------------------------------ MODULE Accounts ------------------------------
(***************************************************************************)
(* Login and sessions: AuthService and CompleteLogin (api/internal/        *)
(* csilservices/auth.go), UpsertUser (store/user.go), the sessions of      *)
(* store/session.go and the session middleware (server/session.go).        *)
(*                                                                         *)
(* The identity provider and the relying-party server beside the API are   *)
(* external: they sign a request for a nonce, and answer with an assertion  *)
(* of some identity for some nonce.  The server keeps no nonce, and no      *)
(* cookie ties a callback to the begin-login before it, so a login here is  *)
(* a callback and what follows it.  A handle is the sequence of its parts,  *)
(* so that the handle "ada-2" of one person is also the second choice of   *)
(* another called "ada".                                                   *)
(***************************************************************************)
EXTENDS Integers, Sequences, FiniteSets

CONSTANTS Logins,     \* callbacks, each at most once
          Requests,   \* calls that carry a session cookie
          Identities, \* [domain, uid] records
          Signals,    \* per identity, the parts of its names that make a handle
          Earlier,    \* users who logged in before this behavior
          Domains, NoDomain, \* what the instance may be configured to accept
          Expiries,   \* when assertions expire, Nil for never
          Randoms,    \* random suffixes
          MaxHandleAttempts, NonceTTL, SessionTTL,
          MaxTime, MaxRestarts, MaxNonces, \* bounds on the clock, on restarts
                                           \* and on different nonces
          Nil


ASSUME AccountsAssumption ==
  /\ MaxHandleAttempts \in Nat \ {0}
  /\ {NonceTTL, SessionTTL} \subseteq Nat \ {0}
  /\ \A u \in Earlier : u.id \notin Logins
  /\ Nil \notin Logins \cup {u.id : u \in Earlier} \* no user's id
  /\ \A u, v \in Earlier :
       u # v => u.id # v.id /\ u.identity # v.identity /\ u.handle # v.handle
  /\ Expiries \subseteq Nat \cup {Nil} /\ Nil \notin Nat
  /\ \A i \in Identities : Signals[i].uid # <<>>

VARIABLES now,
          accepted, \* the domain that the instance accepts, or any
          secret,   \* the secret that signs nonces
          restarts,
          minted,   \* every nonce that begin-login has sent out
          users,    \* the rows of users
          sessions, \* the rows of sessions
          login,    \* each login: its callback, its cookie
          request   \* each call with a cookie

vars ==
  <<now, accepted, secret, restarts, minted, users, sessions, login, request>>
server == <<accepted, secret, restarts, minted>>

Fresh == [at |-> "fresh"]
Idle == {"fresh", "done", "refused", "lost"}
Foreign == [secret |-> Nil, expires |-> MaxTime + NonceTTL]

Init ==
  /\ now = 0
  /\ accepted \in Domains \cup {NoDomain}
  /\ secret = 0 /\ restarts = 0 /\ minted = {}
  /\ users \in {{}, Earlier}
  /\ sessions = {}
  /\ login = [l \in Logins |-> Fresh]
  /\ request = [r \in Requests |-> Fresh]

-----------------------------------------------------------------------------
\* Nonces.

MintNonce == [secret |-> secret, expires |-> now + NonceTTL]

\* Mutant: whose signature it is is not checked.
FreshNonce(n) == now < n.expires
VerifyNonce(n) == n.secret = secret /\ now < n.expires

\* The domain asked for is the accepted one, or any where none is configured.
BeginLogin(d) ==
  /\ accepted \in {d, NoDomain}
  /\ minted' = minted \cup {MintNonce} /\ Cardinality(minted') <= MaxNonces
  /\ UNCHANGED <<now, accepted, secret, restarts, users, sessions, login, request>>

-----------------------------------------------------------------------------
\* The callback: verification.

\* What the relying-party server may hand to a callback: the assertion of an
\* identity, for a nonce that this server minted, in whichever login and however
\* often used before, or that another server minted, with an expiry or none, and
\* meant for this audience or another.
Assertions ==
  [identity : Identities, nonce : minted \cup {Foreign},
   expires : Expiries, ours : BOOLEAN]

AssertionExpired(a) == a.expires # Nil /\ now > a.expires

Accepts(a) ==
  /\ accepted \in {a.identity.domain, NoDomain}
  /\ a.ours
  /\ VerifyNonce(a.nonce)
  /\ ~AssertionExpired(a)

\* The first signal that leaves something of a name; claims only if the
\* relying-party server answered with them.
DeriveHandleCandidate(s, claims) ==
  CASE claims /\ s.handle # <<>> -> s.handle
    [] claims /\ s.claimed # <<>> -> s.claimed
    [] s.display # <<>> -> s.display
    [] OTHER -> s.uid

\* checked is a history variable: when the assertion was accepted.
Callback(l) ==
  /\ login[l] = Fresh
  /\ \E a \in Assertions, claims \in BOOLEAN :
       login' = [login EXCEPT ![l] =
         IF ~Accepts(a) THEN [at |-> "refused"]
         ELSE LET base == DeriveHandleCandidate(Signals[a.identity], claims)
              IN [at |-> "find", assertion |-> a, checked |-> now,
                  base |-> base, candidate |-> base, attempt |-> 2]]
  /\ UNCHANGED <<now, server, users, sessions, request>>

-----------------------------------------------------------------------------
\* The callback: UpsertUser, each statement of which commits by itself.

Goes(l, at) == login' = [login EXCEPT ![l].at = at]
GetsUser(l, u) ==
  login' = [login EXCEPT ![l] =
    [at |-> "mint", identity |-> @.assertion.identity, user |-> u.id]]
IdentityOf(l) == login[l].assertion.identity

ByIdentity(i) == {u \in users : u.identity = i}
HandleTaken(h) == \E u \in users : u.handle = h

FindUser(l) ==
  /\ login[l].at = "find"
  /\ IF ByIdentity(IdentityOf(l)) = {} THEN Goes(l, "insert")
     ELSE \E u \in ByIdentity(IdentityOf(l)) : GetsUser(l, u)
  /\ UNCHANGED <<now, server, users, sessions, request>>

NewUser(l, handle) == [id |-> l, identity |-> IdentityOf(l), handle |-> handle]
Inserts(l, handle) ==
  /\ users' = users \cup {NewUser(l, handle)}
  /\ GetsUser(l, NewUser(l, handle))

\* The unique key that the insert meets first.
Violates(l, handle) ==
  CASE \E u \in users : u.identity = IdentityOf(l) -> "identity"
    [] HandleTaken(handle) -> "handle"
    [] OTHER -> "none"

\* Mutant: every unique violation but that of the handle is an error.
NoReread(l) == Goes(l, "refused")
LosesRace(l) == Goes(l, "reread")

NextCandidate(l) ==
  login' = [login EXCEPT
    ![l].candidate = Append(login[l].base, login[l].attempt),
    ![l].attempt = @ + 1,
    ![l].at = IF login[l].attempt > MaxHandleAttempts THEN "random"
              ELSE "insert"]

InsertUser(l) ==
  /\ login[l].at = "insert"
  /\ CASE Violates(l, login[l].candidate) = "identity" ->
            LosesRace(l) /\ UNCHANGED users
       [] Violates(l, login[l].candidate) = "handle" ->
            NextCandidate(l) /\ UNCHANGED users
       [] OTHER -> Inserts(l, login[l].candidate)
  /\ UNCHANGED <<now, server, sessions, request>>

RereadWinner(l) ==
  /\ login[l].at = "reread"
  /\ IF ByIdentity(IdentityOf(l)) = {} THEN Goes(l, "refused")
     ELSE \E u \in ByIdentity(IdentityOf(l)) : GetsUser(l, u)
  /\ UNCHANGED <<now, server, users, sessions, request>>

\* The last insert has no answer to a violation of either key.
InsertRandom(l) ==
  /\ login[l].at = "random"
  /\ \E x \in Randoms : LET handle == Append(login[l].base, x) IN
       IF Violates(l, handle) = "none" THEN Inserts(l, handle)
       ELSE Goes(l, "refused") /\ UNCHANGED users
  /\ UNCHANGED <<now, server, sessions, request>>

\* The cookie expires when the session does.
CreateSession(l) ==
  /\ login[l].at = "mint"
  /\ sessions' = sessions \cup
       {[token |-> l, user |-> login[l].user, expires |-> now + SessionTTL]}
  /\ login' = [login EXCEPT ![l] =
       [at |-> "done", identity |-> @.identity, user |-> @.user,
        expires |-> now + SessionTTL]]
  /\ UNCHANGED <<now, server, users, request>>

\* A statement or its connection fails in the middle of a callback.
LoseLogin(l) ==
  /\ login[l].at \notin Idle
  /\ login' = [login EXCEPT ![l] = [at |-> "lost"]]
  /\ UNCHANGED <<now, server, users, sessions, request>>

-----------------------------------------------------------------------------
\* Calls with the cookie of a login.

Valid(s) == s.expires > now

LoggedOut(l) ==
  \E q \in Requests : request[q] = [at |-> "logged out", cookie |-> l]

\* late is a history variable: the cookie had been logged out before the call.
Arrive(r) ==
  /\ request[r] = Fresh
  /\ \E l \in {k \in Logins : login[k].at = "done"}, out \in BOOLEAN :
       request' = [request EXCEPT ![r] =
         [at |-> "arrived", cookie |-> l, logout |-> out, late |-> LoggedOut(l)]]
  /\ UNCHANGED <<now, server, users, sessions, login>>

\* The middleware: whoever has no valid session is anonymous, and so is whoever
\* could not be looked up.
LookupSession(r) ==
  LET found == {s \in sessions : s.token = request[r].cookie /\ Valid(s)} IN
  /\ request[r].at = "arrived"
  /\ \E faulty \in BOOLEAN :
       request' = [request EXCEPT ![r] =
         [at |-> "running", cookie |-> @.cookie, logout |-> @.logout,
          late |-> @.late, looked |-> now, faulty |-> faulty,
          as |-> IF faulty \/ found = {} THEN Nil
                 ELSE (CHOOSE s \in found : TRUE).user]]
  /\ UNCHANGED <<now, server, users, sessions, login>>

\* Mutant: a logout ends every session of the user.
OfSameUser(r) == {s \in sessions : s.user = request[r].as}
OfCookie(r) == {s \in sessions : s.token = request[r].cookie}

\* Logout, and Whoami or any other call.  A logout that cannot delete answers all
\* the same.
Answer(r) ==
  /\ request[r].at = "running"
  /\ \E deletes \in {request[r].logout /\ request[r].as # Nil, FALSE} :
       /\ request' = [request EXCEPT ![r] =
            IF deletes THEN [at |-> "logged out", cookie |-> @.cookie]
            ELSE [at |-> "answered"]]
       /\ sessions' = IF deletes THEN sessions \ OfCookie(r) ELSE sessions
  /\ UNCHANGED <<now, server, users, login>>

-----------------------------------------------------------------------------
Tick ==
  /\ now < MaxTime
  /\ now' = now + 1
  /\ UNCHANGED <<server, users, sessions, login, request>>

\* The process starts anew, with another secret unless one is configured.
Restart ==
  /\ restarts < MaxRestarts
  /\ restarts' = restarts + 1
  /\ secret' \in {secret, secret + 1}
  /\ login' = [l \in Logins |->
       IF login[l].at \in Idle THEN login[l] ELSE [at |-> "lost"]]
  /\ request' = [r \in Requests |->
       IF request[r].at \in {"arrived", "running"} THEN Fresh
       ELSE request[r]]
  /\ UNCHANGED <<now, accepted, minted, users, sessions>>

LoginStep(l) ==
  \/ Callback(l) \/ FindUser(l) \/ InsertUser(l) \/ RereadWinner(l)
  \/ InsertRandom(l) \/ CreateSession(l) \/ LoseLogin(l)

RequestStep(r) == Arrive(r) \/ LookupSession(r) \/ Answer(r)

Next ==
  \/ \E d \in Domains : BeginLogin(d)
  \/ \E l \in Logins : LoginStep(l)
  \/ \E r \in Requests : RequestStep(r)
  \/ Tick \/ Restart

Spec == Init /\ [][Next]_vars
=============================================================================
