--------------------------- MODULE AccountProofs ----------------------------
(***************************************************************************)
(* Proofs about Accounts, for any people, handles, logins and lifetimes.   *)
(* The strengthening: a login that has not reached its insert has no row   *)
(* yet, one that has passed it has the row of its identity, and a session  *)
(* has what its login had at the end.                                      *)
(***************************************************************************)
EXTENDS AccountProps, TLAPS

Underway == {"find", "insert", "reread", "random"}

\* A callback whose assertion was accepted has these fields.
IsPending(x) ==
  x = [at |-> x.at, assertion |-> x.assertion, checked |-> x.checked,
       base |-> x.base, candidate |-> x.candidate, attempt |-> x.attempt]

Vouched(x) ==
  /\ accepted \in {x.assertion.identity.domain, NoDomain}
  /\ x.assertion.nonce \in minted /\ x.assertion.nonce.secret = secret
  /\ x.checked < x.assertion.nonce.expires
  /\ x.assertion.expires = Nil \/ x.checked <= x.assertion.expires

UsersDistinct ==
  \A u, v \in users : u # v =>
    u.id # v.id /\ u.identity # v.identity /\ u.handle # v.handle

RowOf(x) == \E u \in users : u.id = x.user /\ u.identity = x.identity

Inv ==
  /\ login = [l \in Logins |-> login[l]]
  /\ now \in Nat /\ secret \in Nat
  /\ UsersDistinct
  /\ \A u \in users : u.id \in Logins => login[u.id].at \in {"mint", "done", "lost"}
  /\ \A l \in Logins :
       /\ login[l].at \in Underway => IsPending(login[l]) /\ Vouched(login[l])
       /\ login[l].at \in {"mint", "done"} => RowOf(login[l])
  /\ \A s \in sessions : /\ s.token \in Logins /\ login[s.token].at = "done"
                         /\ s.user = login[s.token].user

LEMMA InvEarned == Inv => SessionsEarned
BY DEF Inv, SessionsEarned, UsersDistinct, Underway, Vouched, RowOf

\* What a login is and becomes besides moving on.
LEMMA Moved ==
  ASSUME NEW x, IsPending(x), NEW at
  PROVE  LET y == [x EXCEPT !.at = at] IN
         /\ y.at = at /\ y.assertion = x.assertion
         /\ y.checked = x.checked /\ IsPending(y)
BY DEF IsPending

-----------------------------------------------------------------------------
LEMMA InitInv == Init => Inv
<1> SUFFICES ASSUME Init PROVE Inv
  OBVIOUS
<1>1. UsersDistinct
  BY AccountsAssumption DEF Init, UsersDistinct
<1>2. \A l \in Logins : login[l].at = "fresh"
  BY DEF Init, Fresh
<1>3. \A u \in users : u.id \notin Logins
  BY AccountsAssumption DEF Init
<1> QED
  BY <1>1, <1>2, <1>3 DEF Init, Inv, Underway

\* A login goes on: no row is lost, and what is new of users and of sessions is
\* its own.
LEMMA LoginMoves ==
  ASSUME Inv, NEW l \in Logins, NEW x, login' = [login EXCEPT ![l] = x],
         login[l].at # "done",
         UNCHANGED <<now, accepted, minted, secret>>,
         users \subseteq users', UsersDistinct',
         \A u \in users' : u \in users \/ u.id = l,
         (\E u \in users' : u.id = l) => x.at \in {"mint", "done", "lost"},
         \A s \in sessions' : \/ s \in sessions
                              \/ s.token = l /\ x.at = "done" /\ s.user = x.user,
         x.at \in Underway => IsPending(x) /\ Vouched(x),
         x.at \in {"mint", "done"} =>
           \E u \in users' : u.id = x.user /\ u.identity = x.identity
  PROVE  Inv'
<1>1. /\ login' = [k \in Logins |-> login'[k]]
      /\ \A k \in Logins : login'[k] = IF k = l THEN x ELSE login[k]
  BY DEF Inv
<1>2. \A u \in users' : u.id \in Logins =>
        login'[u.id].at \in {"mint", "done", "lost"}
  BY <1>1 DEF Inv
<1>3. ASSUME NEW k \in Logins, login'[k].at \in Underway
      PROVE  IsPending(login[k])' /\ Vouched(login[k])'
  <2>1. CASE k = l
    BY <1>1, <1>3, <2>1 DEF IsPending, Vouched
  <2>2. CASE k # l
    <3>1. login'[k] = login[k]
      BY <1>1, <2>2
    <3>2. IsPending(login[k]) /\ Vouched(login[k])
      BY <1>3, <3>1 DEF Inv
    <3> QED
      BY <3>1, <3>2 DEF IsPending, Vouched
  <2> QED
    BY <2>1, <2>2
<1>4. ASSUME NEW k \in Logins, login'[k].at \in {"mint", "done"}
      PROVE  RowOf(login[k])'
  <2>1. CASE k = l
    BY <1>1, <1>4, <2>1 DEF RowOf
  <2>2. CASE k # l
    <3>1. login'[k] = login[k]
      BY <1>1, <2>2
    <3>2. RowOf(login[k])
      BY <1>4, <3>1 DEF Inv
    <3> QED
      BY <3>1, <3>2 DEF RowOf
  <2> QED
    BY <2>1, <2>2
<1>5. ASSUME NEW s \in sessions'
      PROVE  /\ s.token \in Logins /\ login'[s.token].at = "done"
             /\ s.user = login'[s.token].user
  <2>1. CASE s \in sessions
    <3>1. /\ s.token \in Logins /\ login[s.token].at = "done"
          /\ s.user = login[s.token].user
      BY <2>1 DEF Inv
    <3>2. s.token # l
      BY <3>1
    <3> QED
      BY <1>1, <3>1, <3>2
  <2>2. CASE s.token = l /\ x.at = "done" /\ s.user = x.user
    BY <1>1, <2>2
  <2> QED
    BY <2>1, <2>2
<1>6. now' \in Nat /\ secret' \in Nat
  BY DEF Inv
<1> QED
  BY <1>1, <1>2, <1>3, <1>4, <1>5, <1>6 DEF Inv

\* ... with no change to users and sessions.
LEMMA OnlyLogin ==
  ASSUME Inv, NEW l \in Logins, NEW x, login' = [login EXCEPT ![l] = x],
         login[l].at # "done",
         login[l].at \in {"mint", "lost"} => x.at \in {"mint", "lost"},
         x.at \in Underway => IsPending(x) /\ Vouched(x),
         x.at \in {"mint", "done"} => RowOf(x),
         UNCHANGED <<now, accepted, minted, secret, users, sessions>>
  PROVE  Inv'
<1>1. UsersDistinct'
  BY DEF Inv, UsersDistinct
<1>2. (\E u \in users' : u.id = l) => x.at \in {"mint", "done", "lost"}
  BY DEF Inv
<1>3. x.at \in {"mint", "done"} =>
        \E u \in users' : u.id = x.user /\ u.identity = x.identity
  BY DEF RowOf
<1> QED
  BY <1>1, <1>2, <1>3, LoginMoves

-----------------------------------------------------------------------------
\* Whoever is let through was asserted, for a nonce of this server, in time.
LEMMA CallbackKeeps ==
  ASSUME Inv, NEW l \in Logins, Callback(l)
  PROVE  Inv'
<1>1. PICK a \in Assertions, claims \in BOOLEAN :
        login' = [login EXCEPT ![l] =
         IF ~Accepts(a) THEN [at |-> "refused"]
         ELSE LET base == DeriveHandleCandidate(Signals[a.identity], claims)
              IN [at |-> "find", assertion |-> a, checked |-> now,
                  base |-> base, candidate |-> base, attempt |-> 2]]
  BY DEF Callback
<1>2. login[l].at = "fresh" /\ UNCHANGED <<now, accepted, minted, secret, users, sessions>>
  BY DEF Callback, Fresh, server
<1>3. CASE ~Accepts(a)
  <2>1. PICK x : x.at = "refused" /\ login' = [login EXCEPT ![l] = x]
    BY <1>1, <1>3
  <2> QED
    BY <1>2, <2>1, OnlyLogin DEF Underway
<1>4. CASE Accepts(a)
  <2>1. PICK base : base = DeriveHandleCandidate(Signals[a.identity], claims)
    OBVIOUS
  <2>2. PICK x : x = [at |-> "find", assertion |-> a, checked |-> now,
                      base |-> base, candidate |-> base, attempt |-> 2]
    OBVIOUS
  <2>3. login' = [login EXCEPT ![l] = x]
    BY <1>1, <1>4, <2>1, <2>2
  <2>4. IsPending(x)
    BY <2>2 DEF IsPending
  <2>5. a.nonce \in minted /\ a.nonce.secret = secret
    <3>1. a.nonce.secret = secret /\ secret \in Nat
      BY <1>4 DEF Accepts, VerifyNonce, Inv
    <3>2. a.nonce # Foreign
      BY <3>1, AccountsAssumption DEF Foreign
    <3> QED
      BY <3>1, <3>2 DEF Assertions
  <2>6. now < a.nonce.expires /\ accepted \in {a.identity.domain, NoDomain}
    BY <1>4 DEF Accepts, VerifyNonce
  <2>7. a.expires = Nil \/ now <= a.expires
    <3>1. a.expires \in Expiries
      BY DEF Assertions
    <3>2. a.expires # Nil => a.expires \in Nat /\ ~(now > a.expires)
      BY <1>4, <3>1, AccountsAssumption DEF Accepts, AssertionExpired
    <3> QED
      BY <3>2 DEF Inv
  <2>8. Vouched(x)
    BY <2>2, <2>5, <2>6, <2>7 DEF Vouched
  <2>9. x.at = "find"
    BY <2>2
  <2> QED
    BY <1>2, <2>3, <2>4, <2>8, <2>9, OnlyLogin
<1> QED
  BY <1>3, <1>4

-----------------------------------------------------------------------------
\* From one statement to the next, with the same assertion.
LEMMA GoesKeeps ==
  ASSUME Inv, NEW l \in Logins, NEW at, login[l].at \in Underway, Goes(l, at),
         at \notin {"mint", "done"},
         UNCHANGED <<now, accepted, minted, secret, users, sessions>>
  PROVE  Inv'
<1>1. IsPending(login[l]) /\ Vouched(login[l])
  BY DEF Inv
<1>2. PICK x : x = [login[l] EXCEPT !.at = at]
  OBVIOUS
<1>3. login' = [login EXCEPT ![l] = x]
  BY <1>2 DEF Goes
<1>4. x.at = at /\ IsPending(x) /\ Vouched(x)
  BY <1>1, <1>2 DEF IsPending, Vouched
<1>5. login[l].at \notin {"mint", "done", "lost"}
  BY DEF Underway
<1> QED
  BY <1>3, <1>4, <1>5, OnlyLogin

\* A row that was found is that of the identity asserted.
LEMMA FoundKeeps ==
  ASSUME Inv, NEW l \in Logins, NEW u \in users, login[l].at \in Underway,
         u.identity = IdentityOf(l), GetsUser(l, u),
         UNCHANGED <<now, accepted, minted, secret, users, sessions>>
  PROVE  Inv'
<1>1. PICK x : x = [at |-> "mint", identity |-> login[l].assertion.identity,
                    user |-> u.id]
  OBVIOUS
<1>2. login' = [login EXCEPT ![l] = x]
  BY <1>1 DEF GetsUser
<1>3. x.at = "mint" /\ RowOf(x)
  BY <1>1 DEF RowOf, IdentityOf
<1>4. login[l].at \notin {"mint", "done", "lost"}
  BY DEF Underway
<1> QED
  BY <1>2, <1>3, <1>4, OnlyLogin DEF Underway

\* A row is inserted only next to rows of other people with other handles.
LEMMA InsertsKeeps ==
  ASSUME Inv, NEW l \in Logins, NEW handle, login[l].at \in Underway,
         Violates(l, handle) = "none", Inserts(l, handle),
         UNCHANGED <<now, accepted, minted, secret, sessions>>
  PROVE  Inv'
<1>1. PICK new : new = NewUser(l, handle)
  OBVIOUS
<1>2. /\ new.id = l /\ new.identity = login[l].assertion.identity
      /\ new.handle = handle
  BY <1>1 DEF NewUser, IdentityOf
<1>3. users' = users \cup {new}
  BY <1>1 DEF Inserts
<1>4. PICK x : x = [at |-> "mint", identity |-> login[l].assertion.identity,
                    user |-> new.id]
  OBVIOUS
<1>5. login' = [login EXCEPT ![l] = x]
  BY <1>1, <1>4 DEF Inserts, GetsUser
<1>6. \A u \in users : u.id # l
  BY DEF Inv, Underway
<1>7. \A u \in users : u.identity # new.identity /\ u.handle # handle
  BY <1>2 DEF Violates, HandleTaken, IdentityOf
<1>8. UsersDistinct'
  BY <1>2, <1>3, <1>6, <1>7 DEF UsersDistinct, Inv
<1>9. \E u \in users' : u.id = x.user /\ u.identity = x.identity
  BY <1>2, <1>3, <1>4
<1>10. login[l].at # "done" /\ x.at = "mint"
  BY <1>4 DEF Underway
<1> QED
  BY <1>2, <1>3, <1>5, <1>8, <1>9, <1>10, LoginMoves DEF Underway

\* The next handle for the same assertion.
LEMMA NextCandidateKeeps ==
  ASSUME Inv, NEW l \in Logins, login[l].at = "insert", NextCandidate(l),
         UNCHANGED <<now, accepted, minted, secret, users, sessions>>
  PROVE  Inv'
<1>1. IsPending(login[l]) /\ Vouched(login[l])
  BY DEF Inv, Underway
<1>2. PICK c : c = Append(login[l].base, login[l].attempt)
  OBVIOUS
<1>3. PICK n : n = login[l].attempt + 1
  OBVIOUS
<1>4. PICK at : /\ at = (IF login[l].attempt > MaxHandleAttempts THEN "random"
                         ELSE "insert")
  OBVIOUS
<1>5. PICK x : x = [login[l] EXCEPT !.candidate = c, !.attempt = n, !.at = at]
  OBVIOUS
<1>6. login' = [login EXCEPT ![l] = x]
  BY <1>2, <1>3, <1>4, <1>5 DEF NextCandidate, Inv
<1>7. x.at \in {"random", "insert"} /\ IsPending(x) /\ Vouched(x)
  BY <1>1, <1>4, <1>5 DEF IsPending, Vouched
<1> QED
  BY <1>6, <1>7, OnlyLogin

-----------------------------------------------------------------------------
\* The statements of UpsertUser and what follows it.
LEMMA FindUserKeeps == ASSUME Inv, NEW l \in Logins, FindUser(l) PROVE Inv'
<1>1. /\ login[l].at \in Underway
      /\ UNCHANGED <<now, accepted, minted, secret, users, sessions>>
  BY DEF FindUser, server, Underway
<1>2. CASE Goes(l, "insert")
  BY <1>1, <1>2, GoesKeeps
<1>3. CASE \E u \in ByIdentity(IdentityOf(l)) : GetsUser(l, u)
  BY <1>1, <1>3, FoundKeeps DEF ByIdentity
<1> QED
  BY <1>2, <1>3 DEF FindUser

LEMMA InsertUserKeeps == ASSUME Inv, NEW l \in Logins, InsertUser(l) PROVE Inv'
<1>1. /\ login[l].at = "insert" /\ login[l].at \in Underway
      /\ UNCHANGED <<now, accepted, minted, secret, sessions>>
  BY DEF InsertUser, server, Underway
<1>2. PICK v : v = Violates(l, login[l].candidate)
  OBVIOUS
<1>3. v \in {"identity", "handle", "none"}
  BY <1>2 DEF Violates
<1>4. CASE v = "identity"
  <2>1. Goes(l, "reread") /\ users' = users
    BY <1>2, <1>4 DEF InsertUser, LosesRace
  <2> QED
    BY <1>1, <2>1, GoesKeeps
<1>5. CASE v = "handle"
  <2>1. NextCandidate(l) /\ users' = users
    BY <1>2, <1>5 DEF InsertUser
  <2> QED
    BY <1>1, <2>1, NextCandidateKeeps
<1>6. CASE v = "none"
  <2>1. PICK handle : handle = login[l].candidate
    OBVIOUS
  <2>2. Inserts(l, handle) /\ Violates(l, handle) = "none"
    BY <1>2, <1>6, <2>1 DEF InsertUser
  <2> QED
    BY <1>1, <2>2, InsertsKeeps
<1> QED
  BY <1>3, <1>4, <1>5, <1>6

LEMMA RereadWinnerKeeps ==
  ASSUME Inv, NEW l \in Logins, RereadWinner(l) PROVE Inv'
<1>1. /\ login[l].at \in Underway
      /\ UNCHANGED <<now, accepted, minted, secret, users, sessions>>
  BY DEF RereadWinner, server, Underway
<1>2. CASE Goes(l, "refused")
  BY <1>1, <1>2, GoesKeeps
<1>3. CASE \E u \in ByIdentity(IdentityOf(l)) : GetsUser(l, u)
  BY <1>1, <1>3, FoundKeeps DEF ByIdentity
<1> QED
  BY <1>2, <1>3 DEF RereadWinner

LEMMA InsertRandomKeeps ==
  ASSUME Inv, NEW l \in Logins, InsertRandom(l) PROVE Inv'
<1>1. /\ login[l].at \in Underway /\ UNCHANGED <<now, accepted, minted, secret, sessions>>
  BY DEF InsertRandom, server, Underway
<1>2. PICK y \in Randoms : LET handle == Append(login[l].base, y) IN
       IF Violates(l, handle) = "none" THEN Inserts(l, handle)
       ELSE Goes(l, "refused") /\ UNCHANGED users
  BY DEF InsertRandom
<1>3. PICK handle : handle = Append(login[l].base, y)
  OBVIOUS
<1>4. CASE Violates(l, handle) = "none"
  <2>1. Inserts(l, handle)
    BY <1>2, <1>3, <1>4
  <2> QED
    BY <1>1, <1>4, <2>1, InsertsKeeps
<1>5. CASE Violates(l, handle) # "none"
  <2>1. Goes(l, "refused") /\ users' = users
    BY <1>2, <1>3, <1>5
  <2> QED
    BY <1>1, <2>1, GoesKeeps
<1> QED
  BY <1>4, <1>5

LEMMA CreateSessionKeeps ==
  ASSUME Inv, NEW l \in Logins, CreateSession(l) PROVE Inv'
<1>1. login[l].at = "mint" /\ UNCHANGED <<now, accepted, minted, secret, users>>
  BY DEF CreateSession, server
<1>2. PICK x : x = [at |-> "done", identity |-> login[l].identity,
                    user |-> login[l].user, expires |-> now + SessionTTL]
  OBVIOUS
<1>3. PICK s : s = [token |-> l, user |-> login[l].user,
                    expires |-> now + SessionTTL]
  OBVIOUS
<1>4. login' = [login EXCEPT ![l] = x] /\ sessions' = sessions \cup {s}
  BY <1>2, <1>3 DEF CreateSession
<1>5. x.at = "done" /\ s.token = l /\ s.user = x.user
  BY <1>2, <1>3
<1>6. \E u \in users' : u.id = x.user /\ u.identity = x.identity
  BY <1>1, <1>2 DEF Inv, RowOf
<1>7. UsersDistinct'
  BY <1>1 DEF Inv, UsersDistinct
<1>8. \A t \in sessions' : \/ t \in sessions
                           \/ t.token = l /\ x.at = "done" /\ t.user = x.user
  BY <1>4, <1>5
<1>9. /\ x.at \in {"mint", "done", "lost"} /\ x.at \notin Underway
      /\ login[l].at # "done" /\ UNCHANGED <<now, accepted, minted, secret>>
      /\ users \subseteq users' /\ \A u \in users' : u \in users \/ u.id = l
  BY <1>1, <1>5 DEF Underway
<1> QED
  BY <1>4, <1>6, <1>7, <1>8, <1>9, LoginMoves

LEMMA LoseLoginKeeps ==
  ASSUME Inv, NEW l \in Logins, LoseLogin(l) PROVE Inv'
<1>1. PICK x : x = [at |-> "lost"]
  OBVIOUS
<1>2. x.at = "lost" /\ login' = [login EXCEPT ![l] = x]
  BY <1>1 DEF LoseLogin
<1>3. login[l].at # "done" /\ UNCHANGED <<now, accepted, minted, secret, users, sessions>>
  BY DEF LoseLogin, Idle, server
<1> QED
  BY <1>2, <1>3, OnlyLogin DEF Underway

-----------------------------------------------------------------------------
\* A begin-login sends out one nonce more and changes nothing else.
LEMMA BeginLoginKeeps == ASSUME Inv, NEW d, BeginLogin(d) PROVE Inv'
<1>1. /\ UNCHANGED <<now, accepted, secret, users, sessions, login>>
      /\ minted \subseteq minted'
  BY DEF BeginLogin
<1>2. \A l \in Logins :
        /\ login[l].at \in Underway => IsPending(login[l]) /\ Vouched(login[l])'
        /\ login[l].at \in {"mint", "done"} => RowOf(login[l])'
  BY <1>1 DEF Inv, Vouched, RowOf
<1>3. UsersDistinct'
  BY <1>1 DEF Inv, UsersDistinct
<1> QED
  BY <1>1, <1>2, <1>3 DEF Inv, IsPending

\* Calls with a cookie end sessions and change nothing else of this; neither
\* does the time that passes.
LEMMA OthersKeep ==
  ASSUME Inv, UNCHANGED <<login, accepted, minted, users, secret>>,
         sessions' \subseteq sessions, now' \in Nat
  PROVE  Inv'
<1>1. \A l \in Logins :
        /\ login[l].at \in Underway => IsPending(login[l]) /\ Vouched(login[l])'
        /\ login[l].at \in {"mint", "done"} => RowOf(login[l])'
  BY DEF Inv, Vouched, RowOf
<1>2. UsersDistinct'
  BY DEF Inv, UsersDistinct
<1> QED
  BY <1>1, <1>2 DEF Inv, IsPending

\* A callback that the process did not finish is lost, with no session.
LEMMA RestartKeeps == ASSUME Inv, Restart PROVE Inv'
<1>1. /\ secret' \in Nat
      /\ UNCHANGED <<now, accepted, minted, users, sessions>>
  BY DEF Restart, Inv
<1>2. /\ login' = [l \in Logins |-> login'[l]]
      /\ \A l \in Logins : login'[l] =
           IF login[l].at \in Idle THEN login[l] ELSE [at |-> "lost"]
  BY DEF Restart
<1>3. \A l \in Logins : \/ login'[l] = login[l]
                        \/ login'[l].at = "lost" /\ login[l].at # "done"
  BY <1>2 DEF Idle
<1>4. \A u \in users' : u.id \in Logins =>
        login'[u.id].at \in {"mint", "done", "lost"}
  BY <1>1, <1>3 DEF Inv
<1>5. ASSUME NEW l \in Logins
      PROVE  /\ login'[l].at \in Underway => IsPending(login[l])' /\ Vouched(login[l])'
             /\ login'[l].at \in {"mint", "done"} => RowOf(login[l])'
  <2>1. login'[l].at \notin Underway
    BY <1>2 DEF Idle, Underway
  <2>2. login'[l].at \in {"mint", "done"} => login'[l] = login[l]
    BY <1>3
  <2>3. login[l].at \in {"mint", "done"} => RowOf(login[l])
    BY DEF Inv
  <2> QED
    BY <1>1, <2>1, <2>2, <2>3 DEF RowOf
<1>6. \A s \in sessions' : /\ s.token \in Logins /\ login'[s.token].at = "done"
                           /\ s.user = login'[s.token].user
  BY <1>1, <1>3 DEF Inv
<1>7. UsersDistinct' /\ now' \in Nat
  BY <1>1 DEF Inv, UsersDistinct
<1> QED
  BY <1>1, <1>2, <1>4, <1>5, <1>6, <1>7 DEF Inv

LEMMA RequestKeeps == ASSUME Inv, NEW r \in Requests, RequestStep(r) PROVE Inv'
<1>1. /\ UNCHANGED <<login, accepted, minted, users, secret, now>>
      /\ sessions' \subseteq sessions
  BY DEF RequestStep, Arrive, LookupSession, Answer, server, OfCookie
<1>2. now' \in Nat
  BY <1>1 DEF Inv
<1> QED
  BY <1>1, <1>2, OthersKeep

LEMMA TickKeeps == ASSUME Inv, Tick PROVE Inv'
<1>1. now' \in Nat
  BY DEF Inv, Tick
<1> QED
  BY <1>1, OthersKeep DEF Tick, server

LEMMA NextInv == Inv /\ [Next]_vars => Inv'
<1> SUFFICES ASSUME Inv, [Next]_vars PROVE Inv'
  OBVIOUS
<1>1. CASE UNCHANGED vars
  <2>1. now' \in Nat
    BY <1>1 DEF vars, Inv
  <2> QED
    BY <1>1, <2>1, OthersKeep DEF vars, server
<1>2. ASSUME NEW l \in Logins, LoginStep(l) PROVE Inv'
  BY <1>2, CallbackKeeps, FindUserKeeps, InsertUserKeeps,
     RereadWinnerKeeps, InsertRandomKeeps, CreateSessionKeeps, LoseLoginKeeps
     DEF LoginStep
<1>3. ASSUME NEW r \in Requests, RequestStep(r) PROVE Inv'
  BY <1>3, RequestKeeps
<1> QED
  BY <1>1, <1>2, <1>3, BeginLoginKeeps, TickKeeps, RestartKeeps DEF Next

\* Whoever logs in and however it overlaps, users stay one identity and one
\* handle each, no assertion counts that is late, of another domain or for a
\* nonce that this server would not verify again, and every session is the user's
\* whose identity was asserted (CompleteLogin, UpsertUser, CreateSession).
THEOREM SessionsAreEarned == Spec => []SessionsEarned
<1>1. Init => Inv
  BY InitInv
<1>2. Inv /\ [Next]_vars => Inv'
  BY NextInv
<1>3. Inv => SessionsEarned
  BY InvEarned
<1> QED
  BY <1>1, <1>2, <1>3, PTL DEF Spec

-----------------------------------------------------------------------------
(***************************************************************************)
(* Logins that were accepted.  Every handle that a login has tried and not *)
(* got is a user's, and one that lost its insert to another login of the   *)
(* same person finds that person's row.                                    *)
(***************************************************************************)
TakenIn(us, h) == \E u \in us : u.handle = h

\* What a login in state x has met in a table us of users.
Tried(x, us) ==
  /\ x.at \in {"find", "insert"} =>
       /\ x.attempt \in 2..(MaxHandleAttempts + 1)
       /\ x.candidate = IF x.attempt = 2 THEN x.base
                        ELSE Append(x.base, x.attempt - 1)
       /\ x.attempt > 2 => TakenIn(us, x.base)
       /\ \A n \in 2..(x.attempt - 2) : TakenIn(us, Append(x.base, n))
  /\ x.at = "reread" => \E u \in us : u.identity = x.assertion.identity
  /\ x.at = "random" \/ (x.at = "refused" /\ "base" \in DOMAIN x) =>
       \A h \in Handles(x.base) : TakenIn(us, h)

AllTried == \A l \in Logins : Tried(login[l], users)

LEMMA TriedGrows ==
  ASSUME NEW x, NEW us, NEW vs, us \subseteq vs, Tried(x, us)
  PROVE  Tried(x, vs)
<1>1. \A h : TakenIn(us, h) => TakenIn(vs, h)
  BY DEF TakenIn
<1> QED
  BY <1>1 DEF Tried

\* One login moves on, and no user goes.
LEMMA OneTried ==
  ASSUME Inv, AllTried, NEW l \in Logins, NEW x,
         login' = [login EXCEPT ![l] = x], users \subseteq users',
         Tried(x, users)
  PROVE  AllTried'
<1>1. \A k \in Logins : login'[k] = IF k = l THEN x ELSE login[k]
  BY DEF Inv
<1>2. \A k \in Logins : Tried(login'[k], users)
  BY <1>1 DEF AllTried
<1>3. \A k \in Logins : Tried(login'[k], users')
  BY <1>2, TriedGrows
<1> QED
  BY <1>3 DEF AllTried

\* A login that has a user, or has no verified assertion, has tried nothing.
LEMMA NothingTried ==
  ASSUME NEW x, NEW us,
         x.at \notin {"find", "insert", "reread", "random"},
         x.at = "refused" => "base" \notin DOMAIN x
  PROVE  Tried(x, us)
BY DEF Tried

LEMMA GetsUserTried ==
  ASSUME Inv, AllTried, NEW l \in Logins, NEW u, GetsUser(l, u),
         users \subseteq users'
  PROVE  AllTried'
<1>1. PICK x : x = [at |-> "mint", identity |-> login[l].assertion.identity,
                    user |-> u.id]
  OBVIOUS
<1>2. login' = [login EXCEPT ![l] = x] /\ x.at = "mint"
  BY <1>1 DEF GetsUser
<1> QED
  BY <1>2, OneTried, NothingTried

\* To another statement, with the same handles tried.
LEMMA GoesTried ==
  ASSUME Inv, AllTried, NEW l \in Logins, NEW at, Goes(l, at),
         login[l].at \in Underway, UNCHANGED users,
         \/ login[l].at = "find" /\ at = "insert"
         \/ login[l].at = "random" /\ at = "refused"
         \/ /\ at = "reread"
            /\ \E u \in users : u.identity = login[l].assertion.identity
  PROVE  AllTried'
<1>1. IsPending(login[l]) /\ Tried(login[l], users)
  BY DEF Inv, AllTried
<1>2. PICK y : y = login[l]
  OBVIOUS
<1>3. PICK x : x = [y EXCEPT !.at = at]
  OBVIOUS
<1>4. login' = [login EXCEPT ![l] = x]
  BY <1>2, <1>3 DEF Goes
<1>5. /\ x.at = at /\ x.assertion = y.assertion /\ x.base = y.base
      /\ x.candidate = y.candidate /\ x.attempt = y.attempt
  BY <1>1, <1>2, <1>3 DEF IsPending
<1>6. Tried(y, users)
  BY <1>1, <1>2
<1>7. CASE y.at = "find" /\ at = "insert"
  BY <1>4, <1>5, <1>6, <1>7, OneTried DEF Tried
<1>8. CASE y.at = "random" /\ at = "refused"
  BY <1>4, <1>5, <1>6, <1>8, OneTried DEF Tried
<1>9. CASE /\ at = "reread"
           /\ \E u \in users : u.identity = y.assertion.identity
  BY <1>4, <1>5, <1>6, <1>9, OneTried DEF Tried
<1> QED
  BY <1>2, <1>7, <1>8, <1>9

\* The handle that was refused is a user's.
LEMMA NextCandidateTried ==
  ASSUME Inv, AllTried, NEW l \in Logins, login[l].at = "insert",
         Violates(l, login[l].candidate) = "handle", NextCandidate(l),
         UNCHANGED users
  PROVE  AllTried'
<1>1. IsPending(login[l]) /\ Tried(login[l], users)
  BY DEF Inv, AllTried, Underway
<1>2. PICK y : y = login[l]
  OBVIOUS
<1>3. PICK b, a : b = y.base /\ a = y.attempt
  OBVIOUS
<1>4. PICK c : c = Append(b, a)
  OBVIOUS
<1>5. PICK at : at = IF a > MaxHandleAttempts THEN "random" ELSE "insert"
  OBVIOUS
<1>6. PICK x : x = [y EXCEPT !.candidate = c, !.attempt = a + 1, !.at = at]
  OBVIOUS
<1>7. login' = [login EXCEPT ![l] = x]
  BY <1>2, <1>3, <1>4, <1>5, <1>6 DEF NextCandidate, Inv
<1>8. /\ x.at = at /\ x.base = b /\ x.candidate = c /\ x.attempt = a + 1
  BY <1>1, <1>2, <1>3, <1>6 DEF IsPending
<1>9. /\ a \in 2..(MaxHandleAttempts + 1)
      /\ y.candidate = IF a = 2 THEN b ELSE Append(b, a - 1)
      /\ a > 2 => TakenIn(users, b)
      /\ \A n \in 2..(a - 2) : TakenIn(users, Append(b, n))
  BY <1>1, <1>2, <1>3 DEF Tried
<1>10. TakenIn(users, y.candidate)
  <2>1. PICK h : h = login[l].candidate
    OBVIOUS
  <2>2. Violates(l, h) = "handle"
    BY <2>1
  <2>3. HandleTaken(h)
    BY <2>2 DEF Violates
  <2> QED
    BY <1>2, <2>1, <2>3 DEF HandleTaken, TakenIn
<1>11. MaxHandleAttempts \in Nat \ {0}
  BY AccountsAssumption
<1>12. TakenIn(users, b)
  BY <1>9, <1>10
<1>13. \A n \in 2..(a - 1) : TakenIn(users, Append(b, n))
  BY <1>9, <1>10
<1>14. CASE a > MaxHandleAttempts
  <2>1. at = "random" /\ a = MaxHandleAttempts + 1
    BY <1>5, <1>9, <1>11, <1>14
  <2>2. ASSUME NEW h \in Handles(b)
        PROVE  TakenIn(users, h)
    <3>1. \A n \in 2..MaxHandleAttempts : TakenIn(users, Append(b, n))
      BY <1>11, <1>13, <2>1
    <3>2. CASE h = b
      BY <1>12, <3>2
    <3>3. CASE h # b
      <4>1. PICK n \in 2..MaxHandleAttempts : h = Append(b, n)
        BY <3>3 DEF Handles
      <4> QED BY <3>1, <4>1
    <3> QED BY <3>2, <3>3
  <2>3. Tried(x, users)
    BY <1>8, <2>1, <2>2 DEF Tried
  <2> QED
    BY <1>7, <2>3, OneTried
<1>15. CASE ~(a > MaxHandleAttempts)
  <2>1. at = "insert" /\ a + 1 \in 2..(MaxHandleAttempts + 1)
    BY <1>5, <1>9, <1>11, <1>15
  <2>2. a + 1 # 2 /\ (a + 1) - 1 = a /\ (a + 1) - 2 = a - 1
    BY <1>9
  <2>3. Tried(x, users)
    BY <1>4, <1>8, <1>12, <1>13, <2>1, <2>2 DEF Tried
  <2> QED
    BY <1>7, <2>3, OneTried
<1> QED
  BY <1>14, <1>15

\* A step that leaves every login where it was or ends it.
LEMMA LoginsStayTried ==
  ASSUME AllTried, users \subseteq users',
         \A l \in Logins : login'[l] = login[l] \/ login'[l] = [at |-> "lost"]
  PROVE  AllTried'
<1> SUFFICES ASSUME NEW l \in Logins
             PROVE  Tried(login'[l], users')
  BY DEF AllTried
<1>1. PICK x : x = login'[l]
  OBVIOUS
<1>2. Tried(x, users)
  BY <1>1, NothingTried DEF AllTried
<1> QED
  BY <1>1, <1>2, TriedGrows

-----------------------------------------------------------------------------
\* The statements of a callback.
LEMMA CallbackTried ==
  ASSUME Inv, AllTried, NEW l \in Logins, Callback(l)
  PROVE  AllTried'
<1>1. PICK a \in Assertions, claims \in BOOLEAN :
        login' = [login EXCEPT ![l] =
         IF ~Accepts(a) THEN [at |-> "refused"]
         ELSE LET base == DeriveHandleCandidate(Signals[a.identity], claims)
              IN [at |-> "find", assertion |-> a, checked |-> now,
                  base |-> base, candidate |-> base, attempt |-> 2]]
  BY DEF Callback
<1>2. users' = users
  BY DEF Callback
<1>3. CASE ~Accepts(a)
  <2>1. PICK x : x = [at |-> "refused"]
    OBVIOUS
  <2>2. login' = [login EXCEPT ![l] = x]
    BY <1>1, <1>3, <2>1
  <2>3. x.at = "refused" /\ "base" \notin DOMAIN x
    BY <2>1
  <2> QED
    BY <1>2, <2>2, <2>3, OneTried, NothingTried
<1>4. CASE Accepts(a)
  <2>1. PICK base : base = DeriveHandleCandidate(Signals[a.identity], claims)
    OBVIOUS
  <2>2. PICK x : x = [at |-> "find", assertion |-> a, checked |-> now,
                      base |-> base, candidate |-> base, attempt |-> 2]
    OBVIOUS
  <2>3. login' = [login EXCEPT ![l] = x]
    BY <1>1, <1>4, <2>1, <2>2
  <2>4. /\ x.at = "find" /\ x.attempt = 2 /\ x.candidate = base
        /\ x.base = base
    BY <2>2
  <2>5. Tried(x, users)
    BY <2>4, AccountsAssumption DEF Tried
  <2> QED
    BY <1>2, <2>3, <2>5, OneTried
<1> QED
  BY <1>3, <1>4

LEMMA FindUserTried ==
  ASSUME Inv, AllTried, NEW l \in Logins, FindUser(l)
  PROVE  AllTried'
<1>1. login[l].at = "find" /\ login[l].at \in Underway /\ users' = users
  BY DEF FindUser, Underway
<1>2. CASE Goes(l, "insert")
  BY <1>1, <1>2, GoesTried
<1>3. CASE \E u \in ByIdentity(IdentityOf(l)) : GetsUser(l, u)
  BY <1>1, <1>3, GetsUserTried
<1> QED
  BY <1>2, <1>3 DEF FindUser

LEMMA InsertUserTried ==
  ASSUME Inv, AllTried, NEW l \in Logins, InsertUser(l)
  PROVE  AllTried'
<1>1. login[l].at = "insert" /\ login[l].at \in Underway
  BY DEF InsertUser, Underway
<1>2. PICK h : h = login[l].candidate
  OBVIOUS
<1>3. PICK v : v = Violates(l, h)
  OBVIOUS
<1>4. v \in {"identity", "handle", "none"}
  BY <1>3 DEF Violates
<1>5. CASE v = "identity"
  <2>1. Goes(l, "reread") /\ users' = users
    BY <1>2, <1>3, <1>5 DEF InsertUser, LosesRace
  <2>2. \E u \in users : u.identity = login[l].assertion.identity
    BY <1>3, <1>5 DEF Violates, IdentityOf
  <2> QED
    BY <1>1, <2>1, <2>2, GoesTried
<1>6. CASE v = "handle"
  <2>1. /\ NextCandidate(l) /\ users' = users
        /\ Violates(l, login[l].candidate) = "handle"
    BY <1>2, <1>3, <1>6 DEF InsertUser
  <2> QED
    BY <1>1, <2>1, NextCandidateTried
<1>7. CASE v = "none"
  <2>1. Inserts(l, h)
    BY <1>2, <1>3, <1>7 DEF InsertUser
  <2>2. users \subseteq users'
    BY <2>1 DEF Inserts
  <2> QED
    BY <2>1, <2>2, GetsUserTried DEF Inserts
<1> QED
  BY <1>4, <1>5, <1>6, <1>7

\* The winner's row is there to be read again.
LEMMA RereadWinnerTried ==
  ASSUME Inv, AllTried, NEW l \in Logins, RereadWinner(l)
  PROVE  AllTried'
<1>1. login[l].at = "reread" /\ users' = users
  BY DEF RereadWinner
<1>2. Tried(login[l], users)
  BY DEF AllTried
<1>3. \E u \in users : u.identity = login[l].assertion.identity
  BY <1>1, <1>2 DEF Tried
<1>4. ByIdentity(IdentityOf(l)) # {}
  BY <1>3 DEF ByIdentity, IdentityOf
<1>5. PICK u \in ByIdentity(IdentityOf(l)) : GetsUser(l, u)
  BY <1>4 DEF RereadWinner
<1> QED
  BY <1>1, <1>5, GetsUserTried

LEMMA InsertRandomTried ==
  ASSUME Inv, AllTried, NEW l \in Logins, InsertRandom(l)
  PROVE  AllTried'
<1>1. login[l].at = "random" /\ login[l].at \in Underway
  BY DEF InsertRandom, Underway
<1>2. PICK y \in Randoms : LET handle == Append(login[l].base, y) IN
       IF Violates(l, handle) = "none" THEN Inserts(l, handle)
       ELSE Goes(l, "refused") /\ UNCHANGED users
  BY DEF InsertRandom
<1>3. PICK handle : handle = Append(login[l].base, y)
  OBVIOUS
<1>4. CASE Violates(l, handle) = "none"
  <2>1. Inserts(l, handle)
    BY <1>2, <1>3, <1>4
  <2>2. users \subseteq users'
    BY <2>1 DEF Inserts
  <2> QED
    BY <2>1, <2>2, GetsUserTried DEF Inserts
<1>5. CASE Violates(l, handle) # "none"
  <2>1. Goes(l, "refused") /\ users' = users
    BY <1>2, <1>3, <1>5
  <2> QED
    BY <1>1, <2>1, GoesTried
<1> QED
  BY <1>4, <1>5

LEMMA CreateSessionTried ==
  ASSUME Inv, AllTried, NEW l \in Logins, CreateSession(l)
  PROVE  AllTried'
<1>1. PICK x : x = [at |-> "done", identity |-> login[l].identity,
                    user |-> login[l].user, expires |-> now + SessionTTL]
  OBVIOUS
<1>2. login' = [login EXCEPT ![l] = x] /\ x.at = "done" /\ users' = users
  BY <1>1 DEF CreateSession
<1> QED
  BY <1>2, OneTried, NothingTried

LEMMA LoseLoginTried ==
  ASSUME Inv, AllTried, NEW l \in Logins, LoseLogin(l)
  PROVE  AllTried'
<1>1. \A k \in Logins : login'[k] = login[k] \/ login'[k] = [at |-> "lost"]
  BY DEF LoseLogin, Inv
<1> QED
  BY <1>1, LoginsStayTried DEF LoseLogin

LEMMA NextTried ==
  ASSUME Inv, AllTried, [Next]_vars
  PROVE  AllTried'
<1>1. ASSUME NEW l \in Logins, LoginStep(l) PROVE AllTried'
  BY <1>1, CallbackTried, FindUserTried, InsertUserTried,
     RereadWinnerTried, InsertRandomTried, CreateSessionTried, LoseLoginTried
     DEF LoginStep
<1>2. CASE UNCHANGED <<login, users>>
  BY <1>2, LoginsStayTried
<1>3. ASSUME NEW r \in Requests, RequestStep(r) PROVE AllTried'
  <2>1. UNCHANGED <<login, users>>
    BY <1>3 DEF RequestStep, Arrive, LookupSession, Answer
  <2> QED
    BY <1>2, <2>1
<1>4. CASE Restart
  <2>1. \A k \in Logins : login'[k] = login[k] \/ login'[k] = [at |-> "lost"]
    BY <1>4 DEF Restart
  <2> QED
    BY <1>4, <2>1, LoginsStayTried DEF Restart
<1> QED
  BY <1>1, <1>2, <1>3, <1>4 DEF Next, vars, Tick, BeginLogin

\* A login whose assertion was accepted loses no race: it is refused only if
\* every handle it would try is a user's (UpsertUser).
THEOREM AcceptedLoginsSucceed == Spec => []AcceptedLoginSucceeds
<1>1. Init => Inv /\ AllTried
  <2>1. Init => AllTried
    BY NothingTried DEF Init, AllTried, Fresh
  <2> QED
    BY <2>1, InitInv
<1>2. Inv /\ AllTried /\ [Next]_vars => Inv' /\ AllTried'
  BY NextInv, NextTried
<1>3. AllTried => AcceptedLoginSucceeds
  <2> SUFFICES ASSUME AllTried, NEW l \in Logins, login[l].at = "refused",
                      "base" \in DOMAIN login[l], NEW h \in Handles(login[l].base)
               PROVE  h \in {u.handle : u \in users}
    BY DEF AcceptedLoginSucceeds
  <2>1. Tried(login[l], users)
    BY DEF AllTried
  <2>2. TakenIn(users, h)
    BY <2>1 DEF Tried
  <2> QED
    BY <2>2 DEF TakenIn
<1> QED
  BY <1>1, <1>2, <1>3, PTL DEF Spec

-----------------------------------------------------------------------------
(***************************************************************************)
(* Calls.  A cookie whose login was not logged out has its session, with   *)
(* the expiry the login gave it, and one that was has none.                *)
(***************************************************************************)
IsCall(q) == q.at \in {"arrived", "running", "logged out"}

Served(q, s, out) ==
  IF q.as # Nil
  THEN q.as = s.user /\ q.looked < s.expires /\ ~q.late
  ELSE q.faulty \/ q.looked >= s.expires \/ out

CallsRight ==
  \A r \in Requests :
    /\ IsCall(request[r]) => /\ request[r].cookie \in Logins
                             /\ login[request[r].cookie].at = "done"
    /\ request[r].at = "arrived" /\ request[r].late =>
         LoggedOut(request[r].cookie)
    /\ request[r].at = "running" =>
         Served(request[r], login[request[r].cookie],
                LoggedOut(request[r].cookie))

CallInv ==
  /\ request = [r \in Requests |-> request[r]]
  /\ \A u \in users : u.id # Nil
  /\ \A l \in Logins :
       /\ login[l].at = "done" =>
            \/ LoggedOut(l)
            \/ \E s \in sessions : s.token = l
       /\ LoggedOut(l) => login[l].at = "done"
  /\ \A s \in sessions : /\ s.expires = login[s.token].expires
                         /\ s.expires \in Nat
                         /\ ~LoggedOut(s.token)
  /\ CallsRight

\* Call by call.
LEMMA CallByCall ==
  ASSUME \A r \in Requests : \A q : q = request'[r] /\ IsCall(q) =>
           /\ q.cookie \in Logins /\ login'[q.cookie].at = "done"
           /\ q.at = "arrived" /\ q.late => LoggedOut(q.cookie)'
           /\ q.at = "running" =>
                Served(q, login'[q.cookie], LoggedOut(q.cookie)')
  PROVE  CallsRight'
BY DEF CallsRight, IsCall, LoggedOut

\* What a logout leaves of its call.
LEMMA LoggedOutFields ==
  ASSUME NEW l, NEW y, y = [at |-> "logged out", cookie |-> l]
  PROVE  y.at = "logged out" /\ y.cookie = l
<1>1. PICK z : z = [at |-> "logged out", cookie |-> l]
  OBVIOUS
<1>2. z.at = "logged out" /\ z.cookie = l
  BY <1>1
<1>3. y = z
  BY <1>1
<1> QED BY <1>2, <1>3

\* Who was logged out stays so, and nobody else is, if no logout ends.
LEMMA NobodyLoggedOut ==
  ASSUME \A q \in Requests :
           \/ request'[q] = request[q]
           \/ request[q].at # "logged out" /\ request'[q].at # "logged out"
  PROVE  \A l : LoggedOut(l)' <=> LoggedOut(l)
<1> SUFFICES ASSUME NEW l PROVE LoggedOut(l)' <=> LoggedOut(l)
  OBVIOUS
<1>1. PICK y : y = [at |-> "logged out", cookie |-> l]
  OBVIOUS
<1>2. y.at = "logged out"
  BY <1>1
<1>3. LoggedOut(l) <=> \E q \in Requests : request[q] = y
  BY <1>1 DEF LoggedOut
<1>4. LoggedOut(l)' <=> \E q \in Requests : request'[q] = y
  BY <1>1 DEF LoggedOut
<1> QED BY <1>2, <1>3, <1>4

\* A step that neither creates nor ends a session, nor makes a call go on.
LEMMA CallsWait ==
  ASSUME CallInv, UNCHANGED sessions,
         request' = [r \in Requests |-> request'[r]],
         \A q \in Requests :
           \/ request'[q] = request[q]
           \/ /\ request[q].at # "logged out"
              /\ request'[q].at \in {"fresh", "answered"},
         \A u \in users' : u.id # Nil,
         \A l \in Logins : login'[l].at = "done" \/ login[l].at = "done" =>
                             login'[l] = login[l],
         \A s \in sessions : s.token \in Logins /\ login[s.token].at = "done"
  PROVE  CallInv'
<1>1. \A l : LoggedOut(l)' <=> LoggedOut(l)
  BY NobodyLoggedOut
<1>2. ASSUME NEW l \in Logins
      PROVE  /\ login'[l].at = "done" =>
                  LoggedOut(l)' \/ \E s \in sessions' : s.token = l
             /\ LoggedOut(l)' => login'[l].at = "done"
  <2>1. LoggedOut(l)' => login'[l].at = "done"
    BY <1>1 DEF CallInv
  <2>2. login'[l].at = "done" => login[l].at = "done"
    OBVIOUS
  <2> QED
    BY <1>1, <2>1, <2>2 DEF CallInv
<1>3. ASSUME NEW s \in sessions'
      PROVE  /\ s.expires = login'[s.token].expires
             /\ s.expires \in Nat
             /\ ~LoggedOut(s.token)'
  <2>1. /\ s.expires = login[s.token].expires /\ s.expires \in Nat
        /\ ~LoggedOut(s.token)
    BY DEF CallInv
  <2>2. login'[s.token] = login[s.token]
    OBVIOUS
  <2> QED BY <1>1, <2>1, <2>2
<1>4. ASSUME NEW r \in Requests, NEW q, q = request'[r], IsCall(q)
      PROVE  /\ q.cookie \in Logins /\ login'[q.cookie].at = "done"
             /\ q.at = "arrived" /\ q.late => LoggedOut(q.cookie)'
             /\ q.at = "running" =>
                  Served(q, login'[q.cookie], LoggedOut(q.cookie)')
  <2>1. q = request[r]
    BY <1>4 DEF IsCall
  <2>2. q.cookie \in Logins /\ login[q.cookie].at = "done"
    <3>1. CallsRight
      BY DEF CallInv
    <3> QED
      BY <1>4, <2>1, <3>1 DEF CallsRight
  <2>3. login'[q.cookie] = login[q.cookie]
    BY <2>2
  <2>4. q.at = "arrived" /\ q.late => LoggedOut(q.cookie)'
    BY <1>1, <2>1 DEF CallInv, CallsRight
  <2>5. q.at = "running" => Served(q, login[q.cookie], LoggedOut(q.cookie))
    BY <2>1 DEF CallInv, CallsRight
  <2>6. q.at = "running" => Served(q, login'[q.cookie], LoggedOut(q.cookie)')
    BY <1>1, <2>3, <2>5 DEF Served
  <2> QED
    BY <2>2, <2>3, <2>4, <2>6
<1>5. CallsRight'
  BY <1>4, CallByCall
<1> QED
  BY <1>2, <1>3, <1>5 DEF CallInv, LoggedOut

\* A login step that creates no session.
LEMMA LoginStepWaits ==
  ASSUME Inv, CallInv, NEW l \in Logins, NEW x,
         login' = [login EXCEPT ![l] = x],
         login[l].at # "done", x.at # "done",
         UNCHANGED <<sessions, request>>,
         \A u \in users' : u \in users \/ u.id = l
  PROVE  CallInv'
<1>1. \A k \in Logins : login'[k] = IF k = l THEN x ELSE login[k]
  BY DEF Inv
<1>2. \A k \in Logins : login'[k].at = "done" \/ login[k].at = "done" =>
                          login'[k] = login[k]
  BY <1>1
<1>3. \A u \in users' : u.id # Nil
  BY AccountsAssumption DEF CallInv
<1>4. \A s \in sessions : s.token \in Logins /\ login[s.token].at = "done"
  BY DEF Inv
<1>5. request' = [r \in Requests |-> request'[r]]
  BY DEF CallInv
<1> QED
  BY <1>2, <1>3, <1>4, <1>5, CallsWait

LEMMA GetsUserWaits ==
  ASSUME Inv, CallInv, NEW l \in Logins, login[l].at # "done", NEW u,
         GetsUser(l, u), UNCHANGED <<sessions, request>>,
         \A v \in users' : v \in users \/ v.id = l
  PROVE  CallInv'
<1>1. PICK x : x = [at |-> "mint", identity |-> login[l].assertion.identity,
                    user |-> u.id]
  OBVIOUS
<1>2. login' = [login EXCEPT ![l] = x] /\ x.at = "mint"
  BY <1>1 DEF GetsUser
<1> QED
  BY <1>2, LoginStepWaits

LEMMA InsertsWaits ==
  ASSUME Inv, CallInv, NEW l \in Logins, login[l].at # "done", NEW handle,
         Inserts(l, handle), UNCHANGED <<sessions, request>>
  PROVE  CallInv'
<1>1. PICK new : new = NewUser(l, handle)
  OBVIOUS
<1>2. new.id = l /\ users' = users \cup {new} /\ GetsUser(l, new)
  BY <1>1 DEF NewUser, Inserts
<1> QED
  BY <1>2, GetsUserWaits

LEMMA GoesWaits ==
  ASSUME Inv, CallInv, NEW l \in Logins, login[l].at \in Underway,
         NEW at, at # "done", Goes(l, at),
         UNCHANGED <<users, sessions, request>>
  PROVE  CallInv'
<1>1. IsPending(login[l]) /\ login[l].at # "done"
  BY DEF Inv, Underway
<1>2. PICK x : x = [login[l] EXCEPT !.at = at]
  OBVIOUS
<1>3. login' = [login EXCEPT ![l] = x] /\ x.at = at
  BY <1>1, <1>2 DEF Goes, IsPending
<1> QED
  BY <1>1, <1>3, LoginStepWaits

\* Every step of a login but the last.
LEMMA LoginWaits ==
  ASSUME Inv, CallInv, NEW l \in Logins, LoginStep(l), ~CreateSession(l)
  PROVE  CallInv'
<1>2. CASE Callback(l)
  <2>1. PICK x : login' = [login EXCEPT ![l] = x] /\ x.at \in {"refused", "find"}
    <3>1. PICK a \in Assertions, claims \in BOOLEAN :
            login' = [login EXCEPT ![l] =
             IF ~Accepts(a) THEN [at |-> "refused"]
             ELSE LET base == DeriveHandleCandidate(Signals[a.identity], claims)
                  IN [at |-> "find", assertion |-> a, checked |-> now,
                      base |-> base, candidate |-> base, attempt |-> 2]]
      BY <1>2 DEF Callback
    <3>2. PICK base : base = DeriveHandleCandidate(Signals[a.identity], claims)
      OBVIOUS
    <3>3. PICK x : x = IF ~Accepts(a) THEN [at |-> "refused"]
               ELSE [at |-> "find", assertion |-> a, checked |-> now,
                     base |-> base, candidate |-> base, attempt |-> 2]
      OBVIOUS
    <3>4. login' = [login EXCEPT ![l] = x]
      BY <3>1, <3>2, <3>3
    <3>5. x.at \in {"refused", "find"}
      BY <3>3
    <3> QED BY <3>4, <3>5
  <2>2. login[l].at # "done" /\ UNCHANGED <<sessions, request, users>>
    BY <1>2 DEF Callback, Fresh
  <2> QED BY <2>1, <2>2, LoginStepWaits
<1>3. CASE FindUser(l)
  <2>1. /\ login[l].at = "find" /\ login[l].at \in Underway
        /\ UNCHANGED <<sessions, request, users>>
    BY <1>3 DEF FindUser, Underway
  <2> QED
    BY <1>3, <2>1, GoesWaits, GetsUserWaits DEF FindUser
<1>4. CASE InsertUser(l)
  <2>1. /\ login[l].at = "insert" /\ login[l].at \in Underway
        /\ UNCHANGED <<sessions, request>>
    BY <1>4 DEF InsertUser, Underway
  <2>2. \/ Goes(l, "reread") /\ users' = users
        \/ NextCandidate(l) /\ users' = users
        \/ Inserts(l, login[l].candidate)
    BY <1>4 DEF InsertUser, LosesRace
  <2>3. CASE NextCandidate(l) /\ users' = users
    <3>1. PICK x : /\ x = [login[l] EXCEPT
                            !.candidate = Append(login[l].base, login[l].attempt),
                            !.attempt = login[l].attempt + 1,
                            !.at = IF login[l].attempt > MaxHandleAttempts
                                   THEN "random" ELSE "insert"]
      OBVIOUS
    <3>2. IsPending(login[l])
      BY <2>1 DEF Inv
    <3>3. login' = [login EXCEPT ![l] = x] /\ x.at # "done"
      BY <2>3, <3>1, <3>2 DEF NextCandidate, IsPending, Inv
    <3> QED BY <2>1, <2>3, <3>3, LoginStepWaits
  <2> QED
    BY <2>1, <2>2, <2>3, GoesWaits, InsertsWaits
<1>5. CASE RereadWinner(l)
  <2>1. /\ login[l].at = "reread" /\ login[l].at \in Underway
        /\ UNCHANGED <<sessions, request, users>>
    BY <1>5 DEF RereadWinner, Underway
  <2> QED
    BY <1>5, <2>1, GoesWaits, GetsUserWaits DEF RereadWinner
<1>6. CASE InsertRandom(l)
  <2>1. /\ login[l].at = "random" /\ login[l].at \in Underway
        /\ UNCHANGED <<sessions, request>>
    BY <1>6 DEF InsertRandom, Underway
  <2>2. PICK y \in Randoms : \/ Inserts(l, Append(login[l].base, y))
                             \/ Goes(l, "refused") /\ UNCHANGED users
    BY <1>6 DEF InsertRandom
  <2> QED
    BY <2>1, <2>2, GoesWaits, InsertsWaits
<1>7. CASE LoseLogin(l)
  <2>1. PICK x : x = [at |-> "lost"]
    OBVIOUS
  <2>2. /\ login' = [login EXCEPT ![l] = x] /\ x.at # "done"
        /\ login[l].at # "done" /\ UNCHANGED <<sessions, request, users>>
    BY <1>7, <2>1 DEF LoseLogin, Idle
  <2> QED BY <2>2, LoginStepWaits
<1> QED
  BY <1>2, <1>3, <1>4, <1>5, <1>6, <1>7 DEF LoginStep

\* A new session has a cookie that nobody has called with yet.
LEMMA CreateSessionServes ==
  ASSUME Inv, CallInv, NEW l \in Logins, CreateSession(l)
  PROVE  CallInv'
<1>1. login[l].at = "mint" /\ UNCHANGED <<now, users, request>>
  BY DEF CreateSession
<1>2. PICK x : x = [at |-> "done", identity |-> login[l].identity,
                    user |-> login[l].user, expires |-> now + SessionTTL]
  OBVIOUS
<1>3. PICK s : s = [token |-> l, user |-> login[l].user,
                    expires |-> now + SessionTTL]
  OBVIOUS
<1>4. login' = [login EXCEPT ![l] = x] /\ sessions' = sessions \cup {s}
  BY <1>2, <1>3 DEF CreateSession
<1>5. /\ x.at = "done" /\ s.token = l /\ s.expires = x.expires
      /\ s.expires \in Nat
  BY <1>2, <1>3, AccountsAssumption DEF Inv
<1>6. \A k \in Logins : login'[k] = IF k = l THEN x ELSE login[k]
  BY <1>4 DEF Inv
<1>7. \A k : LoggedOut(k)' <=> LoggedOut(k)
  BY <1>1, NobodyLoggedOut
<1>8. ~LoggedOut(l)
  BY <1>1 DEF CallInv, CallsRight
<1>9. ASSUME NEW k \in Logins
      PROVE  /\ login'[k].at = "done" =>
                  LoggedOut(k)' \/ \E t \in sessions' : t.token = k
             /\ LoggedOut(k)' => login'[k].at = "done"
  BY <1>4, <1>5, <1>6, <1>7 DEF CallInv
<1>10. ASSUME NEW t \in sessions'
       PROVE  /\ t.expires = login'[t.token].expires
              /\ t.expires \in Nat
              /\ ~LoggedOut(t.token)'
  <2>1. CASE t = s
    BY <1>5, <1>6, <1>7, <1>8, <2>1
  <2>2. CASE t \in sessions
    <3>1. /\ t.token \in Logins /\ login[t.token].at = "done"
          /\ t.expires = login[t.token].expires /\ t.expires \in Nat
          /\ ~LoggedOut(t.token)
      BY <2>2 DEF Inv, CallInv
    <3>2. t.token # l
      BY <1>1, <3>1
    <3> QED BY <1>6, <1>7, <3>1, <3>2
  <2> QED BY <1>4, <2>1, <2>2
<1>11. ASSUME NEW r \in Requests, NEW q, q = request[r], IsCall(q)
       PROVE  /\ q.cookie \in Logins /\ login'[q.cookie].at = "done"
              /\ q.at = "arrived" /\ q.late => LoggedOut(q.cookie)'
              /\ q.at = "running" =>
                   Served(q, login'[q.cookie], LoggedOut(q.cookie)')
  <2>1. q.cookie \in Logins /\ login[q.cookie].at = "done"
    BY <1>11 DEF CallInv, CallsRight
  <2>2. login'[q.cookie] = login[q.cookie]
    BY <1>1, <1>6, <2>1
  <2>3. q.at = "arrived" /\ q.late => LoggedOut(q.cookie)'
    BY <1>7, <1>11 DEF CallInv, CallsRight
  <2>4. q.at = "running" => Served(q, login[q.cookie], LoggedOut(q.cookie))
    BY <1>11 DEF CallInv, CallsRight
  <2>5. q.at = "running" => Served(q, login'[q.cookie], LoggedOut(q.cookie)')
    BY <1>7, <2>2, <2>4 DEF Served
  <2> QED BY <2>1, <2>2, <2>3, <2>5
<1>12. CallsRight'
  BY <1>1, <1>11, CallByCall
<1> QED
  BY <1>1, <1>9, <1>10, <1>12 DEF CallInv, LoggedOut

-----------------------------------------------------------------------------
\* A call goes on, and no session ends.
LEMMA CallMoves ==
  ASSUME Inv, CallInv, NEW r \in Requests, NEW q,
         request' = [request EXCEPT ![r] = q],
         UNCHANGED <<users, sessions, login>>,
         request[r].at # "logged out", q.at \in {"arrived", "running"},
         q.cookie \in Logins, login[q.cookie].at = "done",
         q.at = "arrived" /\ q.late => LoggedOut(q.cookie),
         q.at = "running" => Served(q, login[q.cookie], LoggedOut(q.cookie))
  PROVE  CallInv'
<1>1. /\ request' = [p \in Requests |-> request'[p]]
      /\ \A p \in Requests : request'[p] = IF p = r THEN q ELSE request[p]
  BY DEF CallInv
<1>2. \A l : LoggedOut(l)' <=> LoggedOut(l)
  BY <1>1, NobodyLoggedOut
<1>3. ASSUME NEW p \in Requests, NEW c, c = request'[p], IsCall(c)
      PROVE  /\ c.cookie \in Logins /\ login'[c.cookie].at = "done"
             /\ c.at = "arrived" /\ c.late => LoggedOut(c.cookie)'
             /\ c.at = "running" =>
                  Served(c, login'[c.cookie], LoggedOut(c.cookie)')
  <2>1. /\ c.cookie \in Logins /\ login[c.cookie].at = "done"
        /\ c.at = "arrived" /\ c.late => LoggedOut(c.cookie)
        /\ c.at = "running" =>
             Served(c, login[c.cookie], LoggedOut(c.cookie))
    <3>1. CASE p = r
      BY <1>1, <1>3, <3>1
    <3>2. CASE p # r
      BY <1>1, <1>3, <3>2 DEF CallInv, CallsRight
    <3> QED BY <3>1, <3>2
  <2>2. c.at = "running" => Served(c, login[c.cookie], LoggedOut(c.cookie)')
    BY <1>2, <2>1 DEF Served
  <2> QED BY <1>2, <2>1, <2>2
<1>4. /\ \A u \in users' : u.id # Nil
      /\ \A l \in Logins :
           /\ login'[l].at = "done" =>
                LoggedOut(l)' \/ \E s \in sessions' : s.token = l
           /\ LoggedOut(l)' => login'[l].at = "done"
      /\ \A s \in sessions' : /\ s.expires = login'[s.token].expires
                              /\ s.expires \in Nat
                              /\ ~LoggedOut(s.token)'
  BY <1>2 DEF CallInv
<1>5. CallsRight'
  BY <1>1, <1>3, CallByCall
<1> QED
  BY <1>1, <1>4, <1>5 DEF CallInv, LoggedOut

LEMMA ArriveServes ==
  ASSUME Inv, CallInv, NEW r \in Requests, Arrive(r)
  PROVE  CallInv'
<1>1. PICK l \in {k \in Logins : login[k].at = "done"}, out \in BOOLEAN :
        request' = [request EXCEPT ![r] =
          [at |-> "arrived", cookie |-> l, logout |-> out,
           late |-> LoggedOut(l)]]
  BY DEF Arrive
<1>2. PICK q : q = [at |-> "arrived", cookie |-> l, logout |-> out,
                    late |-> LoggedOut(l)]
  OBVIOUS
<1>3. /\ request' = [request EXCEPT ![r] = q] /\ q.at = "arrived"
      /\ q.cookie = l /\ q.late = LoggedOut(l)
  BY <1>1, <1>2
<1>4. request[r].at # "logged out" /\ UNCHANGED <<users, sessions, login>>
  BY DEF Arrive, Fresh
<1>5. q.cookie \in Logins /\ login[q.cookie].at = "done"
  BY <1>3
<1>6. (q.late => LoggedOut(q.cookie)) /\ q.at # "running"
  BY <1>3
<1> QED
  BY <1>3, <1>4, <1>5, <1>6, CallMoves

\* Who is found is the cookie's user, with a session not yet expired; who is not
\* found has none left.
LEMMA LookupServes ==
  ASSUME Inv, CallInv, NEW r \in Requests, LookupSession(r)
  PROVE  CallInv'
<1>1. request[r].at = "arrived" /\ UNCHANGED <<users, sessions, login, now>>
  BY DEF LookupSession
<1>2. PICK old : old = request[r]
  OBVIOUS
<1>3. PICK l : l = old.cookie
  OBVIOUS
<1>4. PICK found : found = {s \in sessions : s.token = l /\ Valid(s)}
  OBVIOUS
<1>5. PICK who : who = (CHOOSE s \in found : TRUE)
  OBVIOUS
<1>6. PICK faulty \in BOOLEAN :
        request' = [request EXCEPT ![r] =
          [at |-> "running", cookie |-> l, logout |-> old.logout,
           late |-> old.late, looked |-> now, faulty |-> faulty,
           as |-> IF faulty \/ found = {} THEN Nil ELSE who.user]]
  <2>1. LET fnd == {s \in sessions : s.token = request[r].cookie /\ Valid(s)}
        IN  \E faulty \in BOOLEAN :
              request' = [request EXCEPT ![r] =
                [at |-> "running", cookie |-> request[r].cookie,
                 logout |-> request[r].logout, late |-> request[r].late,
                 looked |-> now, faulty |-> faulty,
                 as |-> IF faulty \/ fnd = {} THEN Nil
                        ELSE (CHOOSE s \in fnd : TRUE).user]]
    BY DEF LookupSession, CallInv
  <2>2. found = {s \in sessions : s.token = request[r].cookie /\ Valid(s)}
    BY <1>2, <1>3, <1>4
  <2> QED
    BY <1>2, <1>3, <1>5, <2>1, <2>2
<1>7. PICK as : as = IF faulty \/ found = {} THEN Nil ELSE who.user
  OBVIOUS
<1>8. PICK q : q = [at |-> "running", cookie |-> l, logout |-> old.logout,
                    late |-> old.late, looked |-> now, faulty |-> faulty,
                    as |-> as]
  OBVIOUS
<1>9. request' = [request EXCEPT ![r] = q]
  BY <1>6, <1>7, <1>8
<1>10. /\ q.at = "running" /\ q.cookie = l /\ q.late = old.late
       /\ q.looked = now /\ q.faulty = faulty /\ q.as = as
  BY <1>8
<1>11. /\ l \in Logins /\ login[l].at = "done"
       /\ old.late => LoggedOut(l)
  BY <1>1, <1>2, <1>3 DEF CallInv, CallsRight, IsCall
<1>12. now \in Nat
  BY DEF Inv
<1>13. CASE faulty \/ found = {}
  <2>1. as = Nil
    BY <1>7, <1>13
  <2>2. ASSUME ~faulty, ~LoggedOut(l) PROVE now >= login[l].expires
    <3>1. PICK s \in sessions : s.token = l
      BY <1>11, <2>2 DEF CallInv
    <3>2. s.expires = login[l].expires /\ s.expires \in Nat
      BY <3>1 DEF CallInv
    <3>3. ~Valid(s)
      BY <1>4, <1>13, <2>2, <3>1
    <3> QED BY <1>12, <3>2, <3>3 DEF Valid
  <2>3. Served(q, login[l], LoggedOut(l))
    BY <1>10, <2>1, <2>2 DEF Served
  <2> QED
    BY <1>1, <1>9, <1>10, <1>11, <2>3, CallMoves
<1>14. CASE ~faulty /\ found # {}
  <2>1. who \in sessions /\ who.token = l /\ Valid(who)
    BY <1>4, <1>5, <1>14
  <2>2. /\ who.user = login[l].user /\ who.expires = login[l].expires
        /\ who.expires \in Nat /\ ~LoggedOut(l)
    BY <2>1 DEF Inv, CallInv, CallsRight
  <2>3. now < login[l].expires
    BY <1>12, <2>1, <2>2 DEF Valid
  <2>4. login[l].user # Nil
    BY <1>11 DEF Inv, RowOf, CallInv
  <2>5. as = login[l].user
    BY <1>7, <1>14, <2>2
  <2>6. Served(q, login[l], LoggedOut(l))
    BY <1>10, <1>11, <2>2, <2>3, <2>4, <2>5 DEF Served
  <2> QED
    BY <1>1, <1>9, <1>10, <1>11, <2>6, CallMoves
<1> QED BY <1>13, <1>14

\* A logout ends the session of its cookie, and only that.
LEMMA AnswerServes ==
  ASSUME Inv, CallInv, NEW r \in Requests, Answer(r)
  PROVE  CallInv'
<1>1. request[r].at = "running" /\ UNCHANGED <<users, login>>
  BY DEF Answer
<1>2. PICK l : l = request[r].cookie
  OBVIOUS
<1>3. \/ /\ request' = [request EXCEPT ![r] = [at |-> "answered"]]
         /\ sessions' = sessions
      \/ /\ request' = [request EXCEPT ![r] =
                          [at |-> "logged out", cookie |-> l]]
         /\ sessions' = sessions \ {s \in sessions : s.token = l}
  BY <1>2 DEF Answer, OfCookie, CallInv
<1>4. CASE /\ request' = [request EXCEPT ![r] = [at |-> "answered"]]
           /\ sessions' = sessions
  <2>1. request' = [p \in Requests |-> request'[p]]
    BY <1>4 DEF CallInv
  <2>2. \A p \in Requests : \/ request'[p] = request[p]
                            \/ /\ request[p].at # "logged out"
                               /\ request'[p].at \in {"fresh", "answered"}
    BY <1>1, <1>4 DEF CallInv
  <2>3. /\ \A u \in users' : u.id # Nil
        /\ \A s \in sessions : s.token \in Logins /\ login[s.token].at = "done"
    BY <1>1 DEF CallInv, Inv
  <2> QED
    BY <1>1, <1>4, <2>1, <2>2, <2>3, CallsWait
<1>5. CASE /\ request' = [request EXCEPT ![r] =
                            [at |-> "logged out", cookie |-> l]]
           /\ sessions' = sessions \ {s \in sessions : s.token = l}
  <2>1. PICK q : q = [at |-> "logged out", cookie |-> l]
    OBVIOUS
  <2>2. /\ request' = [p \in Requests |-> request'[p]]
        /\ \A p \in Requests : request'[p] = IF p = r THEN q ELSE request[p]
    BY <1>5, <2>1 DEF CallInv
  <2>3. q.at = "logged out" /\ q.cookie = l
    BY <2>1
  <2>4. l \in Logins /\ login[l].at = "done"
    BY <1>1, <1>2 DEF CallInv, CallsRight, IsCall
  <2>5. ASSUME NEW k PROVE LoggedOut(k)' <=> LoggedOut(k) \/ k = l
    <3>1. LoggedOut(k) => LoggedOut(k)'
      <4> SUFFICES ASSUME NEW p \in Requests,
                          request[p] = [at |-> "logged out", cookie |-> k]
                   PROVE  request'[p] = request[p]
        BY DEF LoggedOut
      <4>1. request[p].at = "logged out"
        BY LoggedOutFields
      <4>2. p # r
        BY <1>1, <4>1
      <4> QED BY <2>2, <4>2
    <3>2. k = l => LoggedOut(k)'
      BY <2>1, <2>2 DEF LoggedOut
    <3>3. LoggedOut(k)' => LoggedOut(k) \/ k = l
      <4> SUFFICES ASSUME NEW p \in Requests, k # l,
                          request'[p] = [at |-> "logged out", cookie |-> k]
                   PROVE  request'[p] = request[p]
        BY DEF LoggedOut
      <4>1. PICK y : y = [at |-> "logged out", cookie |-> k]
        OBVIOUS
      <4>2. p # r
        <5>1. y.cookie = k
          BY <4>1
        <5>2. request'[p] = y
          BY <4>1
        <5> QED BY <2>2, <2>3, <5>1, <5>2
      <4> QED BY <2>2, <4>2
    <3> QED BY <3>1, <3>2, <3>3
  <2>6. ASSUME NEW k \in Logins
        PROVE  /\ login'[k].at = "done" =>
                    LoggedOut(k)' \/ \E s \in sessions' : s.token = k
               /\ LoggedOut(k)' => login'[k].at = "done"
    BY <1>1, <1>5, <2>4, <2>5 DEF CallInv
  <2>7. ASSUME NEW s \in sessions'
        PROVE  /\ s.expires = login'[s.token].expires /\ s.expires \in Nat
               /\ ~LoggedOut(s.token)'
    BY <1>1, <1>5, <2>5 DEF CallInv
  <2>8. ASSUME NEW p \in Requests, NEW c, c = request'[p], IsCall(c)
        PROVE  /\ c.cookie \in Logins /\ login[c.cookie].at = "done"
               /\ c.at = "arrived" /\ c.late => LoggedOut(c.cookie)'
               /\ c.at = "running" =>
                    Served(c, login[c.cookie], LoggedOut(c.cookie)')
    <3>1. CASE p = r
      BY <2>2, <2>3, <2>4, <2>8, <3>1
    <3>2. CASE p # r
      <4>1. c = request[p]
        BY <2>2, <2>8, <3>2
      <4>2. /\ c.cookie \in Logins /\ login[c.cookie].at = "done"
            /\ c.at = "arrived" /\ c.late => LoggedOut(c.cookie)
            /\ c.at = "running" =>
                 Served(c, login[c.cookie], LoggedOut(c.cookie))
        BY <2>8, <4>1 DEF CallInv, CallsRight
      <4>3. c.at = "running" =>
              Served(c, login[c.cookie], LoggedOut(c.cookie)')
        BY <2>5, <4>2 DEF Served
      <4> QED BY <2>5, <4>2, <4>3
    <3> QED BY <3>1, <3>2
  <2>9. CallsRight'
    BY <1>1, <2>8, CallByCall
  <2> QED
    BY <1>1, <2>2, <2>6, <2>7, <2>9 DEF CallInv, LoggedOut
<1> QED BY <1>3, <1>4, <1>5

LEMMA CallInit ==
  ASSUME Init
  PROVE  CallInv
<1>1. \A u \in users : u.id # Nil
  BY AccountsAssumption DEF Init
<1>2. \A r \in Requests : request[r].at = "fresh"
  BY DEF Init, Fresh
<1>3. \A l : ~LoggedOut(l)
  <2> SUFFICES ASSUME NEW l, NEW q \in Requests,
                      request[q] = [at |-> "logged out", cookie |-> l]
               PROVE  FALSE
    BY DEF LoggedOut
  <2>1. request[q].at = "logged out"
    BY LoggedOutFields
  <2> QED BY <1>2, <2>1
<1>4. \A l \in Logins : login[l].at = "fresh"
  BY DEF Init, Fresh
<1> QED
  BY <1>1, <1>2, <1>3, <1>4 DEF Init, CallInv, CallsRight, IsCall

LEMMA CallStep ==
  ASSUME Inv, CallInv, [Next]_vars
  PROVE  CallInv'
<1>0. \A s \in sessions : s.token \in Logins /\ login[s.token].at = "done"
  BY DEF Inv
<1>1. ASSUME NEW l \in Logins, LoginStep(l) PROVE CallInv'
  BY <1>1, LoginWaits, CreateSessionServes
<1>2. ASSUME NEW r \in Requests, RequestStep(r) PROVE CallInv'
  BY <1>2, ArriveServes, LookupServes, AnswerServes DEF RequestStep
<1>3. CASE UNCHANGED <<users, sessions, login, request>>
  <2>1. /\ \A u \in users' : u.id # Nil
        /\ request' = [r \in Requests |-> request'[r]]
    BY <1>3 DEF CallInv
  <2> QED
    BY <1>0, <1>3, <2>1, CallsWait
<1>4. CASE Restart
  <2>1. /\ \A u \in users' : u.id # Nil
        /\ request' = [r \in Requests |-> request'[r]]
        /\ sessions' = sessions
    BY <1>4 DEF CallInv, Restart
  <2>2. \A q \in Requests : \/ request'[q] = request[q]
                            \/ /\ request[q].at # "logged out"
                               /\ request'[q].at \in {"fresh", "answered"}
    BY <1>4 DEF Restart, Fresh
  <2>3. \A l \in Logins : login'[l].at = "done" \/ login[l].at = "done" =>
                            login'[l] = login[l]
    BY <1>4 DEF Restart, Idle
  <2> QED
    BY <1>0, <2>1, <2>2, <2>3, CallsWait
<1> QED
  BY <1>1, <1>2, <1>3, <1>4 DEF Next, vars, Tick, BeginLogin

\* A call runs as the user of its cookie's login and of no other, with a
\* session neither expired nor logged out before it came, or as nobody for a
\* reason (sessionMiddleware, Logout).
THEOREM CallsAreServedAsOwner == Spec => []ServedAsOwner
<1>1. Init => Inv /\ CallInv
  BY InitInv, CallInit
<1>2. Inv /\ CallInv /\ [Next]_vars => Inv' /\ CallInv'
  BY NextInv, CallStep
<1>3. CallInv => ServedAsOwner
  BY DEF CallInv, CallsRight, ServedAsOwner, Served
<1> QED
  BY <1>1, <1>2, <1>3, PTL DEF Spec
=============================================================================
