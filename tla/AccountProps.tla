---------------------------- MODULE AccountProps ----------------------------
(***************************************************************************)
(* What holds of users, sessions and the calls made with them while logins *)
(* overlap, cookies expire and the process restarts, over Accounts.        *)
(***************************************************************************)
EXTENDS Accounts

Handles(base) == {base} \cup {Append(base, n) : n \in 2..MaxHandleAttempts}

\* Every user is one identity and one handle, whatever logins overlap.  A login
\* goes on only with the assertion of an identity of a domain the instance
\* accepts, in its time, for a nonce that this server sent out, had not let
\* expire and would still verify, whatever restarts came between; nothing says
\* that this login began with it.  A session belongs to the user with that
\* identity (CompleteLogin, VerifyNonce, getEnvOrGeneratedSecret, UpsertUser).
SessionsEarned ==
  /\ \A u, v \in users : u # v => /\ u.id # v.id
                                  /\ u.identity # v.identity
                                  /\ u.handle # v.handle
  /\ \A l \in Logins : login[l].at \in {"find", "insert", "reread", "random"} =>
       LET a == login[l].assertion IN
       /\ accepted \in {a.identity.domain, NoDomain}
       /\ a.nonce \in minted /\ a.nonce.secret = secret
       /\ login[l].checked < a.nonce.expires
       /\ a.expires = Nil \/ login[l].checked <= a.expires
  /\ \A s \in sessions : \E u \in users :
       u.id = s.user /\ u.identity = login[s.token].identity

\* A login whose assertion was accepted is refused only when every handle it
\* would try is a user's: it loses no race to another login of the same person
\* or to people who want the same handle (UpsertUser).
AcceptedLoginSucceeds ==
  \A l \in Logins :
    login[l].at = "refused" /\ "base" \in DOMAIN login[l] =>
      Handles(login[l].base) \subseteq {u.handle : u \in users}

\* A call is made as the user of its cookie, and then the session had not
\* expired when it was looked up nor been logged out when the call arrived; or
\* as nobody, and then the session had expired, somebody logged out with that
\* very cookie, or the database failed (sessionMiddleware, Logout).
ServedAsOwner ==
  \A r \in Requests : request[r].at = "running" =>
    LET q == request[r]
        s == login[q.cookie]
    IN  IF q.as # Nil
        THEN q.as = s.user /\ q.looked < s.expires /\ ~q.late
        ELSE \/ q.faulty
             \/ q.looked >= s.expires
             \/ LoggedOut(q.cookie)
=============================================================================
