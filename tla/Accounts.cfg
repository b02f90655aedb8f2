CONSTANTS
  l1 = l1
  l2 = l2
  r1 = r1
  r2 = r2
  Nil = Nil
  NoDomain = NoDomain
  Logins = {l1, l2}
  Requests = {r1, r2}
  Identities <- MCIdentities
  Signals <- MCSignals
  Earlier <- MCEarlier
  Domains = {"home", "away"}
  Randoms = {99}
  Expiries <- MCExpiries
  MaxHandleAttempts = 2
  NonceTTL = 1
  SessionTTL = 1
  MaxTime = 2
  MaxRestarts = 1
  MaxNonces = 2
SPECIFICATION Spec
INVARIANTS SessionsEarned AcceptedLoginSucceeds ServedAsOwner
SYMMETRY Symmetry
CHECK_DEADLOCK FALSE
