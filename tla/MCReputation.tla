---------------------------- MODULE MCReputation ----------------------------
EXTENDS ReputationProps, TLC

CONSTANTS alice, bob, carol, post, home, away

\* Carol wrote the post; alice and bob endorse it from two domains.
Domain == alice :> home @@ bob :> away @@ carol :> home
Writer == post :> carol

Symmetric == Permutations(Requests)
=============================================================================
