------------------------------ MODULE MCNotify ------------------------------
(* An instance of Notify for TLC. *)
EXTENDS NotifyProps, TLC

CONSTANTS alice, bob, home, other, post, c1, c2

\* Alice's post, a comment of bob's under it and one of alice's under that.
Home == post :> home
Thread == c1 :> post @@ c2 :> post
Path == c1 :> <<c1>> @@ c2 :> <<c1, c2>>
Writer == post :> alice @@ c1 :> bob @@ c2 :> alice

NobodyOrAll == {{}, {alice, bob}}

Symmetric == Permutations(Requests)
=============================================================================
