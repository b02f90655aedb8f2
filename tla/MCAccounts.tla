----------------------------- MODULE MCAccounts -----------------------------
(***************************************************************************)
(* Two people called "ada", of two domains and with one user id, and       *)
(* somebody whose own name is the handle that the second of them is given. *)
(* In half of the behaviors the first handles are taken from the start.    *)
(***************************************************************************)
EXTENDS AccountProps, TLC

CONSTANTS l1, l2, r1, r2

Symmetry == Permutations(Logins) \cup Permutations(Requests)

Person(domain, uid) == [domain |-> domain, uid |-> uid]
Names(handle, claimed, display, uid) ==
  [handle |-> handle, claimed |-> claimed, display |-> display, uid |-> uid]

Ada == Person("home", "u1")
OtherAda == Person("away", "u1")
AdaTwo == Person("home", "u2")

MCIdentities == {Ada, OtherAda, AdaTwo}

MCSignals ==
  Ada :> Names(<<"ada">>, <<>>, <<>>, <<"u1">>) @@
  OtherAda :> Names(<<>>, <<"ada">>, <<"ada">>, <<"u1">>) @@
  AdaTwo :> Names(<<>>, <<>>, <<"ada", 2>>, <<"u2">>)

MCExpiries == {Nil, 0}

MCEarlier ==
  {[id |-> "first", identity |-> Person("home", "u8"), handle |-> <<"ada">>],
   [id |-> "second", identity |-> Person("home", "u9"), handle |-> <<"ada", 2>>]}
=============================================================================
