-------------------------- MODULE MCChangeRequests --------------------------
(* Instances of ChangeRequests for TLC: a requester with no other role, a  *)
(* manager and an admin, who both may request as well.                     *)
EXTENDS ChangeRequests, TLC

CONSTANTS k1, k2, v1, v2, dev, mgr, adm

MCKey == {k1, k2}
MCValue == {v1, v2}
MCUser == {dev, mgr, adm}
MCEditors == {dev, mgr, adm}
MCManagers == {mgr, adm}
MCAdmins == {adm}

Set(op, v) == [operation |-> op, value |-> v]
Only(k, c) == k :> c

\* An UPDATE of an environment variable with the CREATE of a secret, the
\* DELETE of that variable, and the same name created in both stores.
MCDirect ==
  {[env |-> Only(k1, Set("UPDATE", v1)), secret |-> Only(k2, Set("CREATE", v1))],
   [env |-> Only(k1, Set("DELETE", v1)), secret |-> NoChanges],
   [env |-> Only(k1, Set("CREATE", v2)), secret |-> Only(k1, Set("CREATE", v2))]}

\* An empty source, and one with a variable of another value.
MCSnapshots ==
  {[env |-> NoChanges, secret |-> NoChanges],
   [env |-> Only(k1, Set("UPDATE", v2)), secret |-> NoChanges]}

\* A colliding pair of one-item requests, for the race on a key name.
MCColliding ==
  {[env |-> Only(k1, Set("CREATE", v1)), secret |-> NoChanges],
   [env |-> NoChanges, secret |-> Only(k1, Set("CREATE", v2))]}

MCNoSnapshots == {}
HandlerSymmetry == Permutations(Handler)
RequestSymmetry == Permutations(Request)
=============================================================================
