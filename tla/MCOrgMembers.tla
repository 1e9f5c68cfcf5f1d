---------------------------- MODULE MCOrgMembers ----------------------------
(* Instances of OrgMembers for TLC.                                        *)
EXTENDS OrgMembers, TLC

CONSTANTS own, dev, u1, u2, n1, e1, e2

MCRole == {own, dev}
MCUser == {u1, u2, n1}
MCEmail == {e1, e2}
MCFounders == [owner |-> u1, other |-> u2]

\* A team that makes its member an admin beside an owner who is the only
\* other admin; and a plain team with an invite that is pending.
MCFounding ==
  {[flags |-> {}, teamRole |-> own, roster |-> {u2}, invited |-> {}],
   [flags |-> {"admin"}, teamRole |-> dev, roster |-> {u1}, invited |-> {e1}]}

MCOneRole == {[flags |-> {}, teamRole |-> NoRole, roster |-> {}, invited |-> {}]}
MCOps == Op
HandlerSymmetry == Permutations(Handler)
=============================================================================
