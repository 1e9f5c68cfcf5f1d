--------------------------- MODULE MCVaultEntries ---------------------------
(* Instances of VaultEntries for TLC.                                      *)
EXTENDS VaultEntries, TLC

CONSTANTS k1, k2, v1, v2

MCKey == {k1, k2}
MCValue == {v1, v2}
MCNone == {}

Call(o, s, p) == [op |-> o, store |-> s, plan |-> p]
Set(o, v) == [operation |-> o, value |-> v]
Both(o, v, w) == (k1 :> Set(o, v)) @@ (k2 :> Set(o, w))

\* Every endpoint that keeps the names of the two stores apart: single calls
\* on a variable, batches on both stores over the same two names.
MCSequential ==
  {Call("create", "env", k1 :> Set("CREATE", v1)),
   Call("update", "env", k1 :> Set("UPDATE", v2)),
   Call("delete", "env", k1 :> Set("DELETE", v1)),
   Call("batchCreate", "env", Both("CREATE", v1, v2)),
   Call("batchDelete", "env", Both("DELETE", v1, v1)),
   Call("batchCreate", "secret", Both("CREATE", v1, v1)),
   Call("batchUpdate", "secret", Both("UPDATE", v1, v2)),
   Call("batchDelete", "secret", Both("DELETE", v1, v1))}

\* Calls on the variables that run into each other.
MCOverlapping ==
  {Call("create", "env", k1 :> Set("CREATE", v1)),
   Call("update", "env", k1 :> Set("UPDATE", v2)),
   Call("batchUpdate", "env", Both("UPDATE", v1, v2)),
   Call("batchDelete", "env", Both("DELETE", v1, v1))}

\* A secret, and a batch update of variables that uses its name.
MCNameTaken ==
  {Call("create", "secret", k1 :> Set("CREATE", v1)),
   Call("batchUpdate", "env", Both("UPDATE", v1, v1))}

\* A batch deletion of two names of which only one is ever created.
MCBatchDeletion ==
  {Call("create", "env", k1 :> Set("CREATE", v1)),
   Call("batchDelete", "env", Both("DELETE", v1, v1))}

HandlerSymmetry == Permutations(Handler)
=============================================================================
