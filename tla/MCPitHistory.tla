---------------------------- MODULE MCPitHistory ----------------------------
(* Instance of PitHistory for TLC: two keys, two values, four batches.     *)
EXTENDS PitHistory, TLC

CONSTANTS k1, k2, v1, v2

MCKey == {k1, k2}
MCValue == {v1, v2}

\* A create, an update of the same key to another value, a delete, and a
\* batch that touches both keys at once.
MCBatches ==
  {k1 :> [operation |-> "CREATE", value |-> v1],
   k1 :> [operation |-> "UPDATE", value |-> v2],
   k1 :> [operation |-> "DELETE", value |-> v1],
   (k1 :> [operation |-> "UPDATE", value |-> v1]) @@
     (k2 :> [operation |-> "CREATE", value |-> v1])}

\* PiT ids are interchangeable.
IdSymmetry == Permutations(PitId)
=============================================================================
