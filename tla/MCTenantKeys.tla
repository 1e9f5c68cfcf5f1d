---------------------------- MODULE MCTenantKeys ----------------------------
(* Instances of TenantKeys for TLC.                                        *)
EXTENDS TenantKeys, TLC

CONSTANTS c1, c2, w1, w2, h1, h2, a1, g1, k1, k2

\* Two processes, each with its worker and its kekCache.
MCHostOf == c1 :> h1 @@ w1 :> h1 @@ c2 :> h2 @@ w2 :> h2
MCProviderOf == a1 :> "aws-kms" @@ g1 :> "gcp-kms"

MCAllOps == Operation
MCJobOps == {"put", "attach", "detach", "breakGlass", "tenant"}

\* The two processes can change places, as a whole.
MCSwap == c1 :> c2 @@ c2 :> c1 @@ w1 :> w2 @@ w2 :> w1 @@ h1 :> h2 @@ h2 :> h1

MCKeys == Permutations({k1, k2})
Symmetry == MCKeys \cup {MCSwap @@ key : key \in MCKeys}
=============================================================================
