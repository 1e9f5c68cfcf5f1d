--------------------------- MODULE MCEnterpriseSync ---------------------------
(* An instance of EnterpriseSync for TLC.                                      *)
EXTENDS EnterpriseSync

CONSTANTS t1, t2, k1, k2, n1, n2, v1, v2

\* Two mappings with a target each, or with one target.
Apart == <<t1, t2>>
Together == <<t1, t1>>

\* Names of one's own, or one name for both keys.
Own(k) == IF k = k1 THEN n1 ELSE n2
One(k) == n1

\* A vault with one key per mapping, and with two.
Single == [k \in Keys |-> IF k = k1 THEN v1 ELSE Absent]
Double == [k \in Keys |-> IF k = k1 THEN v1 ELSE v2]

Scene(style, target, N(_), vault, bare, runs) ==
  [style |-> style, target |-> target, bare |-> bare, runs |-> runs,
   name |-> [m \in 1..Len(target) |-> [k \in Keys |-> N(k)]],
   vault |-> [m \in 1..Len(target) |-> vault], keys |-> Present(vault)]

\* Two runs, one after the other or at one time; one run of two mappings, with a target
\* each, one of them an app without services, or with one target; and one run of two
\* keys that come to one name.
MCScenes ==
       {Scene("create", <<t1>>, Own, Single, {}, 2),
        Scene("lenient", <<t1>>, Own, Single, {}, 1),
        Scene("spec", Apart, Own, Single, {t2}, 1)}
  \cup {Scene(s, Together, Own, Single, {}, 1) : s \in {"each", "replace"}}
  \cup {Scene(s, <<t1>>, One, Double, {}, 1) : s \in {"create", "patch", "graphql", "group"}}
=============================================================================
