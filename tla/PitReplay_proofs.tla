-------------------------- MODULE PitReplay_proofs --------------------------
(***************************************************************************)
(* What the replay of a log computes: every key has the value of its       *)
(* newest row, at every position of the loop.                              *)
(*                                                                         *)
(* A pass over a log is a recursive function of the position. What it      *)
(* computes at every position is shown by induction on the position: the   *)
(* set of good positions has 0 and grows, hence has them all.              *)
(***************************************************************************)
EXTENDS PitReplay, SequenceTheorems, WellFoundedInduction, TLAPS

-----------------------------------------------------------------------------
\* Induction on positions.

\* A set of natural numbers that is not empty has a least element.
LEMMA LeastNumber ==
  ASSUME NEW T \in SUBSET Nat, T # {}
  PROVE  \E n \in T : \A m \in T : n <= m
<1> DEFINE R == OpToRel(<, Nat)
<1>1. IsWellFoundedOn(R, Nat)
  BY NatLessThanWellFounded
<1>2. \A x, y \in Nat : x < y => <<x, y>> \in R
  BY DEF OpToRel
<1> HIDE DEF R
<1>3. PICK n \in T : \A m \in T : <<m, n>> \notin R
  BY <1>1, WFMin
<1>4. \A m \in T : n <= m
  <2> SUFFICES ASSUME NEW m \in T, ~(n <= m) PROVE FALSE
    OBVIOUS
  <2>1. m \in Nat /\ n \in Nat /\ m < n
    OBVIOUS
  <2> QED BY <1>2, <1>3, <2>1
<1> QED BY <1>4

\* A set that has 0, and i whenever it has i - 1, has all of 0..n.
LEMMA Positions ==
  ASSUME NEW n \in Nat, NEW G, 0 \in G, \A i \in 1..n : i - 1 \in G => i \in G
  PROVE  0..n \subseteq G
<1> DEFINE Bad == {i \in 0..n : i \notin G}
<1>1. Bad \in SUBSET Nat
  OBVIOUS
<1>2. Bad = {}
  <2> SUFFICES ASSUME Bad # {} PROVE FALSE
    OBVIOUS
  <2>1. PICK b \in Bad : \A m \in Bad : b <= m
    <3> HIDE DEF Bad
    <3> QED BY <1>1, LeastNumber
  <2>2. b \in 1..n /\ b - 1 \in 0..n /\ b - 1 \notin Bad
    BY <2>1
  <2> QED BY <2>1, <2>2
<1> QED BY <1>2

-----------------------------------------------------------------------------
\* The replay.

\* What the row of one key leaves in the snapshot.
Outcome(change) == IF change.operation = "DELETE" THEN Absent ELSE change.value

\* Row i is the newest row of key k among the first n.
NewestOf(rows, n, k, i) ==
  /\ i \in 1..n
  /\ k \in DOMAIN rows[i].changes
  /\ \A j \in (i + 1)..n : k \notin DOMAIN rows[j].changes

\* The snapshot gives every key what its newest row among the first n says.
Tells(rows, n, snap) ==
  /\ snap \in Snapshot
  /\ \A k \in Key :
       \/ snap[k] = Absent /\ \A i \in 1..n : k \notin DOMAIN rows[i].changes
       \/ \E i \in 1..n : NewestOf(rows, n, k, i) /\ snap[k] = Outcome(rows[i].changes[k])

\* Only one snapshot tells what the first n rows say.
LEMMA TellsOne ==
  ASSUME NEW rows, NEW n \in Nat, NEW s, NEW t, Tells(rows, n, s), Tells(rows, n, t)
  PROVE  s = t
<1>1. \A k \in Key : s[k] = t[k]
  <2> TAKE k \in Key
  <2>1. \A i, j \in 1..n : NewestOf(rows, n, k, i) /\ NewestOf(rows, n, k, j) => i = j
    BY DEF NewestOf
  <2> QED BY <2>1 DEF Tells, NewestOf
<1> QED BY <1>1 DEF Tells, Snapshot

\* No row leaves the empty snapshot.
LEMMA TellsNothing ==
  ASSUME NEW rows
  PROVE  Tells(rows, 0, EmptySnapshot)
BY DEF Tells, EmptySnapshot, Snapshot

\* The next row takes the snapshot one position on.
LEMMA TellsNext ==
  ASSUME NEW rows, NEW n \in Nat \ {0}, NEW s, Tells(rows, n - 1, s),
         rows[n].changes \in ChangeSet
  PROVE  Tells(rows, n, ApplyChanges(s, rows[n].changes))
<1> DEFINE t == ApplyChanges(s, rows[n].changes)
<1> DEFINE changes == rows[n].changes
<1>1. \A k \in DOMAIN changes : Outcome(changes[k]) \in Value \cup {Absent}
  BY DEF ChangeSet, Change, Outcome
<1>2. \A k \in Key : t[k] = IF k \in DOMAIN changes THEN Outcome(changes[k]) ELSE s[k]
  BY DEF ApplyChanges, Outcome
<1>3. t \in Snapshot
  BY <1>1 DEF ApplyChanges, Outcome, Snapshot, Tells
<1>4. ASSUME NEW k \in Key
      PROVE  \/ t[k] = Absent /\ \A i \in 1..n : k \notin DOMAIN rows[i].changes
             \/ \E i \in 1..n : NewestOf(rows, n, k, i) /\ t[k] = Outcome(rows[i].changes[k])
  <2>1. CASE k \in DOMAIN changes
    <3>1. NewestOf(rows, n, k, n)
      BY <2>1 DEF NewestOf
    <3> QED BY <3>1, <2>1, <1>2
  <2>2. CASE k \notin DOMAIN changes
    <3>1. t[k] = s[k]
      BY <1>2, <2>2
    <3>2. CASE s[k] = Absent /\ \A i \in 1..(n - 1) : k \notin DOMAIN rows[i].changes
      <4>1. \A i \in 1..n : i = n \/ i \in 1..(n - 1)
        OBVIOUS
      <4> QED BY <3>1, <3>2, <2>2, <4>1
    <3>3. CASE \E i \in 1..(n - 1) : NewestOf(rows, n - 1, k, i) /\ s[k] = Outcome(rows[i].changes[k])
      <4>1. PICK i \in 1..(n - 1) : NewestOf(rows, n - 1, k, i) /\ s[k] = Outcome(rows[i].changes[k])
        BY <3>3
      <4>2. \A j \in (i + 1)..n : j = n \/ j \in (i + 1)..(n - 1)
        OBVIOUS
      <4>3. NewestOf(rows, n, k, i)
        BY <4>1, <4>2, <2>2 DEF NewestOf
      <4> QED BY <4>1, <4>3, <3>1
    <3> QED BY <3>2, <3>3 DEF Tells
  <2> QED BY <2>1, <2>2
<1> HIDE DEF t
<1>5. Tells(rows, n, t)
  BY <1>3, <1>4 DEF Tells
<1> QED BY <1>5 DEF t


\* The replay loop goes on for every log: its map exists, is EmptySnapshot at
\* the start, and takes one row a turn.
LEMMA ReplayRuns ==
  ASSUME NEW rows, Len(rows) \in Nat, \A i \in 1..Len(rows) : rows[i].changes \in ChangeSet
  PROVE  \E f \in [0..Len(rows) -> Snapshot] :
           /\ f[0] = EmptySnapshot
           /\ \A i \in 1..Len(rows) : f[i] = ApplyChanges(f[i - 1], rows[i].changes)
           /\ \A i \in 0..Len(rows) : Tells(rows, i, f[i])
           /\ Replay(rows) = f[Len(rows)]
<1> DEFINE L == Len(rows)
<1> DEFINE f == [i \in 0..L |-> CHOOSE s : Tells(rows, i, s)]
<1> DEFINE Good == {i \in 0..L : Tells(rows, i, f[i])}
<1>1. 0..L \subseteq Good
  <2>1. 0 \in Good
    BY TellsNothing
  <2>2. ASSUME NEW i \in 1..L, i - 1 \in Good
        PROVE  i \in Good
    <3>1. Tells(rows, i - 1, f[i - 1])
      BY <2>2
    <3>2. \E s : Tells(rows, i, s)
      <4> HIDE DEF f
      <4> QED BY <3>1, TellsNext
    <3> QED BY <3>2
  <2> HIDE DEF Good
  <2> QED BY <2>1, <2>2, Positions
<1>2. \A i \in 0..L : Tells(rows, i, f[i]) /\ f[i] \in Snapshot
  BY <1>1 DEF Tells
<1>3. f \in [0..L -> Snapshot]
  BY <1>2
<1>4. f[0] = EmptySnapshot
  <2> HIDE DEF f
  <2>1. Tells(rows, 0, f[0])
    BY <1>2
  <2> QED BY <2>1, TellsNothing, TellsOne
<1>5. \A i \in 1..L : f[i] = ApplyChanges(f[i - 1], rows[i].changes)
  <2> HIDE DEF f
  <2> TAKE i \in 1..L
  <2>1. Tells(rows, i, ApplyChanges(f[i - 1], rows[i].changes))
    BY <1>2, TellsNext
  <2> QED BY <2>1, <1>2, TellsOne
<1> HIDE DEF f
<1> DEFINE after == CHOOSE h : h = [i \in 0..L |->
              IF i = 0 THEN EmptySnapshot ELSE ApplyChanges(h[i - 1], rows[i].changes)]
<1>6. f = [i \in 0..L |->
              IF i = 0 THEN EmptySnapshot ELSE ApplyChanges(f[i - 1], rows[i].changes)]
  BY <1>3, <1>4, <1>5
<1>7. after = [i \in 0..L |->
              IF i = 0 THEN EmptySnapshot ELSE ApplyChanges(after[i - 1], rows[i].changes)]
  BY <1>6
<1>8. Replay(rows) = after[L]
  BY DEF Replay
<1> HIDE DEF after
<1>9. \A i \in 0..L : after[i] = f[i]
  <2> DEFINE Same == {i \in 0..L : after[i] = f[i]}
  <2>1. 0 \in Same
    BY <1>4, <1>7
  <2>2. \A i \in 1..L : i - 1 \in Same => i \in Same
    BY <1>5, <1>7
  <2> HIDE DEF Same
  <2>3. 0..L \subseteq Same
    BY <2>1, <2>2, Positions
  <2> QED BY <2>3 DEF Same
<1> QED BY <1>2, <1>3, <1>4, <1>5, <1>8, <1>9

\* A replay tells, for every key, what its newest row says.
LEMMA ReplayTells ==
  ASSUME NEW rows, Len(rows) \in Nat, \A i \in 1..Len(rows) : rows[i].changes \in ChangeSet
  PROVE  Tells(rows, Len(rows), Replay(rows))
BY ReplayRuns

\* Two tables with the same first n rows tell the same of them.
LEMMA TellsSame ==
  ASSUME NEW rows, NEW other, NEW n \in Nat, NEW s, Tells(other, n, s),
         \A i \in 1..n : other[i] = rows[i]
  PROVE  Tells(rows, n, s)
<1>1. \A k \in Key, i \in 1..n : NewestOf(other, n, k, i) => NewestOf(rows, n, k, i)
  BY DEF NewestOf
<1> QED BY <1>1 DEF Tells

\* The replay of an empty log is the empty snapshot.
LEMMA ReplayEmpty == Replay(<<>>) = EmptySnapshot
<1> DEFINE none == <<>>
<1>1. Len(none) = 0
  OBVIOUS
<1> HIDE DEF none
<1>2. Tells(none, 0, Replay(none))
  BY <1>1, ReplayTells
<1>3. Replay(none) = EmptySnapshot
  BY <1>2, TellsNothing, TellsOne
<1> QED BY <1>3 DEF none

\* A new row is applied to what the rows before it gave.
LEMMA ReplayAppend ==
  ASSUME NEW R, NEW rows \in Seq(R), NEW e \in R, \A r \in R : r.changes \in ChangeSet
  PROVE  Replay(Append(rows, e)) = ApplyChanges(Replay(rows), e.changes)
<1> DEFINE n == Len(rows)
           more == Append(rows, e)
<1>1. /\ n \in Nat /\ Len(more) = n + 1 /\ more[n + 1] = e
      /\ \A i \in 1..n : more[i] = rows[i] /\ rows[i].changes \in ChangeSet
  OBVIOUS
<1>2. \A i \in 1..(n + 1) : more[i].changes \in ChangeSet
  <2> TAKE i \in 1..(n + 1)
  <2>1. i = n + 1 \/ i \in 1..n
    BY <1>1
  <2> HIDE DEF more, n
  <2> QED BY <1>1, <2>1
<1> HIDE DEF more
<1>3. Tells(rows, n, Replay(rows))
  BY <1>1, ReplayTells
<1> HIDE DEF n
<1>4. Tells(more, n, Replay(rows))
  BY <1>1, <1>3, TellsSame
<1>5. Tells(more, n + 1, ApplyChanges(Replay(rows), e.changes))
  <2> DEFINE m == n + 1
  <2>1. m \in Nat \ {0} /\ m - 1 = n /\ more[m].changes \in ChangeSet /\ more[m] = e
    BY <1>1, <1>2
  <2> HIDE DEF m
  <2>2. Tells(more, m, ApplyChanges(Replay(rows), more[m].changes))
    BY <1>4, <2>1, TellsNext
  <2> QED BY <2>1, <2>2 DEF m
<1>6. Tells(more, n + 1, Replay(more))
  BY <1>1, <1>2, ReplayTells
<1>7. Replay(more) = ApplyChanges(Replay(rows), e.changes)
  BY <1>1, <1>5, <1>6, TellsOne
<1> QED BY <1>7 DEF more
-----------------------------------------------------------------------------
\* The selection of rows.

\* The rows gathered at each of the first n turns of the selection.
Gathering(h, rows, keep, n) ==
  h = [i \in 0..n |->
         IF i = 0 THEN <<>> ELSE IF i \in keep THEN Append(h[i - 1], rows[i]) ELSE h[i - 1]]

\* The turns one by one.
LEMMA GatheringTurns ==
  ASSUME NEW rows, NEW keep, NEW n \in Nat, NEW h, Gathering(h, rows, keep, n)
  PROVE  /\ h[0] = <<>>
         /\ \A i \in 1..n : h[i] = IF i \in keep THEN Append(h[i - 1], rows[i]) ELSE h[i - 1]
<1> DEFINE Turn(f, i) ==
      IF i = 0 THEN <<>> ELSE IF i \in keep THEN Append(f[i - 1], rows[i]) ELSE f[i - 1]
<1> DEFINE all == [i \in 0..n |-> Turn(h, i)]
<1>1. h = all BY DEF Gathering
<1>2. \A i \in 0..n : all[i] = Turn(h, i) OBVIOUS
<1> HIDE DEF all
<1>3. \A i \in 0..n : h[i] = Turn(h, i) BY <1>1, <1>2
<1>4. h[0] = Turn(h, 0) BY <1>3
<1>5. ASSUME NEW i \in 1..n
      PROVE  h[i] = IF i \in keep THEN Append(h[i - 1], rows[i]) ELSE h[i - 1]
  <2>1. i \in 0..n /\ i # 0 OBVIOUS
  <2>2. h[i] = Turn(h, i) BY <1>3, <2>1
  <2> QED BY <2>1, <2>2
<1> QED BY <1>4, <1>5

\* The selection goes on to the end of every log.
LEMMA RowsAtRuns ==
  ASSUME NEW rows, Len(rows) \in Nat, NEW keep
  PROVE  \E h : Gathering(h, rows, keep, Len(rows)) /\ RowsAt(rows, keep) = h[Len(rows)]
<1> DEFINE L == Len(rows)
           Goes == {n \in 0..L : \E h : Gathering(h, rows, keep, n)}
<1>1. 0 \in Goes
  <2> DEFINE h == [i \in 0..0 |-> <<>>]
  <2>1. h = [i \in 0..0 |->
               IF i = 0 THEN <<>> ELSE IF i \in keep THEN Append(h[i - 1], rows[i]) ELSE h[i - 1]]
    OBVIOUS
  <2>2. Gathering(h, rows, keep, 0) BY <2>1 DEF Gathering
  <2> QED BY <2>2
<1>2. ASSUME NEW n \in 1..L, n - 1 \in Goes PROVE n \in Goes
  <2>1. PICK g : Gathering(g, rows, keep, n - 1) BY <1>2
  <2> DEFINE Turn(f, i) ==
        IF i = 0 THEN <<>> ELSE IF i \in keep THEN Append(f[i - 1], rows[i]) ELSE f[i - 1]
  <2> DEFINE h == [i \in 0..n |-> IF i = n THEN Turn(g, n) ELSE g[i]]
  <2>2. /\ g[0] = <<>>
        /\ \A i \in 1..(n - 1) :
             g[i] = IF i \in keep THEN Append(g[i - 1], rows[i]) ELSE g[i - 1]
    <3> DEFINE m == n - 1
    <3>1. m \in Nat
      OBVIOUS
    <3>2. Gathering(g, rows, keep, m)
      BY <2>1
    <3> HIDE DEF m, Turn, h
    <3>3. /\ g[0] = <<>>
          /\ \A i \in 1..m : g[i] = IF i \in keep THEN Append(g[i - 1], rows[i]) ELSE g[i - 1]
      BY <3>1, <3>2, GatheringTurns
    <3> QED BY <3>3 DEF m
  <2>0. h[n] = Turn(g, n) /\ \A i \in 0..(n - 1) : h[i] = g[i] OBVIOUS
  <2>4. h = [i \in 0..n |-> h[i]] OBVIOUS
  <2> HIDE DEF h
  <2>7. n # 0 /\ n - 1 \in 0..(n - 1) OBVIOUS
  <2>3. \A i \in 0..n : h[i] = Turn(h, i)
    <3> TAKE i \in 0..n
    <3>1. CASE i = n
      <4>1. h[n - 1] = g[n - 1] BY <2>0, <2>7
      <4> QED BY <2>0, <2>7, <3>1, <4>1
    <3>2. CASE i = 0
      <4>1. h[0] = g[0] BY <2>0
      <4> QED BY <2>2, <3>2, <4>1
    <3>3. CASE i \in 1..(n - 1)
      <4>1. h[i] = g[i] /\ h[i - 1] = g[i - 1] /\ i # 0 BY <2>0, <3>3
      <4> QED BY <2>2, <3>3, <4>1
    <3> QED BY <3>1, <3>2, <3>3
  <2>5. [i \in 0..n |-> h[i]] = [i \in 0..n |-> Turn(h, i)] BY <2>3
  <2>6. Gathering(h, rows, keep, n) BY <2>4, <2>5 DEF Gathering
  <2> QED BY <2>6
<1>3. L \in Goes
  <2>1. L \in Nat /\ L \in 0..L OBVIOUS
  <2> HIDE DEF Goes, L
  <2>2. 0..L \subseteq Goes BY <1>1, <1>2, <2>1, Positions
  <2> QED BY <2>1, <2>2
<1> DEFINE at == CHOOSE h : h = [i \in 0..L |->
              IF i = 0 THEN <<>> ELSE IF i \in keep THEN Append(h[i - 1], rows[i]) ELSE h[i - 1]]
<1>4. RowsAt(rows, keep) = at[L] BY DEF RowsAt
<1>5. \E h : h = [i \in 0..L |->
              IF i = 0 THEN <<>> ELSE IF i \in keep THEN Append(h[i - 1], rows[i]) ELSE h[i - 1]]
  BY <1>3 DEF Gathering
<1>6. Gathering(at, rows, keep, L) BY <1>5 DEF Gathering
<1> HIDE DEF at
<1> QED BY <1>4, <1>6

\* sel has rows at positions kept among the first n, all of them, and ends
\* with the last one.
Selects(sel, rows, keep, n) ==
  /\ \A j \in 1..Len(sel) : \E i \in keep \cap (1..n) : sel[j] = rows[i]
  /\ \A i \in keep \cap (1..n) : \E j \in 1..Len(sel) : sel[j] = rows[i]
  /\ Len(sel) # 0 =>
       \E i \in keep \cap (1..n) :
         sel[Len(sel)] = rows[i] /\ \A m \in (i + 1)..n : m \notin keep

\* A selection has exactly the rows kept, the last of them last.
LEMMA RowsAtSelects ==
  ASSUME NEW R, NEW rows \in Seq(R), NEW keep
  PROVE  RowsAt(rows, keep) \in Seq(R) /\ Selects(RowsAt(rows, keep), rows, keep, Len(rows))
<1> DEFINE L == Len(rows)
<1>0. L \in Nat /\ \A i \in 1..L : rows[i] \in R OBVIOUS
<1>1. PICK h : Gathering(h, rows, keep, L) /\ RowsAt(rows, keep) = h[L] BY <1>0, RowsAtRuns
<1> DEFINE Good == {n \in 0..L : h[n] \in Seq(R) /\ Selects(h[n], rows, keep, n)}
<1> HIDE DEF L
<1>2. h[0] = <<>>
  <2> DEFINE all == [i \in 0..L |-> IF i = 0 THEN <<>>
                       ELSE IF i \in keep THEN Append(h[i - 1], rows[i]) ELSE h[i - 1]]
  <2>1. h = all BY <1>1 DEF Gathering
  <2>2. all[0] = <<>> BY <1>0
  <2> HIDE DEF all
  <2> QED BY <2>1, <2>2
<1>3. \A n \in 1..L : h[n] = IF n \in keep THEN Append(h[n - 1], rows[n]) ELSE h[n - 1]
  BY <1>0, <1>1, GatheringTurns
<1>4. 0 \in Good
  <2> DEFINE none == <<>>
  <2>1. none \in Seq(R) /\ Len(none) = 0 /\ 0 \in 0..L BY <1>0
  <2> HIDE DEF none
  <2>2. Selects(none, rows, keep, 0) BY <2>1 DEF Selects
  <2>3. h[0] = none BY <1>2 DEF none
  <2> QED BY <2>1, <2>2, <2>3
<1>5. ASSUME NEW n \in 1..L, n - 1 \in Good PROVE n \in Good
  <2> DEFINE s == h[n - 1]
  <2>1. s \in Seq(R) /\ Selects(s, rows, keep, n - 1) BY <1>5
  <2>2. n \in Nat /\ n # 0 /\ rows[n] \in R /\ n \in 0..L BY <1>0
  <2> HIDE DEF s
  <2>3. CASE n \notin keep
    <3>1. h[n] = s BY <1>3, <2>3 DEF s
    <3>2. keep \cap (1..n) = keep \cap (1..(n - 1)) BY <2>2, <2>3
    <3>3. ASSUME NEW i \in keep \cap (1..n), \A m \in (i + 1)..(n - 1) : m \notin keep
          PROVE  \A m \in (i + 1)..n : m \notin keep
      BY <2>2, <2>3, <3>3
    <3>4. Selects(s, rows, keep, n) BY <2>1, <3>2, <3>3 DEF Selects
    <3> QED BY <2>1, <2>2, <3>1, <3>4
  <2>4. CASE n \in keep
    <3> DEFINE more == Append(s, rows[n])
    <3>1. h[n] = more BY <1>3, <2>4 DEF s
    <3>2. /\ more \in Seq(R) /\ Len(s) \in Nat /\ Len(more) = Len(s) + 1
          /\ more[Len(s) + 1] = rows[n] /\ \A j \in 1..Len(s) : more[j] = s[j]
      BY <2>1, <2>2
    <3> HIDE DEF more
    <3>3. \A j \in 1..Len(more) : j = Len(s) + 1 \/ j \in 1..Len(s) BY <3>2
    <3>4. \A i \in keep \cap (1..n) : i = n \/ i \in keep \cap (1..(n - 1)) BY <2>2
    <3>5. n \in keep \cap (1..n) /\ \A i \in keep \cap (1..(n - 1)) : i \in keep \cap (1..n)
      BY <2>2, <2>4
    <3>6. \A j \in 1..Len(more) : \E i \in keep \cap (1..n) : more[j] = rows[i]
      BY <2>1, <3>2, <3>3, <3>5 DEF Selects
    <3>7. \A i \in keep \cap (1..n) : \E j \in 1..Len(more) : more[j] = rows[i]
      <4> TAKE i \in keep \cap (1..n)
      <4>1. CASE i = n BY <3>2, <4>1
      <4>2. CASE i \in keep \cap (1..(n - 1))
        <5>1. PICK j \in 1..Len(s) : s[j] = rows[i] BY <2>1, <4>2 DEF Selects
        <5> QED BY <5>1, <3>2
      <4> QED BY <3>4, <4>1, <4>2
    <3>8. \A m \in (n + 1)..n : m \notin keep BY <2>2
    <3>9. Selects(more, rows, keep, n) BY <3>2, <3>5, <3>6, <3>7, <3>8 DEF Selects
    <3> QED BY <2>2, <3>1, <3>2, <3>9
  <2> QED BY <2>3, <2>4
<1>6. L \in Good
  <2> HIDE DEF Good
  <2>1. 0..L \subseteq Good BY <1>0, <1>4, <1>5, Positions
  <2> QED BY <1>0, <2>1
<1> QED BY <1>1, <1>6 DEF L
=============================================================================
