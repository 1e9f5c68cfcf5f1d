------------------------- MODULE PitHistory_proofs -------------------------
(***************************************************************************)
(* What the readers of the PiT history compute: the rows a moment selects, *)
(* the one pass of a range diff; and, for any number of writers, that the  *)
(* replay is the newest change of each key, that a range diff is exact,    *)
(* and that a settled past does not change.                                *)
(***************************************************************************)
EXTENDS PitHistory, PitReplay_proofs, FiniteSetTheorems

-----------------------------------------------------------------------------
\* The rows of a query, and the one pass of a range diff.

\* The first n rows are those that are not after t.
Cut(rows, t, n) ==
  /\ n \in 0..Len(rows)
  /\ \A i \in 1..n : rows[i].at <= t
  /\ \A i \in (n + 1)..Len(rows) : rows[i].at > t

\* The rows come in the order of their stamps.
Ordered(rows) == \A i, j \in DOMAIN rows : i <= j => rows[i].at <= rows[j].at

\* A table of PiTs: what the queries return.
Table(rows) ==
  /\ rows \in Seq([id : PitId, at : Int, changes : ChangeSet])
  /\ Ordered(rows)

\* The rows of a table have a stamp and the changes of a PiT.
LEMMA TableRows ==
  ASSUME NEW rows, Table(rows)
  PROVE  /\ Len(rows) \in Nat /\ DOMAIN rows = 1..Len(rows)
         /\ \A i \in 1..Len(rows) : rows[i].at \in Int /\ rows[i].changes \in ChangeSet
<1> DEFINE R == [id : PitId, at : Int, changes : ChangeSet]
<1>1. rows \in Seq(R)
  BY DEF Table
<1>2. \A r \in R : r.at \in Int /\ r.changes \in ChangeSet
  OBVIOUS
<1> HIDE DEF R
<1> QED BY <1>1, <1>2

\* Every moment cuts an ordered table in two.
LEMMA CutExists ==
  ASSUME NEW rows, Table(rows), NEW t \in Int
  PROVE  \E n : Cut(rows, t, n)
<1> DEFINE Late == {i \in 0..Len(rows) : \A j \in (i + 1)..Len(rows) : rows[j].at > t}
<1>1. Late \in SUBSET Nat /\ Len(rows) \in Late
  BY DEF Table
<1>2. PICK n \in Late : \A m \in Late : n <= m
  <2> HIDE DEF Late
  <2> QED BY <1>1, LeastNumber
<1>3. Len(rows) \in Nat /\ \A i \in 1..Len(rows) : rows[i].at \in Int
  BY TableRows
<1>4. ASSUME n # 0 PROVE rows[n].at <= t
  <2>0. n \in 1..Len(rows) /\ n - 1 \in 0..Len(rows) /\ ~(n <= n - 1)
    BY <1>3, <1>4
  <2>1. n \in 1..Len(rows) /\ n - 1 \in 0..Len(rows) /\ n - 1 \notin Late
    <3> HIDE DEF Late
    <3> QED BY <1>2, <2>0
  <2>2. PICK j \in n..Len(rows) : ~(rows[j].at > t)
    BY <2>1
  <2>3. j = n
    BY <1>2, <2>2, <2>1
  <2> QED BY <2>1, <2>2, <2>3, <1>3
<1>5. \A i \in 1..n : rows[i].at <= t
  <2> TAKE i \in 1..n
  <2>1. n # 0 /\ i \in DOMAIN rows /\ n \in DOMAIN rows /\ i <= n
    BY DEF Table
  <2>2. rows[i].at <= rows[n].at
    BY <2>1 DEF Table, Ordered
  <2> QED BY <2>1, <2>2, <1>3, <1>4 DEF Table
<1> QED BY <1>2, <1>5 DEF Cut

\* A query for the rows till a moment returns the rows before the cut.
LEMMA RowsTillCut ==
  ASSUME NEW rows, Table(rows), NEW t \in Int, NEW n, Cut(rows, t, n)
  PROVE  RowsTill(rows, t) = SubSeq(rows, 1, n)
<1> DEFINE L == Len(rows)
           keep == {i \in DOMAIN rows : rows[i].at < ExclusiveUpperBound(t)}
<1>0. L \in Nat /\ n \in 0..L /\ DOMAIN rows = 1..L /\ \A i \in 1..L : rows[i].at \in Int
  BY TableRows DEF Cut
<1>1. \A i \in 1..L : i \in keep <=> i <= n
  BY <1>0 DEF Cut, ExclusiveUpperBound
<1> HIDE DEF keep
<1>2. PICK h : Gathering(h, rows, keep, L) /\ RowsAt(rows, keep) = h[L]
  BY <1>0, RowsAtRuns
<1>3. h[0] = <<>> /\ \A i \in 1..L : h[i] = IF i \in keep THEN Append(h[i - 1], rows[i]) ELSE h[i - 1]
  <2> HIDE DEF L
  <2> QED BY <1>0, <1>2, GatheringTurns
<1> DEFINE first(i) == SubSeq(rows, 1, IF i <= n THEN i ELSE n)
           Same == {i \in 0..L : h[i] = first(i)}
<1>4. 0 \in Same
  <2>1. SubSeq(rows, 1, 0) = <<>> BY DEF Table
  <2>2. first(0) = SubSeq(rows, 1, 0) BY <1>0
  <2> HIDE DEF first
  <2> QED BY <1>0, <1>3, <2>1, <2>2
<1>5. ASSUME NEW i \in 1..L, i - 1 \in Same PROVE i \in Same
  <2>1. h[i - 1] = first(i - 1)
    BY <1>5
  <2>2. CASE i <= n
    <3>1. h[i] = Append(h[i - 1], rows[i])
      BY <1>1, <1>3, <2>2
    <3>2. first(i - 1) = SubSeq(rows, 1, i - 1) /\ first(i) = SubSeq(rows, 1, i)
      BY <1>0, <2>2
    <3>3. Append(SubSeq(rows, 1, i - 1), rows[i]) = SubSeq(rows, 1, i)
      BY <1>0, <2>2 DEF Table
    <3>4. h[i] = Append(SubSeq(rows, 1, i - 1), rows[i])
      BY <2>1, <3>1, <3>2
    <3> HIDE DEF first
    <3>5. h[i] = first(i)
      BY <3>2, <3>3, <3>4
    <3> QED BY <1>0, <3>5
  <2>3. CASE ~(i <= n)
    <3>1. h[i] = h[i - 1]
      BY <1>1, <1>3, <2>3
    <3>2. i - 1 <= n => i - 1 = n
      BY <1>0, <2>3
    <3>3. first(i) = SubSeq(rows, 1, n) /\ first(i - 1) = SubSeq(rows, 1, n)
      BY <2>3, <3>2
    <3> HIDE DEF first
    <3> QED BY <1>0, <2>1, <3>1, <3>3
  <2> QED BY <2>2, <2>3
<1>6. L \in Same
  <2> HIDE DEF Same, L
  <2>1. 0..L \subseteq Same BY <1>0, <1>4, <1>5, Positions
  <2> QED BY <1>0, <2>1
<1>7. h[L] = SubSeq(rows, 1, n)
  BY <1>0, <1>6
<1>8. RowsTill(rows, t) = RowsAt(rows, keep)
  BY DEF RowsTill, keep
<1> QED BY <1>2, <1>7, <1>8

\* The state till a moment tells what the rows before its cut say.
LEMMA StateTells ==
  ASSUME NEW rows, Table(rows), NEW t \in Int, NEW n, Cut(rows, t, n)
  PROVE  Tells(rows, n, StateTillTimestamp(rows, t))
<1> DEFINE part == SubSeq(rows, 1, n)
<1>1. n \in Nat /\ n <= Len(rows)
  BY TableRows DEF Cut
<1>2. Len(part) = n /\ \A i \in 1..n : part[i] = rows[i]
  BY <1>1 DEF Table
<1>3. \A i \in 1..n : part[i].changes \in ChangeSet
  BY <1>1, <1>2, TableRows
<1>4. StateTillTimestamp(rows, t) = Replay(part)
  BY RowsTillCut DEF StateTillTimestamp
<1> HIDE DEF part
<1> QED BY <1>1, <1>2, <1>3, <1>4, ReplayTells, TellsSame

\* The one pass of a range diff yields what two replays do.
LEMMA SinglePassIsTwoReplays ==
  ASSUME NEW rows, Table(rows), NEW from \in Int, NEW to \in Int, from <= to
  PROVE  SinglePass(rows, from, to) =
           [from |-> StateTillTimestamp(rows, from), to |-> StateTillTimestamp(rows, to)]
<1>1. PICK n : Cut(rows, from, n)
  BY CutExists
<1>2. PICK m : Cut(rows, to, m)
  BY CutExists
<1> DEFINE part == SubSeq(rows, 1, m)
<1>3. /\ Len(rows) \in Nat /\ n \in 0..Len(rows) /\ m \in 0..Len(rows)
      /\ \A i \in 1..Len(rows) : rows[i].at \in Int /\ rows[i].changes \in ChangeSet
  BY <1>1, <1>2, TableRows DEF Cut
<1>4. n <= m
  <2> SUFFICES ASSUME m < n PROVE FALSE
    BY <1>3
  <2>1. n \in 1..n /\ n \in (m + 1)..Len(rows)
    BY <1>3
  <2>2. rows[n].at <= from /\ rows[n].at > to /\ rows[n].at \in Int
    BY <2>1, <1>1, <1>2, <1>3 DEF Cut
  <2> QED BY <2>2
<1>5. PICK f \in [0..Len(rows) -> Snapshot] :
        /\ f[0] = EmptySnapshot
        /\ \A i \in 1..Len(rows) : f[i] = ApplyChanges(f[i - 1], rows[i].changes)
        /\ \A i \in 0..Len(rows) : Tells(rows, i, f[i])
  BY <1>3, ReplayRuns
<1>6. Len(part) = m /\ \A i \in 1..m : part[i] = rows[i]
  BY <1>3 DEF Table
<1>7. RowsTill(rows, to) = part
  BY <1>2, RowsTillCut
<1> HIDE DEF part
<1> DEFINE Start == [from |-> EmptySnapshot, to |-> EmptySnapshot]
<1> DEFINE Turn(acc, i) ==
             [from |-> IF part[i].at <= from THEN ApplyChanges(acc.from, part[i].changes)
                       ELSE acc.from,
              to   |-> ApplyChanges(acc.to, part[i].changes)]
<1> DEFINE Step(h) == [i \in 0..Len(part) |-> IF i = 0 THEN Start ELSE Turn(h[i - 1], i)]
<1> DEFINE both == [i \in 0..m |-> [from |-> f[IF i <= n THEN i ELSE n], to |-> f[i]]]
<1>8. both[0] = Start /\ \A i \in 1..m : both[i] = Turn(both[i - 1], i)
  <2>1. both[0] = Start
    BY <1>3, <1>5
  <2>2. ASSUME NEW i \in 1..m
        PROVE  both[i] = Turn(both[i - 1], i)
    <3>1. i \in 1..Len(rows) /\ i - 1 \in 0..m /\ i \in 0..m /\ part[i] = rows[i]
      BY <1>3, <1>6
    <3>2. f[i] = ApplyChanges(f[i - 1], part[i].changes)
      BY <1>5, <3>1
    <3>3. CASE i <= n
      <4>1. part[i].at <= from
        BY <1>1, <1>3, <3>1, <3>3 DEF Cut
      <4>2. both[i - 1] = [from |-> f[i - 1], to |-> f[i - 1]]
        BY <3>1, <3>3, <1>3
      <4>3. both[i] = [from |-> f[i], to |-> f[i]]
        BY <3>1, <3>3
      <4> HIDE DEF both
      <4> QED BY <3>2, <4>1, <4>2, <4>3
    <3>4. CASE ~(i <= n)
      <4>1. ~(part[i].at <= from)
        <5>1. i \in (n + 1)..Len(rows)
          BY <3>1, <3>4, <1>3
        <5> QED BY <5>1, <1>1, <1>3, <3>1 DEF Cut
      <4>2. both[i - 1] = [from |-> f[n], to |-> f[i - 1]]
        <5>1. (i - 1 <= n => i - 1 = n)
          BY <3>1, <3>4, <1>3
        <5> QED BY <3>1, <5>1
      <4>3. both[i] = [from |-> f[n], to |-> f[i]]
        BY <3>1, <3>4
      <4> HIDE DEF both
      <4> QED BY <3>2, <4>1, <4>2, <4>3
    <3> QED BY <3>3, <3>4
  <2> HIDE DEF both, Start, Turn
  <2> QED BY <2>1, <2>2
<1>9. both[m] = [from |-> f[n], to |-> f[m]] /\ DOMAIN both = 0..m
  BY <1>3, <1>4
<1>10. both = [i \in DOMAIN both |-> both[i]]
  OBVIOUS
<1> HIDE DEF both, Start, Turn
<1>11. both = Step(both)
  BY <1>3, <1>6, <1>8, <1>9, <1>10
<1> DEFINE pass == CHOOSE h : h = Step(h)
<1>12. pass = Step(pass)
  BY <1>11
<1>13. SinglePass(rows, from, to) = pass[Len(part)]
  BY <1>7 DEF SinglePass, Start, Turn
<1> HIDE DEF pass
<1>14. \A i \in 0..m : pass[i] = both[i]
  <2> DEFINE Same == {i \in 0..m : pass[i] = both[i]}
  <2>1. 0 \in Same
    BY <1>3, <1>6, <1>8, <1>12
  <2>2. \A i \in 1..m : i - 1 \in Same => i \in Same
    BY <1>3, <1>6, <1>8, <1>12
  <2> HIDE DEF Same
  <2>0. m \in Nat
    BY <1>3
  <2>3. 0..m \subseteq Same
    BY <2>0, <2>1, <2>2, Positions
  <2> QED BY <2>3 DEF Same
<1>15. SinglePass(rows, from, to) = [from |-> f[n], to |-> f[m]]
  BY <1>3, <1>6, <1>9, <1>13, <1>14
<1>16. f[n] = StateTillTimestamp(rows, from)
  BY <1>1, <1>3, <1>5, StateTells, TellsOne
<1>17. f[m] = StateTillTimestamp(rows, to)
  BY <1>2, <1>3, <1>5, StateTells, TellsOne
<1> QED BY <1>15, <1>16, <1>17

-----------------------------------------------------------------------------
\* The table under concurrent writers.

\* Types.
TypeOK ==
  /\ now \in Time
  /\ log \in Seq(Pit)
  /\ open \in [Writer -> Pit \cup {NotOpen}]

\* No stamp lies ahead of the clock.
PastOnly ==
  /\ \A i \in DOMAIN log : log[i].at <= now
  /\ \A w \in Writer : open[w] # NotOpen => open[w].at <= now

\* An id is given once.
IdsGivenOnce ==
  /\ \A i, j \in DOMAIN log : log[i].id = log[j].id => i = j
  /\ \A w \in Writer, i \in DOMAIN log : open[w] # NotOpen => open[w].id # log[i].id
  /\ \A v, w \in Writer :
       open[v] # NotOpen /\ open[w] # NotOpen /\ open[v].id = open[w].id => v = w

Inv == TypeOK /\ Ordered(log) /\ PastOnly /\ IdsGivenOnce

\* What a typed PiT has.
LEMMA PitTyped ==
  ASSUME NEW pit \in Pit
  PROVE  /\ pit.id \in PitId /\ pit.at \in Time /\ pit.at \in Int /\ pit.changes \in ChangeSet
         /\ pit \in [id : PitId, at : Int, changes : ChangeSet]
<1>1. Time \subseteq Int
  BY PitHistoryAssumption DEF Time
<1> QED BY <1>1, PitHistoryAssumption DEF Pit

\* The rows of the history, and that they are a table.
LEMMA LogTyped ==
  ASSUME Inv
  PROVE  /\ Len(log) \in Nat /\ DOMAIN log = 1..Len(log)
         /\ \A i \in 1..Len(log) : log[i] \in Pit
         /\ \A i \in 1..Len(log) : log[i].at \in Int /\ log[i].at <= now
         /\ now \in Int
         /\ Table(log)
<1>1. log \in Seq(Pit) /\ now \in Int
  BY PitHistoryAssumption DEF Inv, TypeOK, Time
<1>2. Len(log) \in Nat /\ DOMAIN log = 1..Len(log) /\ \A i \in 1..Len(log) : log[i] \in Pit
  BY <1>1
<1>3. \A i \in 1..Len(log) : log[i] \in [id : PitId, at : Int, changes : ChangeSet]
  BY <1>2, PitTyped
<1>4. log \in Seq([id : PitId, at : Int, changes : ChangeSet])
  <2> DEFINE R == [id : PitId, at : Int, changes : ChangeSet]
  <2>1. \A i \in 1..Len(log) : log[i] \in R
    BY <1>3
  <2> HIDE DEF R
  <2>2. log \in [1..Len(log) -> R]
    BY <1>1, <2>1
  <2>3. log \in Seq(R)
    BY <1>2, <2>2, SeqDef
  <2> QED BY <2>3 DEF R
<1>5. \A i \in 1..Len(log) : log[i].at \in Int /\ log[i].at <= now
  BY <1>2, PitTyped DEF Inv, PastOnly
<1> QED BY <1>1, <1>2, <1>4, <1>5 DEF Table, Inv

LEMMA LogTable == Inv => Table(log)
BY LogTyped

\* Where a commit puts its row.
LEMMA Inserted ==
  ASSUME NEW s \in Seq(Pit), NEW i \in 1..(Len(s) + 1), NEW e \in Pit
  PROVE  LET t == InsertAt(s, i, e) IN
         /\ t \in Seq(Pit) /\ Len(t) = Len(s) + 1
         /\ \A j \in 1..(i - 1) : t[j] = s[j]
         /\ t[i] = e
         /\ \A j \in (i + 1)..(Len(s) + 1) : t[j] = s[j - 1]
<1> DEFINE a == SubSeq(s, 1, i - 1)
           b == SubSeq(s, i, Len(s))
<1>0. Len(s) \in Nat /\ i \in Nat
  OBVIOUS
<1>1. a \in Seq(Pit) /\ Len(a) = i - 1 /\ \A j \in 1..(i - 1) : a[j] = s[j]
  BY <1>0
<1>2. b \in Seq(Pit) /\ Len(b) = Len(s) + 1 - i /\ \A j \in 1..(Len(s) + 1 - i) : b[j] = s[i + j - 1]
  BY <1>0
<1>3. InsertAt(s, i, e) = a \o <<e>> \o b
  BY DEF InsertAt
<1> HIDE DEF a, b
<1> DEFINE c == a \o <<e>>
<1>4. c \in Seq(Pit) /\ Len(c) = i /\ c[i] = e /\ \A j \in 1..(i - 1) : c[j] = s[j]
  <2>1. c \in Seq(Pit) /\ Len(c) = i
    BY <1>0, <1>1
  <2>2. c[i] = e
    BY <1>0, <1>1
  <2>3. \A j \in 1..(i - 1) : c[j] = a[j]
    BY <1>0, <1>1
  <2> HIDE DEF c
  <2> QED BY <2>1, <2>2, <2>3, <1>1
<1> HIDE DEF c
<1> DEFINE t == c \o b
<1>5. t \in Seq(Pit) /\ Len(t) = Len(s) + 1
  <2>1. c \in Seq(Pit) /\ b \in Seq(Pit) /\ Len(c) = i /\ Len(b) = Len(s) + 1 - i
    BY <1>2, <1>4
  <2> QED BY <1>0, <2>1
<1>6. \A j \in 1..i : t[j] = c[j]
  BY <1>0, <1>2, <1>4
<1>7. \A j \in (i + 1)..(Len(s) + 1) : t[j] = b[j - i]
  BY <1>0, <1>2, <1>4
<1>8. \A j \in (i + 1)..(Len(s) + 1) : b[j - i] = s[j - 1]
  <2> TAKE j \in (i + 1)..(Len(s) + 1)
  <2>1. j - i \in 1..(Len(s) + 1 - i) /\ i + (j - i) - 1 = j - 1
    BY <1>0
  <2> QED BY <1>2, <2>1
<1>9. InsertAt(s, i, e) = t
  BY <1>3 DEF c
<1> HIDE DEF t
<1>10. \A j \in 1..(i - 1) : j \in 1..i
  BY <1>0
<1>11. i \in 1..i
  BY <1>0
<1> QED BY <1>4, <1>5, <1>6, <1>7, <1>8, <1>9, <1>10, <1>11

-----------------------------------------------------------------------------
\* The invariant.

LEMMA InvInit == Init => Inv
<1> SUFFICES ASSUME Init PROVE Inv
  OBVIOUS
<1>1. TypeOK
  BY PitHistoryAssumption DEF Init, TypeOK, Time
<1>2. DOMAIN log = {} /\ \A w \in Writer : open[w] = NotOpen
  BY DEF Init
<1> QED BY <1>1, <1>2 DEF Inv, Ordered, PastOnly, IdsGivenOnce

\* The clock moves on.
LEMMA TickKeeps == Inv /\ Tick => Inv'
<1> SUFFICES ASSUME Inv, Tick PROVE Inv'
  OBVIOUS
<1>0. now \in Int /\ now' = now + 1 /\ log' = log /\ open' = open
  BY LogTyped DEF Tick
<1>1. TypeOK'
  BY <1>0, PitHistoryAssumption DEF Inv, TypeOK, Tick, Time
<1>2. PastOnly'
  <2>1. \A w \in Writer : open[w] # NotOpen => open[w].at \in Int
    BY PitTyped DEF Inv, TypeOK
  <2> QED BY <1>0, <2>1, LogTyped DEF Inv, PastOnly
<1> QED BY <1>0, <1>1, <1>2 DEF Inv, Ordered, IdsGivenOnce

\* A transaction stamps its PiT with the clock and an id nobody has.
LEMMA BeginKeeps ==
  ASSUME Inv, NEW w \in Writer, BeginPiT(w)
  PROVE  Inv'
<1>1. PICK id \in PitId \ UsedIds, batch \in Batches :
        open' = [open EXCEPT ![w] = [id |-> id, at |-> now, changes |-> batch]]
  BY DEF BeginPiT
<1> DEFINE pit == [id |-> id, at |-> now, changes |-> batch]
<1>2. now' = now /\ log' = log /\ now \in Int
  BY LogTyped DEF BeginPiT
<1>3. pit \in Pit /\ pit # NotOpen /\ pit.id = id /\ pit.at = now
  BY PitHistoryAssumption DEF Pit, Inv, TypeOK
<1> HIDE DEF pit
<1>4. \A v \in Writer : open'[v] = IF v = w THEN pit ELSE open[v]
  BY <1>1 DEF Inv, TypeOK, pit
<1>5. TypeOK'
  BY <1>1, <1>2, <1>3 DEF Inv, TypeOK, pit
<1>6. PastOnly'
  BY <1>2, <1>3, <1>4 DEF Inv, PastOnly
<1>7. IdsGivenOnce'
  <2>1. \A i \in DOMAIN log : log[i].id # id
    BY DEF UsedIds
  <2>2. \A v \in Writer : open[v] # NotOpen => open[v].id # id
    BY DEF UsedIds
  <2> QED BY <1>2, <1>3, <1>4, <2>1, <2>2 DEF Inv, IdsGivenOnce
<1> QED BY <1>2, <1>5, <1>6, <1>7 DEF Inv, Ordered

\* A transaction that rolls back leaves nothing.
LEMMA AbortKeeps ==
  ASSUME Inv, NEW w \in Writer, AbortPiT(w)
  PROVE  Inv'
<1>1. now' = now /\ log' = log /\ open' = [open EXCEPT ![w] = NotOpen]
  BY DEF AbortPiT
<1>2. \A v \in Writer : open'[v] = IF v = w THEN NotOpen ELSE open[v]
  BY <1>1 DEF Inv, TypeOK
<1>3. TypeOK'
  BY <1>1 DEF Inv, TypeOK
<1> QED BY <1>1, <1>2, <1>3 DEF Inv, Ordered, PastOnly, IdsGivenOnce

\* The place of the committed row, and what became of the others.
CommitsAt(w, i) ==
  /\ i \in 1..(Len(log) + 1)
  /\ open[w] \in Pit
  /\ \A j \in 1..(i - 1) : log[j].at <= open[w].at
  /\ \A j \in i..Len(log) : open[w].at <= log[j].at
  /\ log' \in Seq(Pit) /\ Len(log') = Len(log) + 1
  /\ \A j \in 1..(i - 1) : log'[j] = log[j]
  /\ log'[i] = open[w]
  /\ \A j \in (i + 1)..(Len(log) + 1) : log'[j] = log[j - 1]

LEMMA CommitPlace ==
  ASSUME Inv, NEW w \in Writer, CommitPiT(w)
  PROVE  \E i : CommitsAt(w, i)
<1>1. PICK i \in 1..(Len(log) + 1) :
        /\ \A j \in 1..(i - 1) : log[j].at <= open[w].at
        /\ \A j \in i..Len(log) : open[w].at <= log[j].at
        /\ log' = InsertAt(log, i, open[w])
  BY DEF CommitPiT
<1>2. open[w] \in Pit /\ log \in Seq(Pit)
  BY DEF CommitPiT, Inv, TypeOK
<1>3. /\ log' \in Seq(Pit) /\ Len(log') = Len(log) + 1
      /\ \A j \in 1..(i - 1) : log'[j] = log[j]
      /\ log'[i] = open[w]
      /\ \A j \in (i + 1)..(Len(log) + 1) : log'[j] = log[j - 1]
  <2> DEFINE t == InsertAt(log, i, open[w])
  <2>1. /\ t \in Seq(Pit) /\ Len(t) = Len(log) + 1
        /\ \A j \in 1..(i - 1) : t[j] = log[j]
        /\ t[i] = open[w]
        /\ \A j \in (i + 1)..(Len(log) + 1) : t[j] = log[j - 1]
    BY <1>1, <1>2, Inserted
  <2>2. log' = t
    BY <1>1
  <2> HIDE DEF t
  <2> QED BY <2>1, <2>2
<1>4. CommitsAt(w, i)
  BY <1>1, <1>2, <1>3 DEF CommitsAt
<1> QED BY <1>4

\* A commit makes the PiT visible where its stamp belongs.
LEMMA CommitKeeps ==
  ASSUME Inv, NEW w \in Writer, CommitPiT(w)
  PROVE  Inv'
<1>1. PICK i : CommitsAt(w, i)
  BY CommitPlace
<1> DEFINE L == Len(log)
<1>2. /\ now' = now /\ open' = [open EXCEPT ![w] = NotOpen] /\ open[w] # NotOpen
  BY DEF CommitPiT
<1>3. \A v \in Writer : open'[v] = IF v = w THEN NotOpen ELSE open[v]
  BY <1>2 DEF Inv, TypeOK
<1>4. /\ L \in Nat /\ DOMAIN log = 1..L /\ \A j \in 1..L : log[j].at \in Int
      /\ i \in 1..(L + 1) /\ open[w].at \in Int
  BY <1>1, LogTyped, PitTyped DEF CommitsAt
<1>5. DOMAIN log' = 1..(L + 1)
  BY <1>1 DEF CommitsAt
\* Where each row of the new table comes from.
<1> DEFINE Old(j) == IF j < i THEN j ELSE j - 1
<1>6. \A j \in 1..(L + 1) : j # i => Old(j) \in 1..L /\ log'[j] = log[Old(j)]
  BY <1>1, <1>4 DEF CommitsAt
<1>7. log'[i] = open[w]
  BY <1>1 DEF CommitsAt
<1>8. TypeOK'
  BY <1>1, <1>2 DEF Inv, TypeOK, CommitsAt
<1>9. Ordered(log)'
  <2> SUFFICES ASSUME NEW j \in 1..(L + 1), NEW k \in 1..(L + 1), j <= k
               PROVE  log'[j].at <= log'[k].at
    BY <1>5 DEF Ordered
  <2>1. CASE j # i /\ k # i
    <3>1. Old(j) <= Old(k) /\ Old(j) \in DOMAIN log /\ Old(k) \in DOMAIN log
      BY <1>4, <1>6, <2>1
    <3>2. log[Old(j)].at <= log[Old(k)].at
      BY <3>1 DEF Inv, Ordered
    <3> QED BY <3>2, <1>6, <2>1
  <2>2. CASE j = i /\ k # i
    <3>1. Old(k) \in i..L
      BY <1>4, <2>2
    <3> QED BY <3>1, <2>2, <1>1, <1>6, <1>7 DEF CommitsAt
  <2>3. CASE j # i /\ k = i
    <3>1. Old(j) \in 1..(i - 1)
      BY <1>4, <2>3
    <3> QED BY <3>1, <2>3, <1>1, <1>6, <1>7 DEF CommitsAt
  <2>4. CASE j = i /\ k = i
    BY <2>4, <1>4, <1>7
  <2> QED BY <2>1, <2>2, <2>3, <2>4
<1>10. PastOnly'
  BY <1>2, <1>3, <1>4, <1>5, <1>6, <1>7 DEF Inv, PastOnly
<1>11. IdsGivenOnce'
  <2>1. ASSUME NEW j \in 1..(L + 1), NEW k \in 1..(L + 1), log'[j].id = log'[k].id
        PROVE  j = k
    <3>1. CASE j # i /\ k # i
      <4>0. /\ Old(j) \in DOMAIN log /\ Old(k) \in DOMAIN log
            /\ log[Old(j)].id = log[Old(k)].id
        BY <1>4, <1>6, <2>1, <3>1
      <4>1. Old(j) = Old(k)
        <5> HIDE DEF Old
        <5> QED BY <4>0 DEF Inv, IdsGivenOnce
      <4> QED BY <4>1, <3>1, <1>4
    <3>2. CASE j = i /\ k # i
      <4>1. Old(k) \in DOMAIN log /\ log[Old(k)].id = open[w].id
        BY <1>4, <1>6, <1>7, <2>1, <3>2
      <4> HIDE DEF Old
      <4> QED BY <4>1, <1>2 DEF Inv, IdsGivenOnce
    <3>3. CASE j # i /\ k = i
      <4>1. Old(j) \in DOMAIN log /\ log[Old(j)].id = open[w].id
        BY <1>4, <1>6, <1>7, <2>1, <3>3
      <4> HIDE DEF Old
      <4> QED BY <4>1, <1>2 DEF Inv, IdsGivenOnce
    <3> QED BY <3>1, <3>2, <3>3
  <2>2. ASSUME NEW v \in Writer, NEW j \in 1..(L + 1), open'[v] # NotOpen
        PROVE  open'[v].id # log'[j].id
    <3>1. v # w /\ open'[v] = open[v]
      BY <1>3, <2>2
    <3>2. CASE j # i
      <4>1. Old(j) \in DOMAIN log /\ log'[j] = log[Old(j)]
        BY <1>4, <1>6, <3>2
      <4> HIDE DEF Old
      <4> QED BY <4>1, <2>2, <3>1 DEF Inv, IdsGivenOnce
    <3>3. CASE j = i
      BY <1>2, <1>7, <2>2, <3>1, <3>3 DEF Inv, IdsGivenOnce
    <3> QED BY <3>2, <3>3
  <2>3. \A u, v \in Writer :
          open'[u] # NotOpen /\ open'[v] # NotOpen /\ open'[u].id = open'[v].id => u = v
    BY <1>3 DEF Inv, IdsGivenOnce
  <2> QED BY <1>5, <2>1, <2>2, <2>3 DEF IdsGivenOnce
<1> QED BY <1>8, <1>9, <1>10, <1>11 DEF Inv

LEMMA InvNext == Inv /\ [Next]_vars => Inv'
<1> SUFFICES ASSUME Inv, [Next]_vars PROVE Inv'
  OBVIOUS
<1>1. CASE Tick
  BY <1>1, TickKeeps
<1>2. ASSUME NEW w \in Writer, BeginPiT(w) \/ CommitPiT(w) \/ AbortPiT(w)
      PROVE  Inv'
  BY <1>2, BeginKeeps, CommitKeeps, AbortKeeps
<1>3. CASE UNCHANGED vars
  BY <1>3 DEF vars, Inv, TypeOK, Ordered, PastOnly, IdsGivenOnce
<1> QED BY <1>1, <1>2, <1>3 DEF Next

LEMMA InvAlways == Spec => []Inv
BY InvInit, InvNext, PTL DEF Spec

\* Clock, rows and open transactions keep their types.
THEOREM TypeCorrect == Spec => []TypeOK
<1>1. Inv => TypeOK
  BY DEF Inv
<1> QED BY <1>1, InvAlways, PTL

-----------------------------------------------------------------------------
\* Readers.

\* The rows of key k that are not after t.
RowsOf(k, t) == {i \in DOMAIN log : log[i].at <= t /\ k \in DOMAIN log[i].changes}

\* They lie before the cut.
LEMMA RowsBeforeCut ==
  ASSUME Inv, NEW t \in Int, NEW n, Cut(log, t, n), NEW k
  PROVE  RowsOf(k, t) = {i \in 1..n : k \in DOMAIN log[i].changes}
<1>1. ASSUME NEW i \in DOMAIN log, log[i].at <= t PROVE i \in 1..n
  <2>1. i \notin (n + 1)..Len(log)
    BY <1>1, LogTyped DEF Cut
  <2> QED BY <2>1, <1>1, LogTyped DEF Cut
<1>2. \A i \in 1..n : i \in DOMAIN log /\ log[i].at <= t
  BY LogTyped DEF Cut
<1> QED BY <1>1, <1>2 DEF RowsOf

\* The state till a moment is the reference.
LEMMA StateIsReference ==
  ASSUME Inv, NEW t \in Int
  PROVE  StateTillTimestamp(log, t) = ReferenceState(t)
<1> DEFINE state == StateTillTimestamp(log, t)
<1>1. PICK n : Cut(log, t, n)
  BY LogTyped, CutExists
<1>2. Tells(log, n, state) /\ n \in Nat
  BY <1>1, LogTyped, StateTells DEF Cut
<1>3. ASSUME NEW k \in Key
      PROVE  state[k] = ReferenceState(t)[k]
  <2> DEFINE rows == RowsOf(k, t)
             newest == CHOOSE i \in rows : \A j \in rows : j <= i
  <2>1. rows = {i \in 1..n : k \in DOMAIN log[i].changes}
    BY <1>1, RowsBeforeCut
  <2>2. LastRow(k, t) = IF rows = {} THEN 0 ELSE newest
    BY DEF LastRow, RowsOf
  <2>3. ReferenceState(t)[k] = IF LastRow(k, t) = 0 THEN Absent
                               ELSE Outcome(log[LastRow(k, t)].changes[k])
    BY DEF ReferenceState, Outcome
  <2> HIDE DEF rows, state
  <2>4. CASE state[k] = Absent /\ \A i \in 1..n : k \notin DOMAIN log[i].changes
    <3>1. rows = {}
      BY <2>1, <2>4
    <3> QED BY <2>2, <2>3, <2>4, <3>1
  <2>5. ASSUME NEW i \in 1..n, NewestOf(log, n, k, i), state[k] = Outcome(log[i].changes[k])
        PROVE  state[k] = ReferenceState(t)[k]
    <3>1. i \in rows
      BY <2>1, <2>5 DEF NewestOf
    <3>2. \A j \in rows : j <= i
      <4> TAKE j \in rows
      <4>1. j \in 1..n /\ j \notin (i + 1)..n
        BY <2>1, <2>5 DEF NewestOf
      <4> QED BY <4>1, <1>2
    <3>3. newest \in rows /\ \A j \in rows : j <= newest
      BY <3>1, <3>2
    <3> HIDE DEF newest
    <3>4. newest = i
      BY <3>1, <3>2, <3>3, <2>1, <1>2
    <3>5. LastRow(k, t) = i /\ i # 0
      BY <2>2, <3>1, <3>4, <1>2
    <3> QED BY <2>3, <2>5, <3>5
  <2> QED BY <1>2, <2>4, <2>5 DEF Tells
<1>4. state = [k \in Key |-> state[k]]
  BY <1>2 DEF Tells, Snapshot
<1>5. ReferenceState(t) = [k \in Key |-> ReferenceState(t)[k]]
  BY DEF ReferenceState
<1> HIDE DEF state
<1>6. state = ReferenceState(t)
  BY <1>3, <1>4, <1>5
<1> QED BY <1>6 DEF state

\* The present is the state till the clock.
LEMMA CurrentIsReference == Inv => CurrentState(log) = ReferenceState(now)
<1> SUFFICES ASSUME Inv PROVE CurrentState(log) = ReferenceState(now)
  OBVIOUS
<1>1. /\ Len(log) \in Nat /\ now \in Int /\ Table(log)
      /\ \A i \in 1..Len(log) : log[i].at \in Int /\ log[i].at <= now
  BY LogTyped
<1>2. Cut(log, now, Len(log))
  BY <1>1 DEF Cut
<1>3. Tells(log, Len(log), StateTillTimestamp(log, now))
  BY <1>1, <1>2, StateTells
<1>4. \A i \in 1..Len(log) : log[i].changes \in ChangeSet
  BY <1>1, TableRows
<1>5. Tells(log, Len(log), CurrentState(log))
  BY <1>1, <1>4, ReplayTells DEF CurrentState
<1> QED BY <1>1, <1>3, <1>5, TellsOne, StateIsReference

\* A PiT that is named is the one with that id.
LEMMA NamedPit ==
  ASSUME Inv, NEW i \in DOMAIN log
  PROVE  PitWithId(log, log[i].id) = log[i]
<1> DEFINE c == CHOOSE j \in DOMAIN log : log[j].id = log[i].id
<1>1. c \in DOMAIN log /\ log[c].id = log[i].id
  OBVIOUS
<1>2. PitWithId(log, log[i].id) = log[c]
  BY DEF PitWithId
<1> HIDE DEF c
<1> QED BY <1>1, <1>2 DEF Inv, IdsGivenOnce

\* Whatever commits overlap and whichever stamps tie: a replay to a moment, to
\* a PiT or to the present gives each key the value of its newest change.
THEOREM ReplayIsNewestChangeAlways == Spec => []ReplayIsNewestChange
<1>1. ASSUME Inv PROVE ReplayIsNewestChange
  <2>0. Time \subseteq Int
    BY PitHistoryAssumption DEF Time
  <2>1. \A t \in Time : StateTillTimestamp(log, t) = ReferenceState(t)
    BY <1>1, <2>0, StateIsReference
  <2>2. CurrentState(log) = ReferenceState(now)
    BY <1>1, CurrentIsReference
  <2>3. \A i \in DOMAIN log : StateTillPiTId(log, log[i].id) = ReferenceState(log[i].at)
    BY <1>1, NamedPit, LogTyped, StateIsReference DEF StateTillPiTId
  <2> QED BY <2>1, <2>2, <2>3 DEF ReplayIsNewestChange
<1> QED BY <1>1, InvAlways, PTL

\* What a range diff patches, for any two snapshots.
LEMMA DiffPatches ==
  ASSUME NEW from \in Snapshot, NEW to \in Snapshot
  PROVE  LET diff == Diff(from, to) IN
         /\ Patch(from, diff, to) = to
         /\ \A k \in diff.added \cup diff.modified \cup diff.deleted : from[k] # to[k]
<1> DEFINE diff == Diff(from, to)
<1>1. /\ diff.added = {k \in Key : to[k] # Absent /\ from[k] = Absent}
      /\ diff.modified = {k \in Key : to[k] # Absent /\ from[k] # Absent /\ to[k] # from[k]}
      /\ diff.deleted = {k \in Key : from[k] # Absent /\ to[k] = Absent}
  BY DEF Diff
<1> HIDE DEF diff
<1>2. \A k \in Key : Patch(from, diff, to)[k] = to[k]
  BY <1>1 DEF Patch
<1>3. to = [k \in Key |-> to[k]]
  BY DEF Snapshot
<1>4. Patch(from, diff, to) = [k \in Key |-> Patch(from, diff, to)[k]]
  BY DEF Patch
<1>5. Patch(from, diff, to) = to
  BY <1>2, <1>3, <1>4
<1>6. \A k \in diff.added \cup diff.modified \cup diff.deleted : from[k] # to[k]
  BY <1>1
<1> QED BY <1>5, <1>6 DEF diff

\* The one pass of a range diff is exact for every pair of moments in order.
THEOREM RangeDiffIsExactAlways == Spec => []RangeDiffIsExact
<1>1. ASSUME Inv PROVE RangeDiffIsExact
  <2> SUFFICES ASSUME NEW f \in Time, NEW t \in Time, f <= t
               PROVE  LET from == StateTillTimestamp(log, f)
                          to   == StateTillTimestamp(log, t)
                          diff == DiffByTimestampRange(log, f, t)
                      IN  /\ Patch(from, diff, to) = to
                          /\ \A k \in diff.added \cup diff.modified \cup diff.deleted :
                               from[k] # to[k]
    BY DEF RangeDiffIsExact
  <2>0. f \in Int /\ t \in Int /\ Table(log)
    BY <1>1, LogTyped, PitHistoryAssumption DEF Time
  <2>1. SinglePass(log, f, t) =
          [from |-> StateTillTimestamp(log, f), to |-> StateTillTimestamp(log, t)]
    BY <2>0, SinglePassIsTwoReplays
  <2>2. DiffByTimestampRange(log, f, t) =
          Diff(StateTillTimestamp(log, f), StateTillTimestamp(log, t))
    BY <2>1 DEF DiffByTimestampRange
  <2>3. \A m \in Int : StateTillTimestamp(log, m) \in Snapshot
    BY <2>0, CutExists, StateTells DEF Tells
  <2> QED BY <2>0, <2>2, <2>3, DiffPatches
<1> QED BY <1>1, InvAlways, PTL

-----------------------------------------------------------------------------
\* A settled past.

\* A commit of a later stamp leaves the rows till t where they are.
LEMMA CommitKeepsPast ==
  ASSUME Inv, NEW w \in Writer, CommitPiT(w), NEW t \in Int, open[w].at > t
  PROVE  \E n \in Nat : Cut(log, t, n) /\ Cut(log', t, n) /\ \A j \in 1..n : log'[j] = log[j]
<1>1. PICK i : CommitsAt(w, i)
  BY CommitPlace
<1>2. PICK n : Cut(log, t, n)
  BY LogTyped, CutExists
<1> DEFINE L == Len(log)
<1>3. /\ L \in Nat /\ n \in 0..L /\ \A j \in 1..L : log[j].at \in Int
      /\ i \in 1..(L + 1) /\ open[w].at \in Int /\ Len(log') = L + 1
  BY <1>1, <1>2, LogTyped, PitTyped DEF CommitsAt, Cut
<1>4. \A j \in i..L : log[j].at > t
  BY <1>1, <1>3 DEF CommitsAt
<1>5. n < i
  <2> SUFFICES ASSUME i <= n PROVE FALSE
    BY <1>3
  <2>1. n \in i..L /\ n \in 1..n
    BY <1>3
  <2> QED BY <2>1, <1>2, <1>3, <1>4 DEF Cut
<1>6. \A j \in 1..n : log'[j] = log[j]
  BY <1>1, <1>3, <1>5 DEF CommitsAt
<1>7. ASSUME NEW j \in (n + 1)..(L + 1) PROVE log'[j].at > t
  <2>1. CASE j < i
    <3>1. j \in 1..(i - 1) /\ j \in (n + 1)..L
      BY <2>1, <1>3
    <3> QED BY <3>1, <1>1, <1>2 DEF CommitsAt, Cut
  <2>2. CASE j = i
    BY <2>2, <1>1 DEF CommitsAt
  <2>3. CASE j > i
    <3>1. j \in (i + 1)..(L + 1) /\ j - 1 \in i..L
      BY <2>3, <1>3
    <3> QED BY <3>1, <1>1, <1>4 DEF CommitsAt
  <2> QED BY <2>1, <2>2, <2>3, <1>3
<1>8. Cut(log', t, n)
  <2>1. n \in 0..Len(log')
    BY <1>3
  <2>2. \A j \in 1..n : log'[j].at <= t
    BY <1>2, <1>6 DEF Cut
  <2>3. \A j \in (n + 1)..Len(log') : log'[j].at > t
    BY <1>3, <1>7
  <2> QED BY <2>1, <2>2, <2>3 DEF Cut
<1> QED BY <1>2, <1>3, <1>6, <1>8

\* Two tables with the same rows till t have the same state till t.
LEMMA SamePast ==
  ASSUME NEW rows, Table(rows), NEW other, Table(other), NEW t \in Int, NEW n \in Nat,
         Cut(rows, t, n), Cut(other, t, n), \A j \in 1..n : other[j] = rows[j]
  PROVE  StateTillTimestamp(other, t) = StateTillTimestamp(rows, t)
<1>1. Tells(other, n, StateTillTimestamp(other, t)) /\ Tells(rows, n, StateTillTimestamp(rows, t))
  BY StateTells
<1>2. Tells(rows, n, StateTillTimestamp(other, t))
  BY <1>1, TellsSame
<1> QED BY <1>1, <1>2, TellsOne

\* One step and a settled moment.
LEMMA SettledStays ==
  ASSUME Inv, Inv', [Next]_vars, NEW t \in Time, Settled(t)
  PROVE  Settled(t)' /\ StateTillTimestamp(log, t)' = StateTillTimestamp(log, t)
<1>0. /\ t \in Int /\ now \in Int /\ Table(log) /\ Table(log)' /\ t < now
      /\ \A v \in Writer : open[v] # NotOpen => open[v].at \in Int
  <2>1. t \in Int /\ t < now
    BY PitHistoryAssumption DEF Time, Settled
  <2>2. now \in Int /\ Table(log)
    BY LogTyped
  <2>3. Table(log)'
    <3>1. (Inv => Table(log))'
      BY LogTable, PTL
    <3> QED BY <3>1
  <2>4. \A v \in Writer : open[v] # NotOpen => open[v].at \in Int
    BY PitTyped DEF Inv, TypeOK
  <2> QED BY <2>1, <2>2, <2>3, <2>4
<1>1. CASE Tick
  BY <1>0, <1>1 DEF Tick, Settled
<1>2. ASSUME NEW w \in Writer, BeginPiT(w)
      PROVE  Settled(t)' /\ StateTillTimestamp(log, t)' = StateTillTimestamp(log, t)
  <2>1. PICK id, batch : open' = [open EXCEPT ![w] = [id |-> id, at |-> now, changes |-> batch]]
    BY <1>2 DEF BeginPiT
  <2>2. \A v \in Writer : open'[v] = IF v = w THEN [id |-> id, at |-> now, changes |-> batch]
                                     ELSE open[v]
    BY <2>1 DEF Inv, TypeOK
  <2> QED BY <1>0, <1>2, <2>2 DEF BeginPiT, Settled
<1>3. ASSUME NEW w \in Writer, AbortPiT(w)
      PROVE  Settled(t)' /\ StateTillTimestamp(log, t)' = StateTillTimestamp(log, t)
  <2>1. \A v \in Writer : open'[v] = IF v = w THEN NotOpen ELSE open[v]
    BY <1>3 DEF AbortPiT, Inv, TypeOK
  <2> QED BY <1>0, <1>3, <2>1 DEF AbortPiT, Settled
<1>4. ASSUME NEW w \in Writer, CommitPiT(w)
      PROVE  Settled(t)' /\ StateTillTimestamp(log, t)' = StateTillTimestamp(log, t)
  <2>1. \A v \in Writer : open'[v] = IF v = w THEN NotOpen ELSE open[v]
    BY <1>4 DEF CommitPiT, Inv, TypeOK
  <2>2. Settled(t)'
    BY <1>0, <1>4, <2>1 DEF CommitPiT, Settled
  <2>3. open[w].at > t
    BY <1>4 DEF CommitPiT, Settled
  <2>4. PICK n \in Nat : Cut(log, t, n) /\ Cut(log', t, n) /\ \A j \in 1..n : log'[j] = log[j]
    BY <1>0, <1>4, <2>3, CommitKeepsPast
  <2>5. Table(log')
    BY <1>0 DEF Table, Ordered
  <2>6. StateTillTimestamp(log', t) = StateTillTimestamp(log, t)
    BY <1>0, <2>4, <2>5, SamePast
  <2>7. StateTillTimestamp(log, t)' = StateTillTimestamp(log', t)
    OBVIOUS
  <2> QED BY <2>2, <2>6, <2>7
<1>5. CASE UNCHANGED vars
  BY <1>0, <1>5 DEF vars, Settled
<1> QED BY <1>1, <1>2, <1>3, <1>4, <1>5 DEF Next

\* Once a moment is over and its transactions have ended, no recording changes
\* what a rollback to it restores, however many writers there are.
THEOREM SettledPastIsFinalAlways == Spec => SettledPastIsFinal
<1>1. Inv /\ Inv' /\ [Next]_vars =>
        [\A t \in Time : Settled(t) =>
           Settled(t)' /\ StateTillTimestamp(log, t)' = StateTillTimestamp(log, t)]_vars
  BY SettledStays
<1> QED BY <1>1, InvAlways, PTL DEF Spec, SettledPastIsFinal

-----------------------------------------------------------------------------
\* The timeline of a key.

\* A key's timeline begins with the newest row of the key, or has no row.
LEMMA TimelineHead ==
  ASSUME Inv, NEW k, NEW limit \in Int, NEW maxRows \in Nat, maxRows = 0 => Len(log) = 0
  PROVE  LET rows == Timeline(log, k, limit, maxRows) IN
           IF ChangesOf(log, k) = {} THEN rows = <<>>
           ELSE rows # <<>> /\ \E i : NewestOf(log, Len(log), k, i) /\ rows[1] = log[i]
<1> DEFINE L == Len(log)
           keep == ChangesOf(log, k)
           sel == RowsAt(log, keep)
           n == Clamp(limit, maxRows)
           m == IF n < Len(sel) THEN n ELSE Len(sel)
           rows == SubSeq(Reverse(sel), 1, m)
<1>1. L \in Nat /\ DOMAIN log = 1..L /\ log \in Seq(Pit)
  BY LogTyped DEF Inv, TypeOK
<1>2. keep \subseteq 1..L /\ \A i \in 1..L : i \in keep <=> k \in DOMAIN log[i].changes
  BY <1>1 DEF ChangesOf
<1>3. sel \in Seq(Pit) /\ Selects(sel, log, keep, L)
  BY <1>1, RowsAtSelects
<1>4. n \in Nat /\ (maxRows # 0 => n >= 1)
  BY DEF Clamp
<1>5. Timeline(log, k, limit, maxRows) = rows
  <2>1. Len(Reverse(sel)) = Len(sel) BY <1>3 DEF Reverse
  <2> QED BY <2>1 DEF Timeline
<1> HIDE DEF sel, n, L, keep
<1>6. Reverse(sel) \in Seq(Pit) /\ Len(Reverse(sel)) = Len(sel) /\ Len(sel) \in Nat
  BY <1>3 DEF Reverse
<1>7. CASE keep = {}
  <2>1. Len(sel) = 0 BY <1>3, <1>6, <1>7 DEF Selects
  <2>2. m = 0 BY <1>4, <2>1
  <2>3. rows = <<>> BY <1>6, <2>2
  <2> QED BY <1>5, <1>7, <2>3 DEF keep
<1>8. CASE keep # {}
  <2>1. PICK i \in keep : TRUE BY <1>8
  <2>2. i \in keep \cap (1..L) BY <1>2
  <2>3. Len(sel) # 0 BY <1>3, <1>6, <2>2 DEF Selects
  <2>4. PICK p \in keep \cap (1..L) : sel[Len(sel)] = log[p] /\ \A j \in (p + 1)..L : j \notin keep
    BY <1>3, <2>3 DEF Selects
  <2>5. L # 0 BY <1>1, <2>2
  <2>6. n >= 1 BY <1>4, <2>5 DEF L
  <2>7. m >= 1 /\ m <= Len(sel) /\ m \in Nat BY <1>4, <1>6, <2>3, <2>6
  <2>8. Reverse(sel)[1] = sel[Len(sel)] BY <1>3, <1>6, <2>3 DEF Reverse
  <2> HIDE DEF m
  <2>9. Len(rows) = m /\ rows[1] = Reverse(sel)[1] BY <1>6, <2>7
  <2>10. NewestOf(log, L, k, p)
    <3>1. \A j \in (p + 1)..L : j \in 1..L BY <1>1, <2>4
    <3> QED BY <1>2, <2>4, <3>1 DEF NewestOf
  <2>11. rows[1] = log[p] BY <2>4, <2>8, <2>9
  <2> HIDE DEF rows
  <2>12. rows # <<>> BY <2>7, <2>9
  <2> QED BY <1>5, <1>8, <2>10, <2>11, <2>12 DEF keep, L
<1> QED BY <1>7, <1>8

\* The timeline of a key tells its current state: it is empty when the key was
\* never changed, and otherwise its first row decides.
THEOREM TimelineHeadIsCurrentAlways == Spec => []TimelineHeadIsCurrent
<1>1. ASSUME Inv PROVE TimelineHeadIsCurrent
  <2> DEFINE L == Len(log)
             c == Cardinality(PitId)
  <2>1. L \in Nat /\ DOMAIN log = 1..L /\ \A i \in 1..L : log[i] \in Pit /\ log[i].changes \in ChangeSet
    BY <1>1, LogTyped, TableRows
  <2>2. c \in Nat /\ (c = 0 => L = 0)
    <3>1. c \in Nat /\ (c = 0 <=> PitId = {})
      BY PitHistoryAssumption, FS_CardinalityType, FS_EmptySet
    <3>2. \A i \in 1..L : log[i].id \in PitId
      BY <2>1, PitTyped
    <3> QED BY <2>1, <3>1, <3>2
  <2>3. Tells(log, L, CurrentState(log))
    BY <2>1, ReplayTells DEF CurrentState
  <2> SUFFICES ASSUME NEW k \in Key, NEW limit \in {0, 1, c + 1}
               PROVE  LET rows == Timeline(log, k, limit, c) IN
                        IF rows = <<>> THEN CurrentState(log)[k] = Absent
                        ELSE CurrentState(log)[k] =
                               IF rows[1].changes[k].operation = "DELETE"
                               THEN Absent ELSE rows[1].changes[k].value
    BY DEF TimelineHeadIsCurrent
  <2> DEFINE rows == Timeline(log, k, limit, c)
             now_k == CurrentState(log)[k]
  <2>4. limit \in Int
    BY <2>2
  <2>5. IF ChangesOf(log, k) = {} THEN rows = <<>>
        ELSE rows # <<>> /\ \E i : NewestOf(log, L, k, i) /\ rows[1] = log[i]
    BY <1>1, <2>2, <2>4, TimelineHead
  <2>6. \/ now_k = Absent /\ \A i \in 1..L : k \notin DOMAIN log[i].changes
        \/ \E i \in 1..L : NewestOf(log, L, k, i) /\ now_k = Outcome(log[i].changes[k])
    BY <2>3 DEF Tells
  <2> HIDE DEF rows, now_k, L
  <2>7. CASE ChangesOf(log, k) = {}
    <3>1. \A i \in 1..L : k \notin DOMAIN log[i].changes
      BY <2>1, <2>7 DEF ChangesOf
    <3>2. rows = <<>> /\ now_k = Absent
      BY <2>5, <2>6, <2>7, <3>1 DEF NewestOf
    <3> QED BY <3>2 DEF rows, now_k
  <2>8. CASE ChangesOf(log, k) # {}
    <3>1. PICK i : NewestOf(log, L, k, i) /\ rows[1] = log[i]
      BY <2>5, <2>8
    <3>2. PICK j \in 1..L : NewestOf(log, L, k, j) /\ now_k = Outcome(log[j].changes[k])
      BY <2>6, <3>1 DEF NewestOf
    <3>3. i = j
      BY <2>1, <3>1, <3>2 DEF NewestOf
    <3>4. rows # <<>> /\ now_k = Outcome(rows[1].changes[k])
      BY <2>5, <2>8, <3>1, <3>2, <3>3
    <3> QED BY <3>4 DEF rows, now_k, Outcome
  <2> QED BY <2>7, <2>8
<1> QED BY <1>1, InvAlways, PTL

-----------------------------------------------------------------------------
\* The pages of a window.

\* Where page p ends.
PageEnd(rows, p, perPage) == IF p * perPage < Len(rows) THEN p * perPage ELSE Len(rows)

\* What \div says of the number of pages: the last one begins in the rows and
\* no row is after it.
LEMMA PageCount ==
  ASSUME NEW len \in Nat, NEW m \in Nat \ {0}, NEW n, n = (len + m - 1) \div m
  PROVE  /\ n \in Nat /\ len <= n * m
         /\ n # 0 => (n - 1) * m < len
<1> DEFINE x == len + m - 1
<1>1. x \in Nat
  OBVIOUS
<1> HIDE DEF x
<1>2. x \div m \in Nat /\ (x \div m) * m <= x /\ x < (x \div m) * m + m
  BY <1>1
<1>3. n \in Nat /\ n * m <= x /\ x < n * m + m
  BY <1>2 DEF x
<1>4. (n - 1) * m = n * m - m /\ n * m \in Nat
  BY <1>3
<1> QED BY <1>3, <1>4 DEF x

\* Every announced page begins in the rows, and only the last may end early.
LEMMA PageBounds ==
  ASSUME NEW len \in Nat, NEW m \in Nat \ {0}, NEW n \in Nat, (n - 1) * m < len, NEW p \in 1..n
  PROVE  /\ p * m \in Nat /\ (p - 1) * m \in Nat /\ p * m = (p - 1) * m + m
         /\ (p - 1) * m < len
<1>1. p * m \in Nat /\ (p - 1) * m \in Nat /\ p * m = (p - 1) * m + m
  OBVIOUS
<1>2. (n - 1) * m = (p - 1) * m + (n - p) * m
  OBVIOUS
<1>3. (n - p) * m \in Nat
  OBVIOUS
<1>4. (n - 1) * m \in Nat
  OBVIOUS
<1> QED BY <1>1, <1>2, <1>3, <1>4

\* The pages put together are the rows, and none of them is empty.
LEMMA PagesAreRows ==
  ASSUME NEW R, NEW rows \in Seq(R), NEW perPage \in Nat \ {0}
  PROVE  LET pages == [p \in 1..TotalPages(rows, perPage) |-> Page(rows, p, perPage)]
         IN  FlattenSeq(pages) = rows /\ \A p \in DOMAIN pages : pages[p] # <<>>
<1> DEFINE L == Len(rows)
           T == TotalPages(rows, perPage)
           end(p) == PageEnd(rows, p, perPage)
           pages == [p \in 1..T |-> Page(rows, p, perPage)]
<1>1. L \in Nat
  OBVIOUS
<1>2. T \in Nat /\ L <= T * perPage /\ (T # 0 => (T - 1) * perPage < L)
  BY <1>1, PageCount DEF TotalPages
<1> HIDE DEF T
<1>3. ASSUME NEW p \in 1..T
      PROVE  /\ (p - 1) * perPage \in 0..L /\ (p - 1) * perPage < end(p) /\ end(p) \in 0..L
             /\ p # T => end(p) = p * perPage
             /\ Page(rows, p, perPage) = SubSeq(rows, (p - 1) * perPage + 1, end(p))
  <2>1. T # 0
    BY <1>2
  <2>2. /\ p * perPage \in Nat /\ (p - 1) * perPage \in Nat
        /\ p * perPage = (p - 1) * perPage + perPage /\ (p - 1) * perPage < L
    <3> HIDE DEF L
    <3> QED BY <1>1, <1>2, <2>1, PageBounds
  <2>3. p # T => p * perPage < L
    <3> SUFFICES ASSUME p # T PROVE p * perPage < L
      OBVIOUS
    <3> DEFINE q == p + 1
    <3>1. q \in 1..T /\ q - 1 = p
      BY <1>2
    <3> HIDE DEF q, L
    <3>2. (q - 1) * perPage < L
      BY <1>1, <1>2, <2>1, <3>1, PageBounds
    <3> QED BY <3>1, <3>2
  <2> QED BY <1>1, <2>2, <2>3 DEF Page, PageEnd
<1>4. ASSUME NEW p \in 1..T PROVE pages[p] # <<>>
  <2> DEFINE a == (p - 1) * perPage + 1
             page == SubSeq(rows, a, end(p))
  <2>1. a \in 1..L /\ end(p) \in a..L /\ pages[p] = page
    BY <1>1, <1>3
  <2> HIDE DEF a, end
  <2>2. Len(page) = end(p) - a + 1
    BY <2>1, <1>1
  <2> HIDE DEF page
  <2>3. Len(page) # 0
    BY <1>1, <2>1, <2>2
  <2> HIDE DEF pages
  <2> QED BY <2>1, <2>3
<1>5. Len(pages) = T /\ DOMAIN pages = 1..T
  BY <1>2
<1>6. CASE T = 0
  <2>1. L = 0
    BY <1>1, <1>2, <1>6
  <2>2. FlattenSeq(pages) = pages
    <3> HIDE DEF pages
    <3> QED BY <1>5, <1>6 DEF FlattenSeq
  <2>3. rows = <<>>
    BY <2>1
  <2>4. pages = <<>>
    BY <1>6
  <2> HIDE DEF pages
  <2>5. FlattenSeq(pages) = rows
    BY <2>2, <2>3, <2>4
  <2> QED BY <1>4, <1>5, <2>5 DEF pages, T
<1>7. CASE T # 0
  <2> DEFINE flat == [p \in 1..T |-> SubSeq(rows, 1, end(p))]
             Step(h) == [i \in 1..Len(pages) |->
                           IF i = 1 THEN pages[i] ELSE h[i - 1] \o pages[i]]
             flatten == CHOOSE h : h = Step(h)
  <2>1. FlattenSeq(pages) = flatten[T]
    <3> HIDE DEF pages
    <3> QED BY <1>5, <1>7 DEF FlattenSeq
  <2>2. ASSUME NEW p \in 1..T
        PROVE  SubSeq(rows, 1, end(p)) =
                 IF p = 1 THEN pages[p] ELSE SubSeq(rows, 1, end(p - 1)) \o pages[p]
    <3>1. pages[p] = SubSeq(rows, (p - 1) * perPage + 1, end(p))
      BY <1>3
    <3>2. CASE p = 1
      <4>1. (p - 1) * perPage + 1 = 1
        BY <3>2
      <4> HIDE DEF pages, end
      <4>2. pages[p] = SubSeq(rows, 1, end(p))
        BY <3>1, <4>1
      <4> QED BY <3>2, <4>2
    <3>3. CASE p # 1
      <4> DEFINE b == (p - 1) * perPage
      <4>1. p - 1 \in 1..T /\ p - 1 # T
        BY <1>2, <3>3
      <4>2. end(p - 1) = b
        <5> DEFINE q == p - 1
        <5>1. q \in 1..T /\ q # T
          BY <4>1
        <5> HIDE DEF q, end
        <5>2. end(q) = q * perPage
          BY <1>3, <5>1
        <5> QED BY <5>2 DEF q
      <4> DEFINE e == end(p)
      <4>3. b \in 0..Len(rows) /\ e \in b..Len(rows)
        BY <1>1, <1>3
      <4> HIDE DEF pages, b, e
      <4>4. 1 \in 1..(Len(rows) + 1) /\ b \in (1 - 1)..Len(rows)
        BY <1>1, <4>3
      <4>5. SubSeq(rows, 1, b) \o SubSeq(rows, b + 1, e) = SubSeq(rows, 1, e)
        BY <4>3, <4>4, ConcatAdjacentSubSeq
      <4> HIDE DEF end
      <4>6. SubSeq(rows, 1, end(p)) = SubSeq(rows, 1, end(p - 1)) \o pages[p]
        BY <3>1, <4>2, <4>5 DEF b, e
      <4> QED BY <3>3, <4>6
    <3> QED BY <3>2, <3>3
  <2>3. flat = Step(flat)
    <3>1. \A i \in 1..T : flat[i] = IF i = 1 THEN pages[i] ELSE flat[i - 1] \o pages[i]
      <4> TAKE i \in 1..T
      <4>1. flat[i] = SubSeq(rows, 1, end(i))
        OBVIOUS
      <4>2. i # 1 => flat[i - 1] = SubSeq(rows, 1, end(i - 1))
        <5> HIDE DEF end
        <5>1. i # 1 => i - 1 \in 1..T
          BY <1>2
        <5> QED BY <5>1
      <4> HIDE DEF flat, pages, end
      <4> QED BY <2>2, <4>1, <4>2
    <3>2. flat = [i \in 1..T |-> flat[i]]
      OBVIOUS
    <3> HIDE DEF flat, pages
    <3> QED BY <1>5, <3>1, <3>2
  <2>4. flatten = Step(flatten)
    <3> HIDE DEF flat, Step
    <3> QED BY <2>3
  <2> HIDE DEF flatten
  <2>5. \A i \in 1..T : flatten[i] = flat[i]
    <3> DEFINE Same == {i \in 0..T : i # 0 => flatten[i] = flat[i]}
    <3>1. 0 \in Same
      BY <1>2
    <3>2. ASSUME NEW i \in 1..T, i - 1 \in Same PROVE i \in Same
      <4>1. i # 1 => flatten[i - 1] = flat[i - 1]
        BY <1>2, <3>2
      <4>2. /\ Step(flatten)[i] = IF i = 1 THEN pages[i] ELSE flatten[i - 1] \o pages[i]
            /\ Step(flat)[i] = IF i = 1 THEN pages[i] ELSE flat[i - 1] \o pages[i]
        <5> HIDE DEF flat, pages
        <5> QED BY <1>5
      <4> HIDE DEF flat, pages, Step
      <4>3. flatten[i] = flat[i]
        BY <2>3, <2>4, <4>1, <4>2
      <4> QED BY <1>2, <4>3
    <3> HIDE DEF Same
    <3>3. 0..T \subseteq Same
      BY <1>2, <3>1, <3>2, Positions
    <3> HIDE DEF flat
    <3> TAKE i \in 1..T
    <3>4. i \in Same /\ i # 0
      BY <1>2, <3>3
    <3> QED BY <3>4 DEF Same
  <2>6. end(T) = L
    BY <1>1, <1>2 DEF PageEnd
  <2>7. T \in 1..T
    BY <1>2, <1>7
  <2>8. flat[T] = SubSeq(rows, 1, end(T))
    <3> HIDE DEF end
    <3> QED BY <2>7
  <2>9. SubSeq(rows, 1, L) = rows
    OBVIOUS
  <2> HIDE DEF pages, flat, end, L
  <2>10. FlattenSeq(pages) = rows
    BY <2>1, <2>5, <2>6, <2>8, <2>9, <2>7
  <2> QED BY <1>4, <1>5, <2>10 DEF pages, T
<1> QED BY <1>6, <1>7

\* A window has the rows stamped in it, both ends included.
LEMMA WindowRows ==
  ASSUME Inv, NEW f \in Int, NEW t \in Int
  PROVE  /\ Window(log, f, t) \in Seq(Pit)
         /\ {i \in DOMAIN log : f <= log[i].at /\ log[i].at <= t}
              = {i \in DOMAIN log : Contains(Window(log, f, t), log[i])}
<1> DEFINE L == Len(log)
           keep == {i \in DOMAIN log : f <= log[i].at /\ log[i].at < ExclusiveUpperBound(t)}
           sel == RowsAt(log, keep)
           rows == Reverse(sel)
<1>1. L \in Nat /\ DOMAIN log = 1..L /\ log \in Seq(Pit) /\ \A i \in 1..L : log[i].at \in Int
  BY LogTyped DEF Inv, TypeOK
<1>2. keep = {i \in DOMAIN log : f <= log[i].at /\ log[i].at <= t}
  BY <1>1 DEF ExclusiveUpperBound
<1>3. sel \in Seq(Pit) /\ Selects(sel, log, keep, L)
  BY <1>1, RowsAtSelects
<1>4. Window(log, f, t) = rows
  BY DEF Window
<1> HIDE DEF sel, L
<1>5. /\ rows \in Seq(Pit) /\ Len(rows) = Len(sel) /\ Len(sel) \in Nat
      /\ \A j \in 1..Len(sel) : Len(sel) - j + 1 \in 1..Len(sel) /\ rows[j] = sel[Len(sel) - j + 1]
  BY <1>3 DEF Reverse
<1> HIDE DEF keep, rows
<1>6. \A i \in keep : i \in keep \cap (1..L)
  BY <1>1, <1>2
<1>7. ASSUME NEW i \in keep PROVE Contains(rows, log[i])
  <2>1. PICK j \in 1..Len(sel) : sel[j] = log[i]
    BY <1>3, <1>6 DEF Selects
  <2> DEFINE r == Len(sel) - j + 1
  <2>2. r \in 1..Len(sel) /\ Len(sel) - r + 1 = j
    BY <1>5
  <2> HIDE DEF r
  <2>3. rows[r] = log[i]
    BY <1>5, <2>1, <2>2
  <2> QED BY <1>5, <2>2, <2>3 DEF Contains
<1>8. ASSUME NEW i \in DOMAIN log, Contains(rows, log[i]) PROVE i \in keep
  <2>1. PICK j \in 1..Len(sel) : rows[j] = log[i]
    BY <1>5, <1>8 DEF Contains
  <2>2. PICK p \in keep \cap (1..L) : sel[Len(sel) - j + 1] = log[p]
    BY <1>3, <1>5 DEF Selects
  <2>3. log[i] = log[p]
    BY <1>5, <2>1, <2>2
  <2> QED BY <1>2, <2>2, <2>3
<1>9. keep = {i \in DOMAIN log : Contains(rows, log[i])}
  BY <1>2, <1>7, <1>8
<1> QED BY <1>2, <1>4, <1>5, <1>9

\* For every window and page size: the pages a client asks for one after the
\* other are the window, none lost, repeated or empty.
THEOREM PagesCoverWindowAlways == Spec => []PagesCoverWindow
<1>1. ASSUME Inv PROVE PagesCoverWindow
  <2> SUFFICES ASSUME NEW f \in Time, NEW t \in Time, NEW perPage \in 1..Cardinality(PitId)
               PROVE  LET rows  == Window(log, f, t)
                          pages == [p \in 1..TotalPages(rows, perPage) |-> Page(rows, p, perPage)]
                      IN  /\ FlattenSeq(pages) = rows
                          /\ \A p \in DOMAIN pages : pages[p] # <<>>
                          /\ {i \in DOMAIN log : f <= log[i].at /\ log[i].at <= t}
                               = {i \in DOMAIN log : Contains(rows, log[i])}
    BY DEF PagesCoverWindow
  <2> DEFINE rows == Window(log, f, t)
             pages == [p \in 1..TotalPages(rows, perPage) |-> Page(rows, p, perPage)]
  <2>1. f \in Int /\ t \in Int
    BY PitHistoryAssumption DEF Time
  <2>2. perPage \in Nat \ {0}
    BY PitHistoryAssumption, FS_CardinalityType
  <2>3. /\ rows \in Seq(Pit)
        /\ {i \in DOMAIN log : f <= log[i].at /\ log[i].at <= t}
             = {i \in DOMAIN log : Contains(rows, log[i])}
    BY <1>1, <2>1, WindowRows
  <2> HIDE DEF rows
  <2>4. FlattenSeq(pages) = rows /\ \A p \in DOMAIN pages : pages[p] # <<>>
    BY <2>2, <2>3, PagesAreRows
  <2> QED BY <2>3, <2>4 DEF rows
<1> QED BY <1>1, InvAlways, PTL

=============================================================================
