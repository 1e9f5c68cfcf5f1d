----------------------------- MODULE PitReplay -----------------------------
(***************************************************************************)
(* The point-in-time (PiT) history of one environment type, as the PiT     *)
(* services compute with it.  A PiT is a message in the history: a moment  *)
(* `at' and the changes written at that moment.  A log is the sequence of  *)
(* PiTs in the order the services read them (created_at ascending).  The   *)
(* env and the secret services are the same code over two pairs of tables, *)
(* so one set of operators stands for both.                                *)
(*                                                                         *)
(* A snapshot gives every key its value, or Absent.  Rows that the code    *)
(* keeps in a Map are a function here; the PiT metadata (message, user,    *)
(* ids) does not take part in any computation and is left out.             *)
(***************************************************************************)
EXTENDS Integers, Sequences, SequencesExt

CONSTANTS Key,      \* variable names
          Value,    \* values, compared for equality only
          Absent    \* not a value: the key is not in the snapshot

ASSUME AbsentIsNoValue == Absent \notin Value

Operation == {"CREATE", "UPDATE", "DELETE"}

\* One row of env_store_pit_change_request. A DELETE row carries the value
\* the key had; no computation reads it.
Change == [operation : Operation, value : Value]

\* The rows of one PiT: at most one change per key.
ChangeSet == UNION {[ks -> Change] : ks \in SUBSET Key}

Snapshot == [Key -> Value \cup {Absent}]

EmptySnapshot == [k \in Key |-> Absent]

\* Faulty variant: the replay loop without its DELETE case.
ApplyChangesWithoutDelete(snap, changes) ==
  [k \in Key |-> IF k \notin DOMAIN changes THEN snap[k] ELSE changes[k].value]

\* One turn of the replay loops for every row of a PiT.
ApplyChanges(snap, changes) ==
  [k \in Key |->
     IF k \notin DOMAIN changes THEN snap[k]
     ELSE IF changes[k].operation = "DELETE" THEN Absent
     ELSE changes[k].value]

\* The replay loop over the rows in the order they were read: the map after
\* the last of them.
Replay(log) ==
  LET after[i \in 0..Len(log)] ==
        IF i = 0 THEN EmptySnapshot ELSE ApplyChanges(after[i - 1], log[i].changes)
  IN  after[Len(log)]

\* createExclusiveUpperBound: one tick (1 ms) after t.
ExclusiveUpperBound(t) == t + 1

\* The rows at the positions a query keeps, in the order of the log.
RowsAt(log, keep) ==
  LET at[i \in 0..Len(log)] ==
        IF i = 0 THEN <<>>
        ELSE IF i \in keep THEN Append(at[i - 1], log[i])
        ELSE at[i - 1]
  IN  at[Len(log)]

\* The rows a query selects with created_at < createExclusiveUpperBound(t).
RowsTill(log, t) == RowsAt(log, {i \in DOMAIN log : log[i].at < ExclusiveUpperBound(t)})

CurrentState(log) == Replay(log)

StateTillTimestamp(log, t) == Replay(RowsTill(log, t))

PitWithId(log, id) == log[CHOOSE i \in DOMAIN log : log[i].id = id]

StateTillPiTId(log, id) == StateTillTimestamp(log, PitWithId(log, id).at)

\* The three lists of a diff, each a set of keys; the values are those of
\* the two snapshots.
Diff(from, to) ==
  [added    |-> {k \in Key : to[k] # Absent /\ from[k] = Absent},
   modified |-> {k \in Key : to[k] # Absent /\ from[k] # Absent /\ to[k] # from[k]},
   deleted  |-> {k \in Key : from[k] # Absent /\ to[k] = Absent}]

\* Faulty variant: the `from' test excludes the moment itself.
SinglePassStrict(log, fromAt, toAt) ==
  LET rows == RowsTill(log, toAt)
      pass[i \in 0..Len(rows)] ==
        IF i = 0 THEN [from |-> EmptySnapshot, to |-> EmptySnapshot]
        ELSE LET acc == pass[i - 1] IN
             [from |-> IF rows[i].at < fromAt THEN ApplyChanges(acc.from, rows[i].changes)
                       ELSE acc.from,
              to   |-> ApplyChanges(acc.to, rows[i].changes)]
  IN  pass[Len(rows)]

\* Both snapshots from one pass over the rows up to `toAt'.
SinglePass(log, fromAt, toAt) ==
  LET rows == RowsTill(log, toAt)
      pass[i \in 0..Len(rows)] ==
        IF i = 0 THEN [from |-> EmptySnapshot, to |-> EmptySnapshot]
        ELSE LET acc == pass[i - 1] IN
             [from |-> IF rows[i].at <= fromAt THEN ApplyChanges(acc.from, rows[i].changes)
                       ELSE acc.from,
              to   |-> ApplyChanges(acc.to, rows[i].changes)]
  IN  pass[Len(rows)]

DiffByTimestampRange(log, fromAt, toAt) ==
  LET pass == SinglePass(log, fromAt, toAt) IN Diff(pass.from, pass.to)

DiffByPiTId(log, fromId, toId) ==
  DiffByTimestampRange(log, PitWithId(log, fromId).at, PitWithId(log, toId).at)

\* The rows of one key, newest first, at most `limit' of them (clamped).
Clamp(limit, maxRows) == IF limit < 1 THEN 1 ELSE IF limit > maxRows THEN maxRows ELSE limit

ChangesOf(log, k) == {i \in DOMAIN log : k \in DOMAIN log[i].changes}

\* Faulty variant: the rows in ascending order.
TimelineOldestFirst(log, k, limit, maxRows) ==
  LET rows == RowsAt(log, ChangesOf(log, k))
      n    == Clamp(limit, maxRows)
  IN  SubSeq(rows, 1, IF n < Len(rows) THEN n ELSE Len(rows))

Timeline(log, k, limit, maxRows) ==
  LET rows == Reverse(RowsAt(log, ChangesOf(log, k)))
      n    == Clamp(limit, maxRows)
  IN  SubSeq(rows, 1, IF n < Len(rows) THEN n ELSE Len(rows))

\* One page of the history of a time window, newest first, and the number
\* of pages the response announces.
Window(log, fromAt, toAt) ==
  Reverse(RowsAt(log, {i \in DOMAIN log :
                         fromAt <= log[i].at /\ log[i].at < ExclusiveUpperBound(toAt)}))

\* Faulty variant: the offset is not multiplied by the page size.
PageOffByPage(rows, page, perPage) ==
  LET last == (page - 1) + perPage
  IN  SubSeq(rows, page, IF last < Len(rows) THEN last ELSE Len(rows))

Page(rows, page, perPage) ==
  LET first == (page - 1) * perPage + 1
      last  == page * perPage
  IN  SubSeq(rows, first, IF last < Len(rows) THEN last ELSE Len(rows))

TotalPages(rows, perPage) == (Len(rows) + perPage - 1) \div perPage
=============================================================================
