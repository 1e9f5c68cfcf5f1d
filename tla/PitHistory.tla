----------------------------- MODULE PitHistory -----------------------------
(***************************************************************************)
(* The history table of one environment type under concurrent writers.     *)
(* createEnvStorePiT stamps created_at with the API process's clock inside *)
(* a transaction and the row becomes visible only when that transaction    *)
(* commits, so rows may appear in the table behind rows already read.      *)
(* Readers have no state of their own: what they compute is the operators  *)
(* of PitReplay over the log, and the properties below speak of those.     *)
(***************************************************************************)
EXTENDS PitReplay, FiniteSets

CONSTANTS Writer,     \* API requests that are recording a PiT
          Batches,    \* the change sets a writer may record
          PitId,      \* identities of PiTs; bounds how many are written
          MaxTime,    \* bound on the clock
          NotOpen     \* a writer with no transaction

Time == 0..MaxTime

\* A PiT as its transaction stamps it.
Pit == [id : PitId, at : Time, changes : Batches]

ASSUME PitHistoryAssumption ==
  /\ Batches \subseteq ChangeSet
  /\ IsFiniteSet(PitId)
  /\ MaxTime \in Nat
  /\ NotOpen \notin Pit

VARIABLES now,   \* wall clock of the API process, in ms (0..MaxTime)
          log,   \* committed PiTs [id, at, changes], ORDER BY created_at ASC
          open   \* open[w]: the PiT a writer has stamped and not committed,
                 \* or NotOpen

vars == <<now, log, open>>

Init ==
  /\ now = 0
  /\ log = <<>>
  /\ open = [w \in Writer |-> NotOpen]

UsedIds == {log[i].id : i \in DOMAIN log} \cup
           {open[w].id : w \in {v \in Writer : open[v] # NotOpen}}

Tick == now < MaxTime /\ now' = now + 1 /\ UNCHANGED <<log, open>>

\* Faulty variant: created_at is stamped with a coarser clock.
BeginPiTCoarseClock(w) ==
  /\ open[w] = NotOpen
  /\ \E id \in PitId \ UsedIds, batch \in Batches :
       open' = [open EXCEPT ![w] =
                  [id |-> id, at |-> (now \div 2) * 2, changes |-> batch]]
  /\ UNCHANGED <<now, log>>

\* The transaction starts: ids and created_at are chosen.
BeginPiT(w) ==
  /\ open[w] = NotOpen
  /\ \E id \in PitId \ UsedIds, batch \in Batches :
       open' = [open EXCEPT ![w] = [id |-> id, at |-> now, changes |-> batch]]
  /\ UNCHANGED <<now, log>>

\* The transaction commits: PiT and rows become visible together. Among
\* rows of the same created_at the order is unspecified.
CommitPiT(w) ==
  /\ open[w] # NotOpen
  /\ \E i \in 1..(Len(log) + 1) :
       /\ \A j \in 1..(i - 1) : log[j].at <= open[w].at
       /\ \A j \in i..Len(log) : open[w].at <= log[j].at
       /\ log' = InsertAt(log, i, open[w])
  /\ open' = [open EXCEPT ![w] = NotOpen]
  /\ UNCHANGED now

\* The insert of the rows fails and the transaction rolls back.
AbortPiT(w) ==
  /\ open[w] # NotOpen
  /\ open' = [open EXCEPT ![w] = NotOpen]
  /\ UNCHANGED <<now, log>>

Next ==
  \/ Tick
  \/ \E w \in Writer : BeginPiT(w) \/ CommitPiT(w) \/ AbortPiT(w)

Spec == Init /\ [][Next]_vars

-----------------------------------------------------------------------------
\* Reference definition of a snapshot, without replay: the newest row of the
\* key that is not after t decides.
LastRow(k, t) ==
  LET rows == {i \in DOMAIN log : log[i].at <= t /\ k \in DOMAIN log[i].changes}
  IN  IF rows = {} THEN 0 ELSE CHOOSE i \in rows : \A j \in rows : j <= i

ReferenceState(t) ==
  [k \in Key |->
     LET i == LastRow(k, t)
     IN  IF i = 0 \/ log[i].changes[k].operation = "DELETE"
         THEN Absent ELSE log[i].changes[k].value]

\* Replaying the rows up to a moment (getEnvsTillTimestamp, getEnvsTillPiTId,
\* and getCurrentEnvState for the present) gives each key the value of its
\* newest change at that moment, whatever the order in which concurrent
\* transactions committed.
ReplayIsNewestChange ==
  /\ \A t \in Time : StateTillTimestamp(log, t) = ReferenceState(t)
  /\ CurrentState(log) = ReferenceState(now)
  /\ \A i \in DOMAIN log : StateTillPiTId(log, log[i].id) = ReferenceState(log[i].at)

\* Applying a diff to the older of its two snapshots.
Patch(from, diff, to) ==
  [k \in Key |-> IF k \in diff.added \cup diff.modified THEN to[k]
                 ELSE IF k \in diff.deleted THEN Absent ELSE from[k]]

\* getEnvDiffByTimestampRange, whose controller refuses from > to, computes
\* from one pass what two full replays would give: patching the `from' state
\* with it yields the `to' state, and no key is listed without a difference.
RangeDiffIsExact ==
  \A f, t \in Time : f <= t =>
    LET from == StateTillTimestamp(log, f)
        to   == StateTillTimestamp(log, t)
        diff == DiffByTimestampRange(log, f, t)
    IN  /\ Patch(from, diff, to) = to
        /\ \A k \in diff.added \cup diff.modified \cup diff.deleted : from[k] # to[k]

\* The comment of getEnvDiff: `from' is always <= `to', so the one pass gives
\* what two replays (getEnvsTillPiTId twice) gave, for the pair of PiTs the
\* caller names. Nothing orders the pair.
PitDiffIsExact ==
  \A i, j \in DOMAIN log :
    DiffByPiTId(log, log[i].id, log[j].id) =
      Diff(StateTillPiTId(log, log[i].id), StateTillPiTId(log, log[j].id))

\* A moment that is over and whose transactions have all ended.
Settled(t) == t < now /\ \A w \in Writer : open[w] # NotOpen => open[w].at > t

\* The snapshot of a settled moment is final, and the moment stays settled:
\* no later recording changes what a rollback to that moment would restore.
SettledPastIsFinal ==
  [][\A t \in Time : Settled(t) =>
       Settled(t)' /\ StateTillTimestamp(log, t)' = StateTillTimestamp(log, t)]_vars

\* Two changes of the key were stamped in the same millisecond: the order of
\* an ascending and of a descending query need not be each other's reverse.
Tied(k) ==
  \E i, j \in DOMAIN log :
    /\ i # j /\ log[i].at = log[j].at
    /\ k \in DOMAIN log[i].changes \cap DOMAIN log[j].changes

\* The head of a key's timeline (newest first, limit clamped) agrees with the
\* current state: the key is absent exactly when its newest change deleted it.
\* Ties in created_at are excepted: the code leaves their order open.
TimelineHeadIsCurrent ==
  \A k \in {key \in Key : ~Tied(key)}, limit \in {0, 1, Cardinality(PitId) + 1} :
    LET rows == Timeline(log, k, limit, Cardinality(PitId)) IN
      IF rows = <<>> THEN CurrentState(log)[k] = Absent
      ELSE CurrentState(log)[k] =
             IF rows[1].changes[k].operation = "DELETE"
             THEN Absent ELSE rows[1].changes[k].value

\* The pages of a history window, put together, are the window, as long as
\* the queries see the same rows in the same order: no PiT is lost or
\* repeated at a page boundary, and the announced page count is the last
\* non-empty page.
PagesCoverWindow ==
  \A f, t \in Time, perPage \in 1..Cardinality(PitId) :
    LET rows  == Window(log, f, t)
        pages == [p \in 1..TotalPages(rows, perPage) |-> Page(rows, p, perPage)]
    IN  /\ FlattenSeq(pages) = rows
        /\ \A p \in DOMAIN pages : pages[p] # <<>>
        /\ {i \in DOMAIN log : f <= log[i].at /\ log[i].at <= t}
             = {i \in DOMAIN log : Contains(rows, log[i])}
=============================================================================
