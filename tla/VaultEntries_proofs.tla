------------------------ MODULE VaultEntries_proofs ------------------------
(***************************************************************************)
(* For any number of handlers and any faults: what the history replays to  *)
(* is what the vault has, but for entries with an unrecorded or            *)
(* overlapping write.  For a single handler: a key lives in one store, and *)
(* a rollback restores.  At the end, the cached guard of the endpoints.    *)
(***************************************************************************)
EXTENDS VaultEntries, EnvTypeCache, PitReplay_proofs, FiniteSetTheorems

-----------------------------------------------------------------------------
\* The inductive invariant.

\* Call j has written key k of store s and not recorded it.
HandsOn(j, s, k) == s = j.store /\ j.pc = "work" /\ k \in DOMAIN j.plan \ j.todo

\* A call works on keys of its plan, which a mutation has from its caller;
\* the PiT it rolls back to is in the history.
Fits(j, hist) ==
  /\ j.pc # "work" => j.todo = {}
  /\ j.ready \subseteq j.todo /\ j.todo \subseteq DOMAIN j.plan
  /\ j.pit <= Len(hist[j.store])
  /\ j.pc # "idle" /\ j.op # "rollback" =>
       \E m \in Mutations : m.op = j.op /\ m.store = j.store /\ m.plan = j.plan

\* What a call has written stands, unless it failed to or another call wrote
\* the same key.
Stands(j, v) ==
  j.pc = "work" /\ ~j.failed =>
    \A k \in DOMAIN j.plan \ j.todo : k \notin j.raced => v[j.store][k] = Written(j.plan[k])

JobsFit == \A h \in Handler : Fits(job[h], history)
WritesStand == \A h \in Handler : Stands(job[h], vault)

Inv == TypeOK /\ IsFiniteSet(Active) /\ JobsFit /\ WritesStand /\ HistoryTellsVault

-----------------------------------------------------------------------------
\* Types of the parts.

LEMMA ChangeSetFacts ==
  ASSUME NEW c \in ChangeSet
  PROVE  /\ DOMAIN c \subseteq Key
         /\ \A k \in DOMAIN c : /\ c[k] \in Change /\ c[k].operation \in Operation
                                /\ Written(c[k]) \in Value \cup {Absent}
                                /\ Outcome(c[k]) = Written(c[k])
BY DEF ChangeSet, Change, Written, Outcome

\* Changes for some keys make a change set.
LEMMA MakesChangeSet ==
  ASSUME NEW ks \in SUBSET Key, NEW c \in [ks -> Change]
  PROVE  c \in ChangeSet
BY DEF ChangeSet

LEMMA NoChangesFacts == NoChanges \in ChangeSet /\ DOMAIN NoChanges = {}
<1>1. NoChanges \in [{} -> Change] BY DEF NoChanges
<1> QED BY <1>1, MakesChangeSet DEF NoChanges

LEMMA IdleFacts ==
  /\ IdleJob \in Job /\ IdleJob.pc = "idle" /\ IdleJob.todo = {} /\ IdleJob.ready = {}
  /\ IdleJob.pit = 0 /\ IdleJob.store = "env"
<1>1. EmptySnapshot \in Snapshot BY DEF EmptySnapshot, Snapshot
<1>2. 0 \in 0..MaxPits BY PitsAreBounded
<1> QED BY <1>1, <1>2, NoChangesFacts DEF IdleJob, Job, Ops, Batches, Store

LEMMA HistoryFacts ==
  ASSUME TypeOK, NEW s \in Store
  PROVE  /\ history[s] \in Seq([changes : ChangeSet])
         /\ Len(history[s]) \in Nat
         /\ \A i \in 1..Len(history[s]) : history[s][i].changes \in ChangeSet
         /\ Replay(history[s]) \in Snapshot
<1>1. history[s] \in Seq([changes : ChangeSet]) BY DEF TypeOK
<1>2. Len(history[s]) \in Nat /\ \A i \in 1..Len(history[s]) : history[s][i].changes \in ChangeSet
  <2> DEFINE R == [changes : ChangeSet]
  <2>1. \A r \in R : r.changes \in ChangeSet OBVIOUS
  <2> HIDE DEF R
  <2>2. history[s] \in Seq(R) BY <1>1 DEF R
  <2> QED BY <2>1, <2>2
<1>3. Tells(history[s], Len(history[s]), Replay(history[s])) BY <1>2, ReplayTells
<1> QED BY <1>1, <1>2, <1>3 DEF Tells

\* Unrecorded, key by key, before and after a step.
LEMMA UnrecordedIs ==
  ASSUME NEW h \in Handler, NEW s, NEW k
  PROVE  <<s, k>> \in Unrecorded(h) <=> HandsOn(job[h], s, k)
BY DEF Unrecorded, HandsOn

LEMMA UnrecordedWillBe ==
  ASSUME NEW h \in Handler, NEW s, NEW k
  PROVE  (<<s, k>> \in Unrecorded(h))' <=> HandsOn(job'[h], s, k)
BY DEF Unrecorded, HandsOn

\* The invariant about the history, without Unrecorded.
LEMMA TellsVault ==
  HistoryTellsVault <=>
    \A s \in Store, k \in Key :
      <<s, k>> \notin doubtful /\ (\A h \in Handler : ~HandsOn(job[h], s, k)) =>
        Replay(history[s])[k] = vault[s][k]
BY UnrecordedIs DEF HistoryTellsVault

LEMMA WillTellVault ==
  HistoryTellsVault' <=>
    \A s \in Store, k \in Key :
      <<s, k>> \notin doubtful' /\ (\A h \in Handler : ~HandsOn(job'[h], s, k)) =>
        Replay(history'[s])[k] = vault'[s][k]
BY UnrecordedWillBe DEF HistoryTellsVault

-----------------------------------------------------------------------------
\* How a step changes the calls.

\* Call h goes on as j, the others stay as they are.
LEMMA OneMoves ==
  ASSUME TypeOK, NEW h \in Handler, NEW j \in Job, job' = [job EXCEPT ![h] = j]
  PROVE  /\ job' \in [Handler -> Job] /\ job'[h] = j
         /\ \A g \in Handler : g # h => job'[g] = job[g]
<1>1. job \in [Handler -> Job] BY DEF TypeOK
<1> QED BY <1>1

LEMMA FewActive ==
  ASSUME IsFiniteSet(Active), NEW h \in Handler, \A g \in Handler : g # h /\ job'[g].pc # "idle" => job[g].pc # "idle"
  PROVE  IsFiniteSet(Active)'
<1>1. IsFiniteSet(Active \cup {h}) BY FS_AddElement
<1>2. Active' \subseteq Active \cup {h} BY DEF Active
<1>3. IsFiniteSet(Active') BY <1>1, <1>2, FS_Subset
<1> QED BY <1>3

\* A step of one call that writes neither vault nor history: it may forget
\* what it has in hand only by declaring it doubtful.
LEMMA QuietKeeps ==
  ASSUME Inv, NEW h \in Handler, NEW j \in Job, job' = [job EXCEPT ![h] = j],
         vault' = vault, history' = history,
         doubtful \subseteq doubtful', doubtful' \in SUBSET (Store \X Key),
         Fits(j, history), Stands(j, vault),
         \A s \in Store, k \in Key : HandsOn(job[h], s, k) => <<s, k>> \in doubtful' \/ HandsOn(j, s, k)
  PROVE  Inv'
<1>0. TypeOK BY DEF Inv
<1>1. /\ job' \in [Handler -> Job] /\ job'[h] = j
      /\ \A g \in Handler : g # h => job'[g] = job[g]
  BY <1>0, OneMoves
<1>2. TypeOK' BY <1>0, <1>1 DEF TypeOK
<1>3. IsFiniteSet(Active)' BY <1>1, FewActive DEF Inv
<1>4. \A g \in Handler : Fits(job'[g], history') /\ Stands(job'[g], vault')
  BY <1>1 DEF Inv, JobsFit, WritesStand
<1>5. JobsFit' /\ WritesStand' BY <1>4 DEF JobsFit, WritesStand
<1>6. HistoryTellsVault'
  <2> SUFFICES ASSUME NEW s \in Store, NEW k \in Key, <<s, k>> \notin doubtful',
                      \A g \in Handler : ~HandsOn(job'[g], s, k)
               PROVE  Replay(history'[s])[k] = vault'[s][k]
    BY WillTellVault
  <2>1. <<s, k>> \notin doubtful OBVIOUS
  <2>2. \A g \in Handler : ~HandsOn(job[g], s, k) BY <1>1
  <2> QED BY <2>1, <2>2, TellsVault DEF Inv
<1> QED BY <1>2, <1>3, <1>5, <1>6 DEF Inv

\* A call that ends leaves what it has in hand doubtful.
LEMMA AbandonKeeps ==
  ASSUME Inv, NEW h \in Handler, Abandon(h), vault' = vault, history' = history
  PROVE  Inv'
<1>0. TypeOK /\ job[h] \in Job BY DEF Inv, TypeOK
<1>1. job' = [job EXCEPT ![h] = IdleJob] /\ doubtful' = doubtful \cup Unrecorded(h)
  BY DEF Abandon, Leave
<1>2. Unrecorded(h) \subseteq Store \X Key
  <2>1. job[h].store \in Store /\ DOMAIN job[h].plan \subseteq Key
    BY <1>0, ChangeSetFacts DEF Job
  <2> QED BY <2>1 DEF Unrecorded
<1>3. doubtful' \in SUBSET (Store \X Key) BY <1>0, <1>1, <1>2 DEF TypeOK
<1>4. Fits(IdleJob, history) /\ Stands(IdleJob, vault)
  <2>1. 0 <= Len(history["env"]) BY <1>0, HistoryFacts DEF Store
  <2> QED BY <2>1, IdleFacts DEF Fits, Stands
<1>5. \A s \in Store, k \in Key : HandsOn(job[h], s, k) => <<s, k>> \in doubtful'
  BY <1>1, UnrecordedIs
<1> QED BY <1>1, <1>3, <1>4, <1>5, IdleFacts, QuietKeeps

\* So does a call that leaves with nothing in hand.
LEMMA LeaveKeeps ==
  ASSUME Inv, NEW h \in Handler, Leave(h), UNCHANGED <<vault, history, doubtful>>,
         \A s \in Store, k \in Key : ~HandsOn(job[h], s, k)
  PROVE  Inv'
<1>1. Unrecorded(h) = {}
  <2>1. job[h] \in Job BY DEF Inv, TypeOK
  <2>2. job[h].store \in Store /\ DOMAIN job[h].plan \subseteq Key BY <2>1, ChangeSetFacts DEF Job
  <2> QED BY <2>2 DEF Unrecorded, HandsOn
<1>2. Abandon(h) BY <1>1 DEF Abandon
<1> QED BY <1>2, AbandonKeeps

-----------------------------------------------------------------------------
\* The initial states.
LEMMA InvInit == Init => Inv
<1> SUFFICES ASSUME Init PROVE Inv OBVIOUS
<1>1. TypeOK
  <2>1. EmptySnapshot \in Snapshot BY DEF EmptySnapshot, Snapshot
  <2>2. <<>> \in Seq([changes : ChangeSet]) OBVIOUS
  <2> QED BY <2>1, <2>2, IdleFacts DEF Init, TypeOK
<1>2. Active = {} BY IdleFacts DEF Init, Active
<1>3. \A h \in Handler : job[h] = IdleJob BY DEF Init
<1>4. Fits(IdleJob, history) /\ Stands(IdleJob, vault)
  <2>1. Len(history["env"]) = 0 BY DEF Init, Store
  <2> QED BY <2>1, IdleFacts DEF Fits, Stands
<1>5. JobsFit /\ WritesStand BY <1>3, <1>4 DEF JobsFit, WritesStand
<1>6. HistoryTellsVault
  <2>1. \A s \in Store, k \in Key : vault[s][k] = Absent /\ history[s] = <<>>
    BY DEF Init, EmptySnapshot
  <2>2. \A k \in Key : Replay(<<>>)[k] = Absent BY ReplayEmpty DEF EmptySnapshot
  <2> QED BY <2>1, <2>2 DEF HistoryTellsVault
<1>7. IsFiniteSet(Active) BY <1>2, FS_EmptySet
<1> QED BY <1>1, <1>5, <1>6, <1>7 DEF Inv

-----------------------------------------------------------------------------
(* Steps that only read.                                                   *)

LEMMA JobFacts ==
  ASSUME Inv, NEW h \in Handler
  PROVE  /\ job \in [Handler -> Job] /\ job[h] \in Job
         /\ Fits(job[h], history) /\ Stands(job[h], vault)
         /\ job[h].store \in Store /\ job[h].plan \in ChangeSet /\ DOMAIN job[h].plan \subseteq Key
         /\ doubtful \in SUBSET (Store \X Key)
<1>1. job \in [Handler -> Job] /\ job[h] \in Job BY DEF Inv, TypeOK
<1>2. job[h].plan \in ChangeSet BY <1>1 DEF Job
<1> QED BY <1>1, <1>2, ChangeSetFacts DEF Inv, TypeOK, JobsFit, WritesStand, Job

\* A call that has not begun to write keeps reading.
LEMMA ReadKeeps ==
  ASSUME Inv, NEW h \in Handler, NEW j \in Job, job' = [job EXCEPT ![h] = j],
         UNCHANGED <<vault, history, doubtful>>,
         job[h].pc # "work", j.pc # "work", Fits(j, history)
  PROVE  Inv'
<1>1. Stands(j, vault) BY DEF Stands
<1>2. \A s, k : ~HandsOn(job[h], s, k) BY DEF HandsOn
<1> QED BY <1>1, <1>2, JobFacts, QuietKeeps

\* Started jobs roll back to a PiT that exists, within the bound.
LEMMA PitInBound ==
  ASSUME Inv, NEW h \in Handler, MayStart(h), NEW s \in Store
  PROVE  Len(history[s]) \in 0..MaxPits
<1>1. Cardinality(Active) \in Nat BY FS_CardinalityType DEF Inv
<1>2. Len(history["env"]) \in Nat /\ Len(history["secret"]) \in Nat
  BY HistoryFacts DEF Inv, Store
<1>3. Len(history["env"]) + Len(history["secret"]) + Cardinality(Active) < MaxPits BY DEF MayStart
<1>4. \A l, m, n, max \in Nat : l + m + n < max => l \in 0..max /\ m \in 0..max OBVIOUS
<1>5. Len(history["env"]) \in 0..MaxPits /\ Len(history["secret"]) \in 0..MaxPits
  BY <1>1, <1>2, <1>3, <1>4, PitsAreBounded, Zenon
<1> QED BY <1>5 DEF Store

LEMMA StartMutationKeeps ==
  ASSUME Inv, NEW h \in Handler, StartMutation(h) PROVE Inv'
<1>1. PICK m \in Mutations :
        /\ MayStart(h)
        /\ job' = [job EXCEPT ![h] = [IdleJob EXCEPT
                     !.pc = "look", !.op = m.op, !.store = m.store, !.plan = m.plan,
                     !.toRead = Reads(m)]]
  BY DEF StartMutation
<1> DEFINE j == [IdleJob EXCEPT !.pc = "look", !.op = m.op, !.store = m.store, !.plan = m.plan,
                                !.toRead = Reads(m)]
<1>2. m.op \in Ops \ {"rollback"} /\ m.store \in Store /\ m.plan \in ChangeSet
  BY MutationsAreCalls
<1>3. Reads(m) \subseteq Key BY <1>2, ChangeSetFacts DEF Reads
<1>4. j \in Job BY <1>2, <1>3, IdleFacts DEF Job
<1>5. /\ j.pc = "look" /\ j.todo = {} /\ j.ready = {} /\ j.pit = 0
      /\ j.store = m.store /\ j.op = m.op /\ j.plan = m.plan
  BY IdleFacts DEF IdleJob
<1>6. job[h].pc # "work" BY <1>1 DEF MayStart
<1> HIDE DEF j
<1>7. Fits(j, history)
  <2>1. j.pit <= Len(history[j.store])
    <3>1. Len(history[m.store]) \in Nat BY <1>2, HistoryFacts DEF Inv
    <3> QED BY <1>5, <3>1
  <2>2. \E n \in Mutations : n.op = j.op /\ n.store = j.store /\ n.plan = j.plan BY <1>5
  <2> QED BY <1>5, <2>1, <2>2 DEF Fits
<1> QED BY <1>1, <1>4, <1>5, <1>6, <1>7, ReadKeeps DEF j, StartMutation

LEMMA StartRollbackKeeps ==
  ASSUME Inv, NEW h \in Handler, StartRollback(h) PROVE Inv'
<1>1. PICK s \in Rollbacks : \E p \in 0..Len(history[s]) :
        /\ MayStart(h)
        /\ \E k \in RollbackKeys \cup {Absent} :
             job' = [job EXCEPT ![h] = [IdleJob EXCEPT
                       !.pc = IF k = Absent THEN "list" ELSE "look",
                       !.op = "rollback", !.store = s, !.pit = p,
                       !.scope = IF k = Absent THEN Key ELSE {k},
                       !.toRead = IF k = Absent THEN {} ELSE {k}]]
  BY DEF StartRollback
<1>2. PICK p \in 0..Len(history[s]), k \in RollbackKeys \cup {Absent} :
        /\ MayStart(h)
        /\ job' = [job EXCEPT ![h] = [IdleJob EXCEPT
                       !.pc = IF k = Absent THEN "list" ELSE "look",
                       !.op = "rollback", !.store = s, !.pit = p,
                       !.scope = IF k = Absent THEN Key ELSE {k},
                       !.toRead = IF k = Absent THEN {} ELSE {k}]]
  BY <1>1
<1> DEFINE j == [IdleJob EXCEPT !.pc = IF k = Absent THEN "list" ELSE "look",
                       !.op = "rollback", !.store = s, !.pit = p,
                       !.scope = IF k = Absent THEN Key ELSE {k},
                       !.toRead = IF k = Absent THEN {} ELSE {k}]
<1>3. s \in Store /\ (k # Absent => k \in Key) BY RollbacksAreCalls
<1>4. Len(history[s]) \in 0..MaxPits /\ p \in 0..MaxPits /\ p <= Len(history[s])
  BY <1>2, <1>3, PitInBound, PitsAreBounded
<1>5. j \in Job BY <1>3, <1>4, IdleFacts DEF Job, Ops
<1>6. /\ j.pc \in {"list", "look"} /\ j.todo = {} /\ j.ready = {} /\ j.pit = p
      /\ j.store = s /\ j.op = "rollback"
  BY IdleFacts DEF IdleJob
<1>7. job[h].pc # "work" BY <1>2 DEF MayStart
<1> HIDE DEF j
<1>8. Fits(j, history) BY <1>4, <1>6 DEF Fits
<1> QED BY <1>2, <1>5, <1>6, <1>7, <1>8, ReadKeeps DEF j, StartRollback

LEMMA ListCandidatesKeeps ==
  ASSUME Inv, NEW h \in Handler, ListCandidates(h) PROVE Inv'
<1> DEFINE j == [job[h] EXCEPT !.pc = "look", !.toRead = Present(CurrentState(history[job[h].store]))]
<1>0. job[h] \in Job /\ job \in [Handler -> Job] /\ Fits(job[h], history) /\ job[h].pc = "list"
  BY JobFacts DEF ListCandidates
<1>1. j \in Job BY <1>0 DEF Job, Present
<1>2. job' = [job EXCEPT ![h] = j] BY <1>0 DEF ListCandidates, Job
<1>3. j.pc = "look" /\ Fits(j, history) BY <1>0 DEF Fits, Job
<1> HIDE DEF j
<1> QED BY <1>0, <1>1, <1>2, <1>3, ReadKeeps DEF ListCandidates

LEMMA LookKeeps ==
  ASSUME Inv, NEW h \in Handler, NEW k \in Key, Look(h, k) \/ LookFailsInList(h, k) PROVE Inv'
<1>0. /\ job[h] \in Job /\ job \in [Handler -> Job] /\ Fits(job[h], history) /\ job[h].pc = "look"
      /\ UNCHANGED <<vault, history, doubtful>>
  BY JobFacts DEF Look, LookFailsInList
<1>1. CASE Look(h, k)
  <2> DEFINE j == [job[h] EXCEPT !.toRead = @ \ {k}, !.seen[k] = vault[job[h].store][k]]
  <2>1. vault[job[h].store][k] \in Value \cup {Absent}
    BY <1>0 DEF Inv, TypeOK, Job, Snapshot
  <2>2. j \in Job BY <1>0, <2>1 DEF Job, Snapshot
  <2>3. job' = [job EXCEPT ![h] = j] BY <1>0, <1>1 DEF Look, Job
  <2>4. j.pc = "look" /\ Fits(j, history) BY <1>0 DEF Fits, Job
  <2> HIDE DEF j
  <2> QED BY <1>0, <2>2, <2>3, <2>4, ReadKeeps
<1>2. CASE LookFailsInList(h, k)
  <2> DEFINE j == [job[h] EXCEPT !.toRead = @ \ {k}]
  <2>2. j \in Job BY <1>0 DEF Job
  <2>3. job' = [job EXCEPT ![h] = j] BY <1>0, <1>2 DEF LookFailsInList, Job
  <2>4. j.pc = "look" /\ Fits(j, history) BY <1>0 DEF Fits, Job
  <2> HIDE DEF j
  <2> QED BY <1>0, <2>2, <2>3, <2>4, ReadKeeps
<1> QED BY <1>1, <1>2

-----------------------------------------------------------------------------
(* Steps that decide and check.                                            *)

\* A call sets out to write a plan; it has written nothing yet.
LEMMA WorkKeeps ==
  ASSUME Inv, NEW h \in Handler, NEW plan \in ChangeSet, Work(h, plan), job[h].pc = "look",
         plan = job[h].plan \/ job[h].op = "rollback",
         UNCHANGED <<vault, history, doubtful>>
  PROVE  Inv'
<1> DEFINE j == [job[h] EXCEPT !.pc = "work", !.plan = plan, !.todo = DOMAIN plan,
             !.ready = IF job[h].op \in {"batchUpdate", "batchDelete"} THEN DOMAIN plan ELSE {}]
<1>0. job[h] \in Job /\ job \in [Handler -> Job] /\ Fits(job[h], history) BY JobFacts
<1>1. DOMAIN plan \subseteq Key BY ChangeSetFacts
<1>2. j \in Job BY <1>0, <1>1 DEF Job
<1>3. job' = [job EXCEPT ![h] = j] BY <1>0 DEF Work, Job
<1>4. /\ j.todo = DOMAIN plan /\ j.plan = plan /\ j.ready \subseteq DOMAIN plan /\ j.pc = "work"
      /\ j.op = job[h].op /\ j.store = job[h].store /\ j.pit = job[h].pit
  BY <1>0 DEF Job
<1> HIDE DEF j
<1>5. Fits(j, history) /\ Stands(j, vault) BY <1>0, <1>4 DEF Fits, Stands
<1>6. \A s, k : ~HandsOn(job[h], s, k) BY DEF HandsOn
<1> QED BY <1>2, <1>3, <1>5, <1>6, JobFacts, QuietKeeps

LEMMA DecideKeeps ==
  ASSUME Inv, NEW h \in Handler, Decide(h) PROVE Inv'
<1>0. job[h].pc = "look" /\ UNCHANGED <<vault, history, doubtful>> BY DEF Decide
<1>1. CASE Leave(h) BY <1>0, <1>1, LeaveKeeps DEF HandsOn
<1>2. CASE Work(h, job[h].plan) BY <1>0, <1>2, JobFacts, WorkKeeps
<1> QED BY <1>1, <1>2 DEF Decide

\* The state a rollback goes back to, as long as the PiT is in the history.
LEMMA TargetTyped ==
  ASSUME TypeOK, NEW j \in Job, j.pit <= Len(history[j.store])
  PROVE  Target(j) \in Snapshot
<1> DEFINE rows == history[j.store]
           part == SubSeq(rows, 1, j.pit)
           R == [changes : ChangeSet]
<1>1. j.store \in Store /\ j.pit \in Nat BY PitsAreBounded DEF Job
<1>2. rows \in Seq(R) /\ Len(rows) \in Nat BY <1>1, HistoryFacts
<1>3. \A r \in R : r.changes \in ChangeSet OBVIOUS
<1> HIDE DEF R, rows
<1>4. Len(part) = j.pit /\ \A i \in 1..j.pit : part[i] = rows[i] /\ rows[i] \in R
  BY <1>1, <1>2 DEF rows
<1>5. Target(j) = Replay(part) BY DEF Target, rows
<1> HIDE DEF part
<1>6. Tells(part, Len(part), Replay(part)) BY <1>1, <1>3, <1>4, ReplayTells
<1> QED BY <1>5, <1>6 DEF Tells

\* What a rollback is to change makes a plan.
LEMMA RestorationFacts ==
  ASSUME NEW j \in Job, Target(j) \in Snapshot
  PROVE  /\ Restoration(j) \in ChangeSet
         /\ DOMAIN Restoration(j) = {k \in j.scope : j.seen[k] # Target(j)[k]}
         /\ \A k \in DOMAIN Restoration(j) : Written(Restoration(j)[k]) = Target(j)[k]
         /\ j.scope \subseteq Key
<1> DEFINE target == Target(j)
           differ == {k \in j.scope : j.seen[k] # target[k]}
           change(k) == IF target[k] = Absent THEN [operation |-> "DELETE", value |-> j.seen[k]]
                        ELSE [operation |-> IF j.seen[k] = Absent THEN "CREATE" ELSE "UPDATE",
                              value |-> target[k]]
<1>1. Restoration(j) = [k \in differ |-> change(k)] BY DEF Restoration
<1>2. j.scope \subseteq Key /\ j.seen \in Snapshot BY DEF Job
<1>3. differ \subseteq Key BY <1>2
<1>4. ASSUME NEW k \in differ
      PROVE  change(k) \in Change /\ Written(change(k)) = target[k]
  <2>1. /\ j.seen[k] \in Value \cup {Absent} /\ target[k] \in Value \cup {Absent}
        /\ j.seen[k] # target[k]
    BY <1>2, <1>4 DEF Snapshot
  <2> HIDE DEF target
  <2>2. CASE target[k] = Absent BY <2>1, <2>2 DEF Change, Operation, Written
  <2>3. CASE target[k] # Absent BY <2>1, <2>3 DEF Change, Operation, Written
  <2> QED BY <2>2, <2>3
<1> HIDE DEF change
<1>5. [k \in differ |-> change(k)] \in [differ -> Change] BY <1>4
<1> HIDE DEF differ
<1>6. Restoration(j) \in ChangeSet BY <1>1, <1>3, <1>5, MakesChangeSet
<1>7. DOMAIN Restoration(j) = differ /\ \A k \in differ : Restoration(j)[k] = change(k) BY <1>1
<1> QED BY <1>2, <1>4, <1>6, <1>7 DEF differ

LEMMA DecideRollbackKeeps ==
  ASSUME Inv, NEW h \in Handler, DecideRollback(h) PROVE Inv'
<1>0. /\ job[h].pc = "look" /\ job[h].op = "rollback" /\ UNCHANGED <<vault, history, doubtful>>
      /\ job[h] \in Job
  BY JobFacts DEF DecideRollback
<1>1. CASE Leave(h) BY <1>0, <1>1, LeaveKeeps DEF HandsOn
<1>2. CASE Work(h, Restoration(job[h]))
  <2>1. Target(job[h]) \in Snapshot BY <1>0, JobFacts, TargetTyped DEF Inv, Fits
  <2>2. Restoration(job[h]) \in ChangeSet BY <1>0, <2>1, RestorationFacts
  <2> QED BY <1>0, <1>2, <2>2, WorkKeeps
<1> QED BY <1>1, <1>2 DEF DecideRollback

\* A check lets some of the remaining keys pass.
LEMMA ReadyKeeps ==
  ASSUME Inv, NEW h \in Handler, NEW ks, ks \subseteq job[h].todo,
         job' = [job EXCEPT ![h].ready = ks], UNCHANGED <<vault, history, doubtful>>
  PROVE  Inv'
<1> DEFINE j == [job[h] EXCEPT !.ready = ks]
<1>0. /\ job[h] \in Job /\ job \in [Handler -> Job] /\ Fits(job[h], history) /\ Stands(job[h], vault)
  BY JobFacts
<1>1. j \in Job BY <1>0 DEF Job
<1>2. job' = [job EXCEPT ![h] = j] BY <1>0 DEF Job
<1>3. /\ j.pc = job[h].pc /\ j.todo = job[h].todo /\ j.plan = job[h].plan /\ j.ready = ks
      /\ j.op = job[h].op /\ j.store = job[h].store /\ j.pit = job[h].pit
      /\ j.failed = job[h].failed /\ j.raced = job[h].raced
  BY <1>0 DEF Job
<1> HIDE DEF j
<1>4. Fits(j, history) /\ Stands(j, vault) BY <1>0, <1>3 DEF Fits, Stands
<1>5. \A s, k : HandsOn(job[h], s, k) => HandsOn(j, s, k) BY <1>3 DEF HandsOn
<1> QED BY <1>1, <1>2, <1>4, <1>5, JobFacts, QuietKeeps

LEMMA CheckBatchKeeps ==
  ASSUME Inv, NEW h \in Handler, CheckBatch(h) PROVE Inv'
<1>0. job[h].todo = DOMAIN job[h].plan /\ UNCHANGED <<vault, history, doubtful>> BY DEF CheckBatch
<1>1. CASE Leave(h) BY <1>0, <1>1, LeaveKeeps DEF HandsOn
<1>2. CASE job' = [job EXCEPT ![h].ready = job[h].todo] BY <1>0, <1>2, ReadyKeeps
<1> QED BY <1>1, <1>2 DEF CheckBatch

LEMMA CheckItemKeeps ==
  ASSUME Inv, NEW h \in Handler, NEW k \in Key, CheckItem(h, k) PROVE Inv'
<1>0. k \in job[h].todo /\ vault' = vault /\ history' = history BY DEF CheckItem
<1>1. CASE Abandon(h) BY <1>0, <1>1, AbandonKeeps
<1>2. CASE job' = [job EXCEPT ![h].ready = {k}] /\ UNCHANGED doubtful BY <1>0, <1>2, ReadyKeeps
<1> QED BY <1>1, <1>2 DEF CheckItem

-----------------------------------------------------------------------------
(* Steps that write.                                                       *)

\* Every other call that has the key in hand learns of the write.
LEMMA CrossedFacts ==
  ASSUME Inv, NEW h \in Handler, NEW k \in Key
  PROVE  /\ Crossed(h, k) \in [Handler -> Job]
         /\ \A g \in Handler \ {h} :
              LET c == Crossed(h, k)[g] IN
              /\ c.pc = job[g].pc /\ c.op = job[g].op /\ c.store = job[g].store
              /\ c.plan = job[g].plan /\ c.todo = job[g].todo /\ c.ready = job[g].ready
              /\ c.pit = job[g].pit /\ c.failed = job[g].failed /\ job[g].raced \subseteq c.raced
              /\ HandsOn(job[g], job[h].store, k) => k \in c.raced
         /\ Crossed(h, k)[h] = job[h]
<1>1. \A g \in Handler : job[g] \in Job BY JobFacts
<1>2. \A g \in Handler : Crossed(h, k)[g] =
        IF g \in Crossing(h, k) THEN [job[g] EXCEPT !.raced = @ \cup {k}] ELSE job[g]
  BY DEF Crossed
<1>3. \A g \in Handler : g \in Crossing(h, k) <=> g # h /\ HandsOn(job[g], job[h].store, k)
  BY UnrecordedIs DEF Crossing
<1>4. \A g \in Handler : [job[g] EXCEPT !.raced = @ \cup {k}] \in Job
  BY <1>1 DEF Job
<1>5. Crossed(h, k) \in [Handler -> Job]
  <2>1. \A g \in Handler : Crossed(h, k)[g] \in Job BY <1>1, <1>2, <1>4
  <2> HIDE DEF Crossing
  <2> QED BY <2>1 DEF Crossed
<1>6. ASSUME NEW g \in Handler \ {h}
      PROVE  LET c == Crossed(h, k)[g] IN
              /\ c.pc = job[g].pc /\ c.op = job[g].op /\ c.store = job[g].store
              /\ c.plan = job[g].plan /\ c.todo = job[g].todo /\ c.ready = job[g].ready
              /\ c.pit = job[g].pit /\ c.failed = job[g].failed /\ job[g].raced \subseteq c.raced
              /\ HandsOn(job[g], job[h].store, k) => k \in c.raced
  <2>1. CASE g \in Crossing(h, k)
    <3>1. Crossed(h, k)[g] = [job[g] EXCEPT !.raced = @ \cup {k}] /\ job[g] \in Job
      BY <1>1, <1>2, <2>1
    <3> QED BY <3>1 DEF Job
  <2>2. CASE g \notin Crossing(h, k)
    <3>1. Crossed(h, k)[g] = job[g] BY <1>2, <2>2
    <3> QED BY <1>3, <2>2, <3>1
  <2> QED BY <2>1, <2>2
<1>7. Crossed(h, k)[h] = job[h] BY <1>2, <1>3
<1> QED BY <1>5, <1>6, <1>7

\* A write of call h, with or without effect, after which it goes on as j and
\* has the key in hand or has declared it doubtful.
LEMMA WriteStep ==
  ASSUME Inv, NEW h \in Handler, NEW k \in Key, NEW j \in Job, k \in job[h].ready,
         job' = [Crossed(h, k) EXCEPT ![h] = j], history' = history,
         Put(h, k) \/ vault' = vault,
         doubtful \subseteq doubtful', doubtful' \in SUBSET (Store \X Key),
         j.pc # "idle" => job[h].pc # "idle",
         Fits(j, history), Stands(j, vault'),
         \A s \in Store, q \in Key :
           HandsOn(job[h], s, q) \/ (s = job[h].store /\ q = k) =>
             <<s, q>> \in doubtful' \/ HandsOn(j, s, q)
  PROVE  Inv'
<1>0. TypeOK /\ job[h] \in Job /\ Fits(job[h], history) /\ job[h].store \in Store
  BY JobFacts DEF Inv
<1> DEFINE st == job[h].store
<1>1. /\ job' \in [Handler -> Job] /\ job'[h] = j
      /\ \A g \in Handler \ {h} : job'[g] = Crossed(h, k)[g]
  BY CrossedFacts
<1>2. vault' \in [Store -> Snapshot]
      /\ \A s \in Store, q \in Key : s # st \/ q # k => vault'[s][q] = vault[s][q]
  <2>1. CASE vault' = vault BY <2>1, <1>0 DEF TypeOK
  <2>2. CASE Put(h, k)
    <3>1. Written(job[h].plan[k]) \in Value \cup {Absent}
      BY <1>0, JobFacts, ChangeSetFacts DEF Fits
    <3> QED BY <1>0, <2>2, <3>1 DEF Put, TypeOK, Snapshot
  <2> QED BY <2>1, <2>2
<1>3. TypeOK' BY <1>0, <1>1, <1>2 DEF TypeOK
<1>4. IsFiniteSet(Active)'
  <2>1. \A g \in Handler : g # h /\ job'[g].pc # "idle" => job[g].pc # "idle" BY <1>1, CrossedFacts
  <2> QED BY <2>1, FewActive DEF Inv
<1>5. ASSUME NEW g \in Handler PROVE Fits(job'[g], history') /\ Stands(job'[g], vault')
  <2>1. CASE g = h BY <1>1, <2>1
  <2>2. CASE g # h
    <3>1. Fits(job[g], history) /\ Stands(job[g], vault) BY JobFacts
    <3>2. /\ job'[g].pc = job[g].pc /\ job'[g].op = job[g].op /\ job'[g].store = job[g].store
          /\ job'[g].plan = job[g].plan /\ job'[g].todo = job[g].todo /\ job'[g].ready = job[g].ready
          /\ job'[g].pit = job[g].pit /\ job'[g].failed = job[g].failed
          /\ job[g].raced \subseteq job'[g].raced
          /\ HandsOn(job[g], st, k) => k \in job'[g].raced
      BY <1>1, <2>2, CrossedFacts
    <3>3. Fits(job'[g], history') BY <3>1, <3>2 DEF Fits
    <3>4. job[g].store \in Store /\ DOMAIN job[g].plan \subseteq Key BY JobFacts
    <3>5. Stands(job'[g], vault')
      <4> SUFFICES ASSUME job[g].pc = "work", ~job[g].failed,
                          NEW q \in DOMAIN job[g].plan \ job[g].todo, q \notin job'[g].raced
                   PROVE  vault'[job[g].store][q] = Written(job[g].plan[q])
        BY <3>2 DEF Stands
      <4>1. vault[job[g].store][q] = Written(job[g].plan[q]) BY <3>1, <3>2 DEF Stands
      <4>2. job[g].store # st \/ q # k BY <3>2 DEF HandsOn
      <4> QED BY <1>2, <3>4, <4>1, <4>2
    <3> QED BY <3>3, <3>5
  <2> QED BY <2>1, <2>2
<1>6. JobsFit' /\ WritesStand' BY <1>5 DEF JobsFit, WritesStand
<1>7. HistoryTellsVault'
  <2> SUFFICES ASSUME NEW s \in Store, NEW q \in Key, <<s, q>> \notin doubtful',
                      \A g \in Handler : ~HandsOn(job'[g], s, q)
               PROVE  Replay(history'[s])[q] = vault'[s][q]
    BY WillTellVault
  <2>1. <<s, q>> \notin doubtful /\ ~HandsOn(j, s, q) BY <1>1
  <2>2. ~HandsOn(job[h], s, q) /\ (s # st \/ q # k) BY <2>1
  <2>3. \A g \in Handler \ {h} : ~HandsOn(job[g], s, q) BY <1>1, CrossedFacts DEF HandsOn
  <2>4. Replay(history[s])[q] = vault[s][q] BY <2>1, <2>2, <2>3, TellsVault DEF Inv
  <2> QED BY <1>2, <2>2, <2>4
<1> QED BY <1>3, <1>4, <1>6, <1>7 DEF Inv

\* What is left of a call after it wrote key k.
LEMMA AfterWrite ==
  ASSUME Inv, NEW h \in Handler, NEW k \in Key, k \in job[h].ready,
         NEW j \in Job, j.pc = job[h].pc, j.op = job[h].op, j.store = job[h].store,
         j.plan = job[h].plan, j.pit = job[h].pit,
         j.todo = job[h].todo \ {k}, j.ready = job[h].ready \ {k}
  PROVE  /\ Fits(j, history) /\ j.pc = "work"
         /\ \A s \in Store, q \in Key :
              HandsOn(job[h], s, q) \/ (s = job[h].store /\ q = k) => HandsOn(j, s, q)
<1>1. Fits(job[h], history) BY JobFacts
<1>2. job[h].pc = "work" /\ k \in DOMAIN job[h].plan /\ k \in job[h].todo BY <1>1 DEF Fits
<1>3. Fits(j, history) BY <1>1, <1>2 DEF Fits
<1> QED BY <1>2, <1>3 DEF HandsOn

LEMMA WriteKeeps ==
  ASSUME Inv, NEW h \in Handler, NEW k \in Key, Write(h, k) PROVE Inv'
<1> DEFINE r == IF Crossing(h, k) = {} THEN job[h].raced ELSE job[h].raced \cup {k}
           j == [job[h] EXCEPT !.todo = @ \ {k}, !.ready = @ \ {k}, !.raced = r]
<1>0. /\ job[h] \in Job /\ Stands(job[h], vault) /\ k \in job[h].ready /\ Put(h, k)
      /\ UNCHANGED <<history, doubtful>>
  BY JobFacts DEF Write
<1>1. j \in Job BY <1>0 DEF Job
<1>2. job' = [Crossed(h, k) EXCEPT ![h] = j]
  <2>1. Crossed(h, k) \in [Handler -> Job] /\ Crossed(h, k)[h] = job[h] BY CrossedFacts
  <2> QED BY <2>1 DEF Write, Job
<1>3. /\ j.pc = job[h].pc /\ j.op = job[h].op /\ j.store = job[h].store /\ j.plan = job[h].plan
      /\ j.pit = job[h].pit /\ j.todo = job[h].todo \ {k} /\ j.ready = job[h].ready \ {k}
      /\ j.raced = r /\ j.failed = job[h].failed
  BY <1>0 DEF Job
<1> HIDE DEF j
<1>4. /\ Fits(j, history) /\ j.pc = "work"
      /\ \A s \in Store, q \in Key :
           HandsOn(job[h], s, q) \/ (s = job[h].store /\ q = k) => HandsOn(j, s, q)
  BY <1>0, <1>1, <1>3, AfterWrite
<1>5. Stands(j, vault')
  <2> SUFFICES ASSUME ~j.failed, NEW q \in DOMAIN j.plan \ j.todo, q \notin j.raced
               PROVE  vault'[j.store][q] = Written(j.plan[q])
    BY DEF Stands
  <2>0. job[h].store \in Store /\ q \in Key /\ vault \in [Store -> Snapshot]
    BY <1>3, JobFacts DEF Inv, TypeOK
  <2>1. vault' = [vault EXCEPT ![job[h].store][k] = Written(job[h].plan[k])] BY <1>0 DEF Put
  <2>2. CASE q = k BY <1>3, <2>0, <2>1, <2>2 DEF Snapshot
  <2>3. CASE q # k
    <3>1. vault[job[h].store][q] = Written(job[h].plan[q]) BY <1>0, <1>3, <1>4, <2>3 DEF Stands
    <3> QED BY <1>3, <2>0, <2>1, <2>3, <3>1 DEF Snapshot
  <2> QED BY <2>2, <2>3
<1>6. /\ doubtful \subseteq doubtful' /\ doubtful' \in SUBSET (Store \X Key)
      /\ job[h].pc # "idle"
  BY <1>0, <1>3, <1>4, JobFacts
<1>7. \A s \in Store, q \in Key :
        HandsOn(job[h], s, q) \/ (s = job[h].store /\ q = k) =>
          <<s, q>> \in doubtful' \/ HandsOn(j, s, q)
  BY <1>4
<1> HIDE DEF r
<1> QED BY <1>0, <1>1, <1>2, <1>4, <1>5, <1>6, <1>7, WriteStep

LEMMA WriteFailsKeeps ==
  ASSUME Inv, NEW h \in Handler, NEW k \in Key, WriteFails(h, k) PROVE Inv'
<1>0. /\ job[h] \in Job /\ k \in job[h].ready /\ (Put(h, k) \/ vault' = vault) /\ history' = history
      /\ doubtful \in SUBSET (Store \X Key)
  BY JobFacts DEF WriteFails
<1>c. Crossed(h, k) \in [Handler -> Job] /\ Crossed(h, k)[h] = job[h] BY CrossedFacts
<1>1. CASE /\ job' = [Crossed(h, k) EXCEPT
                 ![h].todo = @ \ {k}, ![h].ready = @ \ {k}, ![h].failed = TRUE]
           /\ UNCHANGED doubtful
  <2> DEFINE j == [job[h] EXCEPT !.todo = @ \ {k}, !.ready = @ \ {k}, !.failed = TRUE]
  <2>1. j \in Job BY <1>0 DEF Job
  <2>2. job' = [Crossed(h, k) EXCEPT ![h] = j] BY <1>c, <1>1 DEF Job
  <2>3. /\ j.pc = job[h].pc /\ j.op = job[h].op /\ j.store = job[h].store /\ j.plan = job[h].plan
        /\ j.pit = job[h].pit /\ j.todo = job[h].todo \ {k} /\ j.ready = job[h].ready \ {k}
        /\ j.failed
    BY <1>0 DEF Job
  <2> HIDE DEF j
  <2>4. /\ Fits(j, history)
        /\ \A s \in Store, q \in Key :
             HandsOn(job[h], s, q) \/ (s = job[h].store /\ q = k) => HandsOn(j, s, q)
    BY <1>0, <2>1, <2>3, AfterWrite
  <2>5. Stands(j, vault') BY <2>3 DEF Stands
  <2>6. doubtful \subseteq doubtful' /\ doubtful' \in SUBSET (Store \X Key) BY <1>0, <1>1
  <2>7. \A s \in Store, q \in Key :
          HandsOn(job[h], s, q) \/ (s = job[h].store /\ q = k) =>
            <<s, q>> \in doubtful' \/ HandsOn(j, s, q)
    BY <2>4
  <2>8. j.pc # "idle" => job[h].pc # "idle" BY <2>3
  <2> QED BY <1>0, <2>1, <2>2, <2>4, <2>5, <2>6, <2>7, <2>8, WriteStep
<1>2. CASE /\ job' = [Crossed(h, k) EXCEPT ![h] = IdleJob]
           /\ doubtful' = doubtful \cup Unrecorded(h) \cup {<<job[h].store, k>>}
  <2>1. \A s \in Store, q \in Key :
          HandsOn(job[h], s, q) \/ (s = job[h].store /\ q = k) => <<s, q>> \in doubtful'
    BY <1>2, UnrecordedIs
  <2>2. doubtful' \in SUBSET (Store \X Key)
    <3>1. job[h].store \in Store /\ DOMAIN job[h].plan \subseteq Key BY JobFacts
    <3>2. Unrecorded(h) \subseteq Store \X Key BY <3>1 DEF Unrecorded
    <3> QED BY <1>0, <1>2, <3>1, <3>2
  <2>3. Fits(IdleJob, history) /\ Stands(IdleJob, vault')
    <3>1. Len(history["env"]) \in Nat BY HistoryFacts DEF Inv, Store
    <3> QED BY <3>1, IdleFacts DEF Fits, Stands
  <2>4. doubtful \subseteq doubtful' BY <1>2
  <2> QED BY <1>0, <1>2, <2>1, <2>2, <2>3, <2>4, IdleFacts, WriteStep
<1> QED BY <1>1, <1>2 DEF WriteFails

-----------------------------------------------------------------------------
(* The PiT.                                                                *)

\* The history after a PiT with changes c.
LEMMA PitAppended ==
  ASSUME TypeOK, NEW s \in Store, NEW c \in ChangeSet
  PROVE  /\ Append(history[s], [changes |-> c]) \in Seq([changes : ChangeSet])
         /\ Len(Append(history[s], [changes |-> c])) = Len(history[s]) + 1
         /\ Replay(Append(history[s], [changes |-> c])) = ApplyChanges(Replay(history[s]), c)
<1> DEFINE R == [changes : ChangeSet]
           e == [changes |-> c]
<1>1. history[s] \in Seq(R) /\ e \in R /\ e.changes = c BY DEF TypeOK
<1>2. \A r \in R : r.changes \in ChangeSet OBVIOUS
<1> HIDE DEF R, e
<1>3. Replay(Append(history[s], e)) = ApplyChanges(Replay(history[s]), e.changes)
  BY <1>1, <1>2, ReplayAppend
<1>4. Append(history[s], e) \in Seq(R) /\ Len(Append(history[s], e)) = Len(history[s]) + 1 BY <1>1
<1> QED BY <1>1, <1>3, <1>4 DEF R, e

\* What Record does, key by key.
LEMMA RecordFacts ==
  ASSUME Inv, NEW h \in Handler, Record(h)
  PROVE  LET j == job[h] IN
         /\ j.pc = "work" /\ j.todo = {} /\ ~j.failed
         /\ job' = [job EXCEPT ![h] = IdleJob] /\ vault' = vault
         /\ history' \in [Store -> Seq([changes : ChangeSet])]
         /\ doubtful' \in SUBSET (Store \X Key)
         /\ \A s \in Store : Len(history[s]) <= Len(history'[s])
         /\ \A s \in Store \ {j.store} : history'[s] = history[s]
         /\ history'[j.store] = Append(history[j.store], [changes |-> j.plan])
         /\ \A k \in Key : Replay(history'[j.store])[k] =
              IF k \in DOMAIN j.plan THEN Written(j.plan[k]) ELSE Replay(history[j.store])[k]
         /\ \A s \in Store, k \in Key : <<s, k>> \notin doubtful' =>
              IF s = j.store /\ k \in DOMAIN j.plan THEN k \notin j.raced ELSE <<s, k>> \notin doubtful
<1> DEFINE j == job[h]
           more == Append(history[j.store], [changes |-> j.plan])
<1>0. j \in Job /\ j.store \in Store /\ j.plan \in ChangeSet /\ DOMAIN j.plan \subseteq Key /\ TypeOK
  BY JobFacts DEF Inv
<1>1. /\ j.pc = "work" /\ j.todo = {} /\ ~j.failed
      /\ job' = [job EXCEPT ![h] = IdleJob] /\ vault' = vault
      /\ history' = [history EXCEPT ![j.store] = more]
      /\ doubtful' = (doubtful \ ({j.store} \X DOMAIN j.plan)) \cup ({j.store} \X j.raced)
  BY DEF Record, Recordable, Leave
<1>2. /\ more \in Seq([changes : ChangeSet]) /\ Len(more) = Len(history[j.store]) + 1
      /\ Replay(more) = ApplyChanges(Replay(history[j.store]), j.plan)
  BY <1>0, PitAppended
<1> HIDE DEF more
<1>3. history'[j.store] = more /\ \A s \in Store \ {j.store} : history'[s] = history[s]
  BY <1>0, <1>1 DEF TypeOK
<1>4. history' \in [Store -> Seq([changes : ChangeSet])] BY <1>0, <1>1, <1>2 DEF TypeOK
<1>5. \A s \in Store : Len(history[s]) <= Len(history'[s])
  <2>1. \A s \in Store : Len(history[s]) \in Nat BY <1>0, HistoryFacts
  <2> QED BY <1>2, <1>3, <2>1
<1>6. doubtful' \in SUBSET (Store \X Key) BY <1>0, <1>1 DEF TypeOK, Job
<1>7. ASSUME NEW k \in Key
      PROVE  Replay(history'[j.store])[k] =
              IF k \in DOMAIN j.plan THEN Written(j.plan[k]) ELSE Replay(history[j.store])[k]
  BY <1>2, <1>3 DEF ApplyChanges, Written
<1>8. ASSUME NEW s \in Store, NEW k \in Key, <<s, k>> \notin doubtful'
      PROVE  IF s = j.store /\ k \in DOMAIN j.plan THEN k \notin j.raced ELSE <<s, k>> \notin doubtful
  BY <1>1, <1>8
<1> QED BY <1>1, <1>3, <1>4, <1>5, <1>6, <1>7, <1>8 DEF more

\* A PiT tells of every key what its call has left in the vault, unless
\* another call wrote the key in between.
LEMMA RecordKeeps ==
  ASSUME Inv, NEW h \in Handler, Record(h) PROVE Inv'
<1> DEFINE j == job[h]
<1>0. TypeOK /\ j \in Job /\ j.store \in Store /\ Stands(j, vault) BY JobFacts DEF Inv
<1>1. /\ j.pc = "work" /\ j.todo = {} /\ ~j.failed
      /\ job' = [job EXCEPT ![h] = IdleJob] /\ vault' = vault
      /\ history' \in [Store -> Seq([changes : ChangeSet])]
      /\ doubtful' \in SUBSET (Store \X Key)
      /\ \A s \in Store : Len(history[s]) <= Len(history'[s])
      /\ \A s \in Store \ {j.store} : history'[s] = history[s]
  BY RecordFacts
<1>2. \A k \in Key : Replay(history'[j.store])[k] =
        IF k \in DOMAIN j.plan THEN Written(j.plan[k]) ELSE Replay(history[j.store])[k]
  BY RecordFacts
<1>3. \A s \in Store, k \in Key : <<s, k>> \notin doubtful' =>
        IF s = j.store /\ k \in DOMAIN j.plan THEN k \notin j.raced ELSE <<s, k>> \notin doubtful
  BY RecordFacts
<1>4. /\ job' \in [Handler -> Job] /\ job'[h] = IdleJob
      /\ \A g \in Handler : g # h => job'[g] = job[g]
  BY <1>0, <1>1, IdleFacts, OneMoves
<1>5. TypeOK' BY <1>0, <1>1, <1>4 DEF TypeOK
<1>6. IsFiniteSet(Active)'
  <2>1. \A g \in Handler : g # h /\ job'[g].pc # "idle" => job[g].pc # "idle" BY <1>4
  <2> QED BY <2>1, FewActive DEF Inv
<1>7. ASSUME NEW g \in Handler PROVE Fits(job'[g], history') /\ Stands(job'[g], vault')
  <2>0. \A s \in Store : Len(history[s]) \in Nat /\ Len(history'[s]) \in Nat
    <3>1. \A s \in Store : history'[s] \in Seq([changes : ChangeSet]) BY <1>1
    <3> QED BY <1>0, <3>1, HistoryFacts
  <2>1. CASE g = h
    <3>1. 0 <= Len(history'["env"]) BY <2>0 DEF Store
    <3> QED BY <1>4, <2>1, <3>1, IdleFacts DEF Fits, Stands
  <2>2. CASE g # h
    <3>1. job'[g] = job[g] /\ Fits(job[g], history) /\ Stands(job[g], vault) BY <1>4, <2>2, JobFacts
    <3>2. job[g].store \in Store /\ job[g].pit \in Int BY JobFacts, PitsAreBounded DEF Job
    <3>3. job[g].pit <= Len(history'[job[g].store])
      <4>1. job[g].pit <= Len(history[job[g].store]) BY <3>1 DEF Fits
      <4> QED BY <1>1, <2>0, <3>2, <4>1
    <3> QED BY <1>1, <3>1, <3>3 DEF Fits
  <2> QED BY <2>1, <2>2
<1>8. JobsFit' /\ WritesStand' BY <1>7 DEF JobsFit, WritesStand
<1>9. HistoryTellsVault'
  <2> SUFFICES ASSUME NEW s \in Store, NEW k \in Key, <<s, k>> \notin doubtful',
                      \A g \in Handler : ~HandsOn(job'[g], s, k)
               PROVE  Replay(history'[s])[k] = vault[s][k]
    BY <1>1, WillTellVault
  <2>1. CASE s = j.store /\ k \in DOMAIN j.plan
    <3>1. k \notin j.raced BY <1>3, <2>1
    <3>2. vault[s][k] = Written(j.plan[k]) BY <1>0, <1>1, <2>1, <3>1 DEF Stands
    <3> QED BY <1>2, <2>1, <3>2
  <2>2. CASE ~(s = j.store /\ k \in DOMAIN j.plan)
    <3>1. <<s, k>> \notin doubtful BY <1>3, <2>2
    <3>2. ~HandsOn(j, s, k) BY <2>2 DEF HandsOn
    <3>3. \A g \in Handler : ~HandsOn(job[g], s, k) BY <1>4, <3>2
    <3>4. Replay(history[s])[k] = vault[s][k] BY <3>1, <3>3, TellsVault DEF Inv
    <3>5. Replay(history'[s])[k] = Replay(history[s])[k] BY <1>1, <1>2, <2>2
    <3> QED BY <3>4, <3>5
  <2> QED BY <2>1, <2>2
<1> QED BY <1>5, <1>6, <1>8, <1>9 DEF Inv

-----------------------------------------------------------------------------
\* Every step keeps the invariant.
LEMMA InvNext == Inv /\ [Next]_vars => Inv'
<1> SUFFICES ASSUME Inv, [Next]_vars PROVE Inv' OBVIOUS
<1>1. CASE UNCHANGED vars
  <2>1. UNCHANGED <<vault, history, job, doubtful>> BY <1>1 DEF vars
  <2>2. TypeOK' /\ IsFiniteSet(Active)' BY <2>1 DEF Inv, TypeOK, Active
  <2>3. JobsFit' /\ WritesStand' BY <2>1 DEF Inv, JobsFit, WritesStand
  <2>4. HistoryTellsVault' BY <2>1, TellsVault, WillTellVault DEF Inv
  <2> QED BY <2>2, <2>3, <2>4 DEF Inv
<1>2. ASSUME NEW h \in Handler,
             \/ StartMutation(h) \/ StartRollback(h) \/ ListCandidates(h)
             \/ Decide(h) \/ DecideRollback(h) \/ CheckBatch(h) \/ Record(h)
      PROVE  Inv'
  BY <1>2, StartMutationKeeps, StartRollbackKeeps, ListCandidatesKeeps, DecideKeeps,
     DecideRollbackKeeps, CheckBatchKeeps, RecordKeeps
<1>3. ASSUME NEW h \in Handler, EndsUnrecorded(h) \/ Throw(h) \/ Crash(h)
      PROVE  Inv'
  BY <1>3, AbandonKeeps DEF EndsUnrecorded, Throw, Crash
<1>4. ASSUME NEW h \in Handler, NEW k \in Key,
             \/ Look(h, k) \/ LookFailsInList(h, k)
             \/ CheckItem(h, k) \/ Write(h, k) \/ WriteFails(h, k)
      PROVE  Inv'
  BY <1>4, LookKeeps, CheckItemKeeps, WriteKeeps, WriteFailsKeeps
<1> QED BY <1>1, <1>2, <1>3, <1>4 DEF Next

LEMMA InvAlways == Spec => []Inv
BY InvInit, InvNext, PTL DEF Spec

\* Entries, histories and calls keep their types.
THEOREM TypeCorrect == Spec => []TypeOK
<1>1. Inv => TypeOK BY DEF Inv
<1> QED BY <1>1, InvAlways, PTL

\* Whatever overlaps, fails or dies half-way: an entry nobody has in hand
\* whose last write was recorded without another in between is what its
\* history replays to.
THEOREM HistoryTellsVaultAlways == Spec => []HistoryTellsVault
<1>1. Inv => HistoryTellsVault BY DEF Inv
<1> QED BY <1>1, InvAlways, PTL

-----------------------------------------------------------------------------
(* A single call at a time.                                                *)

\* No two handlers.
OneHandler == \A g, h \in Handler : g = h

\* The one endpoint that writes a name without looking for it in the other
\* store is not called.
NamesAreChecked == \A m \in Mutations : ~(m.op = "batchUpdate" /\ m.store = "env")

\* While a call reads, what it has read is still there; a key whose check has
\* passed is not in the other store, or is about to be deleted.
Safe(j, v) ==
  /\ j.pc \in {"list", "look"} => \A k \in Key : j.seen[k] \in {Absent, v[j.store][k]}
  /\ \A k \in j.ready : Written(j.plan[k]) = Absent \/ v[Other(j.store)][k] = Absent

NamesApart == KeyLivesOnce /\ \A h \in Handler : Safe(job[h], vault)

LEMMA IdleIsSafe == \A v : Safe(IdleJob, v)
BY IdleFacts DEF Safe

\* A key is in one of the two stores at most.
LEMMA LivesOnce ==
  /\ KeyLivesOnce <=> \A k \in Key : vault["env"][k] = Absent \/ vault["secret"][k] = Absent
  /\ KeyLivesOnce => \A s \in Store, k \in Key : vault[s][k] = Absent \/ vault[Other(s)][k] = Absent
BY DEF KeyLivesOnce, Store, Other

\* Whatever the one call goes on as, it is the only one.
LEMMA AloneIsSafe ==
  ASSUME OneHandler, NEW h \in Handler, KeyLivesOnce', Safe(job'[h], vault')
  PROVE  NamesApart'
<1>1. \A g \in Handler : g = h BY DEF OneHandler
<1>2. \A g \in Handler : Safe(job'[g], vault') BY <1>1
<1> QED BY <1>2 DEF NamesApart

\* It goes on as j and writes nothing.
LEMMA QuietIsSafe ==
  ASSUME Inv, NamesApart, OneHandler, NEW h \in Handler, NEW j,
         job' = [job EXCEPT ![h] = j], vault' = vault, Safe(j, vault)
  PROVE  NamesApart'
<1>1. job'[h] = j BY JobFacts
<1>2. KeyLivesOnce' BY DEF NamesApart, KeyLivesOnce
<1> QED BY <1>1, <1>2, AloneIsSafe

LEMMA StartIsSafe ==
  ASSUME Inv, NamesApart, OneHandler, NEW h \in Handler, StartMutation(h) \/ StartRollback(h)
  PROVE  NamesApart'
<1>1. PICK j : /\ job' = [job EXCEPT ![h] = j] /\ vault' = vault
               /\ j.seen = EmptySnapshot /\ j.ready = {}
  <2>1. CASE StartMutation(h)
    <3>1. PICK m \in Mutations :
            job' = [job EXCEPT ![h] = [IdleJob EXCEPT !.pc = "look", !.op = m.op,
                      !.store = m.store, !.plan = m.plan, !.toRead = Reads(m)]]
      BY <2>1 DEF StartMutation
    <3> QED BY <2>1, <3>1 DEF StartMutation, IdleJob
  <2>2. CASE StartRollback(h)
    <3>1. PICK s \in Rollbacks : \E p \in 0..Len(history[s]), k \in RollbackKeys \cup {Absent} :
            job' = [job EXCEPT ![h] = [IdleJob EXCEPT
                       !.pc = IF k = Absent THEN "list" ELSE "look",
                       !.op = "rollback", !.store = s, !.pit = p,
                       !.scope = IF k = Absent THEN Key ELSE {k},
                       !.toRead = IF k = Absent THEN {} ELSE {k}]]
      BY <2>2 DEF StartRollback
    <3>2. PICK p \in 0..Len(history[s]), k \in RollbackKeys \cup {Absent} :
            job' = [job EXCEPT ![h] = [IdleJob EXCEPT
                       !.pc = IF k = Absent THEN "list" ELSE "look",
                       !.op = "rollback", !.store = s, !.pit = p,
                       !.scope = IF k = Absent THEN Key ELSE {k},
                       !.toRead = IF k = Absent THEN {} ELSE {k}]]
      BY <3>1
    <3> DEFINE j == [IdleJob EXCEPT
                       !.pc = IF k = Absent THEN "list" ELSE "look",
                       !.op = "rollback", !.store = s, !.pit = p,
                       !.scope = IF k = Absent THEN Key ELSE {k},
                       !.toRead = IF k = Absent THEN {} ELSE {k}]
    <3>3. j.seen = EmptySnapshot /\ j.ready = {} BY DEF IdleJob
    <3>4. job' = [job EXCEPT ![h] = j] BY <3>2
    <3> HIDE DEF j
    <3> QED BY <2>2, <3>3, <3>4 DEF StartRollback
  <2> QED BY <2>1, <2>2
<1>2. Safe(j, vault) BY <1>1 DEF Safe, EmptySnapshot
<1> QED BY <1>1, <1>2, QuietIsSafe

LEMMA ReadIsSafe ==
  ASSUME Inv, NamesApart, OneHandler, NEW h \in Handler,
         ListCandidates(h) \/ \E k \in Key : Look(h, k) \/ LookFailsInList(h, k)
  PROVE  NamesApart'
<1>0. /\ job[h] \in Job /\ job \in [Handler -> Job] /\ job[h].pc \in {"list", "look"}
      /\ vault' = vault /\ Safe(job[h], vault) /\ Fits(job[h], history)
  BY JobFacts DEF ListCandidates, Look, LookFailsInList, NamesApart
<1>1. job[h].ready = {} BY <1>0 DEF Fits
<1>2. PICK j \in Job : /\ job' = [job EXCEPT ![h] = j] /\ j.ready = {} /\ j.store = job[h].store
                 /\ \A q \in Key : j.seen[q] \in {job[h].seen[q], vault[job[h].store][q]}
  <2>1. CASE ListCandidates(h)
    <3> DEFINE j == [job[h] EXCEPT !.pc = "look",
                       !.toRead = Present(CurrentState(history[job[h].store]))]
    <3>1. job' = [job EXCEPT ![h] = j] BY <1>0, <2>1 DEF ListCandidates, Job
    <3>2. j \in Job /\ j.ready = {} /\ j.store = job[h].store /\ j.seen = job[h].seen
      BY <1>0, <1>1 DEF Job, Present
    <3> HIDE DEF j
    <3> QED BY <3>1, <3>2
  <2>2. ASSUME NEW k \in Key, Look(h, k)
        PROVE  \E j \in Job : /\ job' = [job EXCEPT ![h] = j] /\ j.ready = {} /\ j.store = job[h].store
                 /\ \A q \in Key : j.seen[q] \in {job[h].seen[q], vault[job[h].store][q]}
    <3> DEFINE j == [job[h] EXCEPT !.toRead = @ \ {k}, !.seen[k] = vault[job[h].store][k]]
    <3>1. job' = [job EXCEPT ![h] = j] BY <1>0, <2>2 DEF Look, Job
    <3>2. vault[job[h].store][k] \in Value \cup {Absent}
      BY <1>0 DEF Inv, TypeOK, Job, Snapshot
    <3>3. j \in Job BY <1>0, <3>2 DEF Job, Snapshot
    <3>4. j.ready = {} /\ j.store = job[h].store BY <1>0, <1>1 DEF Job
    <3>5. \A q \in Key : j.seen[q] \in {job[h].seen[q], vault[job[h].store][q]}
      BY <1>0 DEF Job, Snapshot
    <3> HIDE DEF j
    <3> QED BY <3>1, <3>3, <3>4, <3>5
  <2>3. ASSUME NEW k \in Key, LookFailsInList(h, k)
        PROVE  \E j \in Job : /\ job' = [job EXCEPT ![h] = j] /\ j.ready = {} /\ j.store = job[h].store
                 /\ \A q \in Key : j.seen[q] \in {job[h].seen[q], vault[job[h].store][q]}
    <3> DEFINE j == [job[h] EXCEPT !.toRead = @ \ {k}]
    <3>1. job' = [job EXCEPT ![h] = j] BY <1>0, <2>3 DEF LookFailsInList, Job
    <3>2. j \in Job /\ j.ready = {} /\ j.store = job[h].store /\ j.seen = job[h].seen
      BY <1>0, <1>1 DEF Job
    <3> HIDE DEF j
    <3> QED BY <3>1, <3>2
  <2> QED BY <2>1, <2>2, <2>3
<1>3. Safe(j, vault) BY <1>0, <1>2 DEF Safe
<1> QED BY <1>0, <1>2, <1>3, QuietIsSafe

\* What a call may write at once after its reads: deletions, or updates of
\* secrets it has found.
LEMMA DecisionIsSafe ==
  ASSUME Inv, NamesApart, OneHandler, NamesAreChecked, NEW h \in Handler,
         Decide(h) \/ DecideRollback(h)
  PROVE  NamesApart'
<1>0. /\ job[h] \in Job /\ job[h].pc = "look" /\ vault' = vault /\ job[h].store \in Store
      /\ Safe(job[h], vault) /\ Fits(job[h], history) /\ DOMAIN job[h].plan \subseteq Key
  BY JobFacts DEF Decide, DecideRollback, NamesApart
<1>1. CASE Leave(h) BY <1>0, <1>1, IdleIsSafe, QuietIsSafe DEF Leave
<1>2. CASE Work(h, job[h].plan) /\ ~Refused(job[h]) /\ job[h].op # "rollback"
  <2> DEFINE j == [job[h] EXCEPT !.pc = "work", !.plan = job[h].plan, !.todo = DOMAIN job[h].plan,
             !.ready = IF job[h].op \in {"batchUpdate", "batchDelete"} THEN DOMAIN job[h].plan ELSE {}]
  <2>1. job' = [job EXCEPT ![h] = j] BY <1>0, <1>2, JobFacts DEF Work, Job
  <2>2. /\ j.pc = "work" /\ j.plan = job[h].plan /\ j.store = job[h].store
        /\ j.ready = IF job[h].op \in {"batchUpdate", "batchDelete"} THEN DOMAIN job[h].plan ELSE {}
    BY <1>0 DEF Job
  <2> HIDE DEF j
  <2>3. PICK m \in Mutations : m.op = job[h].op /\ m.store = job[h].store /\ m.plan = job[h].plan
    BY <1>0, <1>2 DEF Fits
  <2>4. ASSUME NEW k \in j.ready
        PROVE  Written(j.plan[k]) = Absent \/ vault[Other(j.store)][k] = Absent
    <3>1. CASE job[h].op = "batchDelete"
      <4>1. j.plan[k].operation = "DELETE"
        BY <2>2, <2>3, <3>1, MutationsAreCalls DEF OperationOf
      <4> QED BY <4>1 DEF Written
    <3>2. CASE job[h].op = "batchUpdate"
      <4>1. job[h].store = "secret" BY <1>0, <2>3, <3>2 DEF NamesAreChecked, Store
      <4>2. k \in DOMAIN job[h].plan /\ k \in Key BY <1>0, <2>2, <3>2
      <4>3. job[h].seen[k] # Absent BY <1>2, <3>2, <4>1, <4>2 DEF Refused
      <4>4. vault[job[h].store][k] # Absent BY <1>0, <4>2, <4>3 DEF Safe
      <4> QED BY <1>0, <2>2, <4>2, <4>4, LivesOnce DEF NamesApart
    <3> QED BY <2>2, <3>1, <3>2
  <2>5. Safe(j, vault) BY <2>2, <2>4 DEF Safe
  <2> QED BY <1>0, <2>1, <2>5, QuietIsSafe
<1>3. CASE Work(h, Restoration(job[h])) /\ job[h].op = "rollback"
  <2> DEFINE j == [job[h] EXCEPT !.pc = "work", !.plan = Restoration(job[h]),
             !.todo = DOMAIN Restoration(job[h]), !.ready = {}]
  <2>1. job' = [job EXCEPT ![h] = j] BY <1>0, <1>3, JobFacts DEF Work, Job
  <2>2. j.pc = "work" /\ j.ready = {} BY <1>0 DEF Job
  <2> HIDE DEF j
  <2>3. Safe(j, vault) BY <2>2 DEF Safe
  <2> QED BY <1>0, <2>1, <2>3, QuietIsSafe
<1> QED BY <1>1, <1>2, <1>3 DEF Decide, DecideRollback

\* A check looks at the right store for every key it lets pass.
LEMMA CheckIsSafe ==
  ASSUME Inv, NamesApart, OneHandler, NEW h \in Handler,
         CheckBatch(h) \/ \E k \in Key : CheckItem(h, k)
  PROVE  NamesApart'
<1>0. /\ job[h] \in Job /\ job[h].pc = "work" /\ vault' = vault /\ job[h].store \in Store
      /\ Fits(job[h], history)
  BY JobFacts DEF CheckBatch, CheckItem
<1>1. CASE Leave(h) BY <1>0, <1>1, IdleIsSafe, QuietIsSafe DEF Leave
<1>2. ASSUME NEW ks, job' = [job EXCEPT ![h].ready = ks],
             \A q \in ks : vault[Other(job[h].store)][q] = Absent
      PROVE  NamesApart'
  <2> DEFINE j == [job[h] EXCEPT !.ready = ks]
  <2>1. job' = [job EXCEPT ![h] = j] BY <1>0, <1>2, JobFacts DEF Job
  <2>2. j.pc = "work" /\ j.ready = ks /\ j.store = job[h].store BY <1>0 DEF Job
  <2> HIDE DEF j
  <2>3. Safe(j, vault) BY <1>2, <2>2 DEF Safe
  <2> QED BY <1>0, <2>1, <2>3, QuietIsSafe
<1>3. CASE CheckBatch(h)
  <2>1. CASE ~Leave(h)
    <3>1. /\ job' = [job EXCEPT ![h].ready = job[h].todo]
          /\ \A q \in job[h].todo : vault[Other(job[h].store)][q] = Absent
      BY <1>3, <2>1 DEF CheckBatch
    <3> QED BY <1>2, <3>1
  <2> QED BY <1>1, <2>1
<1>4. ASSUME NEW k \in Key, CheckItem(h, k) PROVE NamesApart'
  <2>1. CASE ~Leave(h)
    <3>1. /\ job' = [job EXCEPT ![h].ready = {k}]
          /\ vault[Other(job[h].store)][k] = Absent \/ vault[job[h].store][k] # Absent
      BY <1>4, <2>1 DEF CheckItem, Abandon
    <3>2. vault[Other(job[h].store)][k] = Absent BY <1>0, <3>1, LivesOnce DEF NamesApart
    <3> DEFINE ks == {k}
    <3>3. job' = [job EXCEPT ![h].ready = ks] /\ \A q \in ks : vault[Other(job[h].store)][q] = Absent
      BY <3>1, <3>2
    <3> HIDE DEF ks
    <3> QED BY <1>2, <3>3
  <2> QED BY <1>1, <2>1
<1> QED BY <1>3, <1>4

\* So a write, even a failing one, leaves the key in one store.
LEMMA WriteIsSafe ==
  ASSUME Inv, NamesApart, OneHandler, NEW h \in Handler, NEW k \in Key,
         Write(h, k) \/ WriteFails(h, k)
  PROVE  NamesApart'
<1> DEFINE st == job[h].store
<1>0. /\ job[h] \in Job /\ k \in job[h].ready /\ st \in Store
      /\ Put(h, k) \/ vault' = vault
      /\ Safe(job[h], vault) /\ Fits(job[h], history) /\ vault \in [Store -> Snapshot]
  BY JobFacts DEF Write, WriteFails, NamesApart, Inv, TypeOK
<1>1. /\ \A q \in Key : vault'[Other(st)][q] = vault[Other(st)][q]
      /\ vault'[st][k] \in {vault[st][k], Written(job[h].plan[k])}
      /\ \A q \in Key \ {k} : vault'[st][q] = vault[st][q]
  <2>1. st # Other(st) /\ Other(st) \in Store BY <1>0 DEF Store, Other
  <2>2. CASE vault' = vault BY <2>2
  <2>3. CASE Put(h, k) BY <1>0, <2>1, <2>3 DEF Put, Snapshot
  <2> QED BY <1>0, <2>2, <2>3
<1>2. KeyLivesOnce'
  <2>1. ASSUME NEW q \in Key PROVE vault'[st][q] = Absent \/ vault'[Other(st)][q] = Absent
    <3>1. vault[st][q] = Absent \/ vault[Other(st)][q] = Absent BY <1>0, LivesOnce DEF NamesApart
    <3>2. CASE q = k BY <1>0, <1>1, <3>1, <3>2 DEF Safe
    <3> QED BY <1>1, <3>1, <3>2
  <2>2. st \in Store /\ Other(st) \in Store BY <1>0 DEF Store, Other
  <2> QED BY <2>1, <2>2 DEF KeyLivesOnce
<1>3. Crossed(h, k) \in [Handler -> Job] /\ Crossed(h, k)[h] = job[h] BY CrossedFacts
<1>4. \/ job'[h] = IdleJob
      \/ /\ job'[h].pc = "work" /\ job'[h].store = st /\ job'[h].plan = job[h].plan
         /\ job'[h].ready = job[h].ready \ {k}
  <2>0. job[h].pc = "work" BY <1>0 DEF Fits
  <2>1. CASE Write(h, k) BY <1>0, <1>3, <2>0, <2>1 DEF Write, Job
  <2>2. CASE WriteFails(h, k)
    <3>1. CASE job' = [Crossed(h, k) EXCEPT
                ![h].todo = @ \ {k}, ![h].ready = @ \ {k}, ![h].failed = TRUE]
      BY <1>0, <1>3, <2>0, <3>1 DEF Job
    <3>2. CASE job' = [Crossed(h, k) EXCEPT ![h] = IdleJob] BY <1>3, <3>2
    <3> QED BY <2>2, <3>1, <3>2 DEF WriteFails
  <2> QED BY <2>1, <2>2
<1>5. Safe(job'[h], vault')
  <2>1. CASE job'[h] = IdleJob BY <2>1, IdleIsSafe
  <2>2. CASE /\ job'[h].pc = "work" /\ job'[h].store = st /\ job'[h].plan = job[h].plan
             /\ job'[h].ready = job[h].ready \ {k}
    <3>1. job[h].ready \subseteq Key BY <1>0, JobFacts DEF Fits
    <3> QED BY <1>0, <1>1, <2>2, <3>1 DEF Safe
  <2> QED BY <1>4, <2>1, <2>2
<1> QED BY <1>2, <1>5, AloneIsSafe

LEMMA NamesApartInit == Init => NamesApart
<1> SUFFICES ASSUME Init PROVE NamesApart OBVIOUS
<1>1. KeyLivesOnce BY DEF Init, KeyLivesOnce, Store, EmptySnapshot
<1>2. \A h \in Handler : Safe(job[h], vault) BY IdleIsSafe DEF Init
<1> QED BY <1>1, <1>2 DEF NamesApart

LEMMA NamesApartNext ==
  OneHandler /\ NamesAreChecked /\ Inv /\ NamesApart /\ [Next]_vars => NamesApart'
<1> SUFFICES ASSUME OneHandler, NamesAreChecked, Inv, NamesApart, [Next]_vars PROVE NamesApart'
  OBVIOUS
<1>1. CASE UNCHANGED vars BY <1>1 DEF vars, NamesApart, KeyLivesOnce
<1>2. ASSUME NEW h \in Handler,
             StartMutation(h) \/ StartRollback(h) \/ Decide(h) \/ DecideRollback(h)
      PROVE  NamesApart'
  BY <1>2, StartIsSafe, DecisionIsSafe
<1>3. ASSUME NEW h \in Handler, Record(h) \/ EndsUnrecorded(h) \/ Throw(h) \/ Crash(h)
      PROVE  NamesApart'
  <2>1. Leave(h) /\ vault' = vault BY <1>3 DEF Record, EndsUnrecorded, Throw, Crash, Abandon
  <2> QED BY <2>1, IdleIsSafe, QuietIsSafe DEF Leave
<1>4. ASSUME NEW h \in Handler, ListCandidates(h) \/ CheckBatch(h) PROVE NamesApart'
  BY <1>4, ReadIsSafe, CheckIsSafe
<1>5. ASSUME NEW h \in Handler, NEW k \in Key,
             \/ Look(h, k) \/ LookFailsInList(h, k)
             \/ CheckItem(h, k) \/ Write(h, k) \/ WriteFails(h, k)
      PROVE  NamesApart'
  BY <1>5, ReadIsSafe, CheckIsSafe, WriteIsSafe
<1> QED BY <1>1, <1>2, <1>3, <1>4, <1>5 DEF Next

\* With one call at a time, and names that are checked, a key lives in one
\* store: the endpoints look into the other store before they create, find
\* what they update, and nothing comes between.
THEOREM KeyLivesOnceAlone ==
  ASSUME OneHandler, NamesAreChecked
  PROVE  Spec => []KeyLivesOnce
<1>1. Inv /\ NamesApart /\ [Next]_vars => NamesApart' BY NamesApartNext
<1>2. NamesApart => KeyLivesOnce BY DEF NamesApart
<1> QED BY <1>1, <1>2, InvAlways, NamesApartInit, PTL DEF Spec

-----------------------------------------------------------------------------
(* The rollback.                                                           *)

\* What a rollback has found out: while it reads, the values of the entries
\* it has read and of those the history does not know; while it writes, which
\* entries are as in the target and which are to become so.
Planned(j, v, d) ==
  j.op = "rollback" =>
    /\ j.pc = "list" => j.toRead = {} /\ j.seen = EmptySnapshot
    /\ j.pc = "look" => \A k \in j.scope \ j.toRead :
         <<j.store, k>> \notin d => j.seen[k] = v[j.store][k]
    /\ j.pc = "work" =>
         /\ \A k \in DOMAIN j.plan : Written(j.plan[k]) = Target(j)[k]
         /\ \A k \in j.scope \ DOMAIN j.plan :
              <<j.store, k>> \notin d => v[j.store][k] = Target(j)[k]

RollbacksPlanned == \A h \in Handler : Planned(job[h], vault, doubtful)

LEMMA AloneIsPlanned ==
  ASSUME OneHandler, NEW h \in Handler, NEW j, job'[h] = j, history' = history,
         Planned(j, vault', doubtful')
  PROVE  RollbacksPlanned'
<1>1. \A g \in Handler : job'[g] = j BY DEF OneHandler
<1> QED BY <1>1 DEF RollbacksPlanned, Planned, Target

\* A call that ends, or is no rollback, plans nothing.
LEMMA EndIsPlanned ==
  ASSUME OneHandler, NEW h \in Handler, job'[h].op # "rollback" \/ job'[h].pc = "idle"
  PROVE  RollbacksPlanned'
<1>1. \A g \in Handler : g = h BY DEF OneHandler
<1> QED BY <1>1 DEF RollbacksPlanned, Planned

\* An entry nobody has in hand and nobody doubts is what its history says.
LEMMA AloneTells ==
  ASSUME Inv, OneHandler, NEW h \in Handler, NEW s \in Store, NEW k \in Key,
         <<s, k>> \notin doubtful, ~HandsOn(job[h], s, k)
  PROVE  Replay(history[s])[k] = vault[s][k]
<1>1. \A g \in Handler : ~HandsOn(job[g], s, k) BY DEF OneHandler
<1> QED BY <1>1, TellsVault DEF Inv

LEMMA StartIsPlanned ==
  ASSUME Inv, OneHandler, NEW h \in Handler, StartMutation(h) \/ StartRollback(h)
  PROVE  RollbacksPlanned'
<1>0. job \in [Handler -> Job] BY JobFacts
<1>1. CASE StartMutation(h)
  <2>1. PICK m \in Mutations :
          job' = [job EXCEPT ![h] = [IdleJob EXCEPT !.pc = "look", !.op = m.op,
                    !.store = m.store, !.plan = m.plan, !.toRead = Reads(m)]]
    BY <1>1 DEF StartMutation
  <2>2. job'[h].op = m.op BY <1>0, <2>1 DEF IdleJob
  <2> QED BY <2>2, MutationsAreCalls, EndIsPlanned
<1>2. CASE StartRollback(h)
  <2>1. PICK s \in Rollbacks : \E p \in 0..Len(history[s]), k \in RollbackKeys \cup {Absent} :
          job' = [job EXCEPT ![h] = [IdleJob EXCEPT
                     !.pc = IF k = Absent THEN "list" ELSE "look",
                     !.op = "rollback", !.store = s, !.pit = p,
                     !.scope = IF k = Absent THEN Key ELSE {k},
                     !.toRead = IF k = Absent THEN {} ELSE {k}]]
    BY <1>2 DEF StartRollback
  <2>2. PICK p \in 0..Len(history[s]), k \in RollbackKeys \cup {Absent} :
          job' = [job EXCEPT ![h] = [IdleJob EXCEPT
                     !.pc = IF k = Absent THEN "list" ELSE "look",
                     !.op = "rollback", !.store = s, !.pit = p,
                     !.scope = IF k = Absent THEN Key ELSE {k},
                     !.toRead = IF k = Absent THEN {} ELSE {k}]]
    BY <2>1
  <2> DEFINE j == [IdleJob EXCEPT
                     !.pc = IF k = Absent THEN "list" ELSE "look",
                     !.op = "rollback", !.store = s, !.pit = p,
                     !.scope = IF k = Absent THEN Key ELSE {k},
                     !.toRead = IF k = Absent THEN {} ELSE {k}]
  <2>3. job'[h] = j BY <1>0, <2>2
  <2>4. j.seen = EmptySnapshot /\ j.pc # "work" BY DEF IdleJob
  <2>5. CASE k = Absent
    <3>1. j.pc = "list" /\ j.toRead = {} BY <2>5 DEF IdleJob
    <3> HIDE DEF j
    <3>2. Planned(j, vault', doubtful') BY <2>4, <3>1 DEF Planned
    <3> QED BY <1>2, <2>3, <3>2, AloneIsPlanned DEF StartRollback
  <2>6. CASE k # Absent
    <3>1. j.pc = "look" /\ j.toRead = j.scope BY <2>6 DEF IdleJob
    <3> HIDE DEF j
    <3>2. Planned(j, vault', doubtful') BY <2>4, <3>1 DEF Planned
    <3> QED BY <1>2, <2>3, <3>2, AloneIsPlanned DEF StartRollback
  <2> QED BY <2>5, <2>6
<1> QED BY <1>1, <1>2

\* list reads every key the history knows; the others the vault does not
\* have either, unless they are in doubt.
LEMMA ListIsPlanned ==
  ASSUME Inv, RollbacksPlanned, OneHandler, NEW h \in Handler, ListCandidates(h)
  PROVE  RollbacksPlanned'
<1> DEFINE j == [job[h] EXCEPT !.pc = "look",
                   !.toRead = Present(CurrentState(history[job[h].store]))]
<1>0. /\ job[h] \in Job /\ job[h].pc = "list" /\ job[h].store \in Store
      /\ UNCHANGED <<vault, history, doubtful>> /\ Planned(job[h], vault, doubtful) /\ TypeOK
  BY JobFacts DEF ListCandidates, RollbacksPlanned, Inv
<1>1. job'[h] = j BY <1>0, JobFacts DEF ListCandidates, Job
<1>2. /\ j.pc = "look" /\ j.op = job[h].op /\ j.store = job[h].store /\ j.seen = job[h].seen
      /\ j.scope = job[h].scope /\ j.scope \subseteq Key
      /\ j.toRead = {k \in Key : Replay(history[job[h].store])[k] # Absent}
  BY <1>0 DEF Job, Present, CurrentState
<1> HIDE DEF j
<1>3. ASSUME j.op = "rollback", NEW k \in j.scope \ j.toRead, <<j.store, k>> \notin doubtful
      PROVE  j.seen[k] = vault[j.store][k]
  <2>1. k \in Key /\ Replay(history[j.store])[k] = Absent BY <1>2, <1>3
  <2>2. ~HandsOn(job[h], j.store, k) BY <1>0 DEF HandsOn
  <2>3. vault[j.store][k] = Absent BY <1>0, <1>2, <1>3, <2>1, <2>2, AloneTells
  <2>4. j.seen = EmptySnapshot BY <1>0, <1>2, <1>3 DEF Planned
  <2> QED BY <2>1, <2>3, <2>4 DEF EmptySnapshot
<1>4. Planned(j, vault', doubtful') BY <1>0, <1>2, <1>3 DEF Planned
<1> QED BY <1>0, <1>1, <1>4, AloneIsPlanned

LEMMA LookIsPlanned ==
  ASSUME Inv, RollbacksPlanned, OneHandler, NEW h \in Handler, NEW k \in Key, Look(h, k)
  PROVE  RollbacksPlanned'
<1> DEFINE j == [job[h] EXCEPT !.toRead = @ \ {k}, !.seen[k] = vault[job[h].store][k]]
<1>0. /\ job[h] \in Job /\ job[h].pc = "look"
      /\ UNCHANGED <<vault, history, doubtful>> /\ Planned(job[h], vault, doubtful)
  BY JobFacts DEF Look, RollbacksPlanned
<1>1. job'[h] = j BY <1>0, JobFacts DEF Look, Job
<1>2. /\ j.pc = "look" /\ j.op = job[h].op /\ j.store = job[h].store
      /\ j.scope = job[h].scope /\ j.scope \subseteq Key /\ j.toRead = job[h].toRead \ {k}
      /\ \A q \in Key : j.seen[q] = IF q = k THEN vault[job[h].store][k] ELSE job[h].seen[q]
  BY <1>0 DEF Job, Snapshot
<1> HIDE DEF j
<1>3. Planned(j, vault', doubtful') BY <1>0, <1>2 DEF Planned
<1> QED BY <1>0, <1>1, <1>3, AloneIsPlanned

\* The plan of a rollback is the difference between what it has read and the
\* target: what it leaves out is as in the target.
LEMMA DecisionIsPlanned ==
  ASSUME Inv, RollbacksPlanned, OneHandler, NEW h \in Handler, Decide(h) \/ DecideRollback(h)
  PROVE  RollbacksPlanned'
<1>0. /\ job \in [Handler -> Job] /\ job[h] \in Job /\ Planned(job[h], vault, doubtful)
      /\ Fits(job[h], history) /\ UNCHANGED <<vault, history, doubtful>> /\ TypeOK
  BY JobFacts DEF Decide, DecideRollback, RollbacksPlanned, Inv
<1>1. CASE Leave(h) BY <1>0, <1>1, IdleFacts, EndIsPlanned DEF Leave
<1>2. CASE job[h].op # "rollback" /\ Work(h, job[h].plan)
  <2>1. job'[h].op = job[h].op BY <1>0, <1>2 DEF Work, Job
  <2> QED BY <1>2, <2>1, EndIsPlanned
<1>3. CASE /\ job[h].pc = "look" /\ job[h].toRead = {} /\ job[h].op = "rollback"
           /\ Work(h, Restoration(job[h]))
  <2> DEFINE j == [job[h] EXCEPT !.pc = "work", !.plan = Restoration(job[h]),
                     !.todo = DOMAIN Restoration(job[h]), !.ready = {}]
  <2>1. job'[h] = j BY <1>0, <1>3 DEF Work, Job
  <2>2. /\ j.pc = "work" /\ j.op = "rollback" /\ j.store = job[h].store /\ j.pit = job[h].pit
        /\ j.scope = job[h].scope /\ j.plan = Restoration(job[h])
    BY <1>0, <1>3 DEF Job
  <2> HIDE DEF j
  <2>3. Target(job[h]) \in Snapshot BY <1>0, TargetTyped DEF Fits
  <2>4. /\ DOMAIN j.plan = {k \in j.scope : job[h].seen[k] # Target(job[h])[k]}
        /\ \A k \in DOMAIN j.plan : Written(j.plan[k]) = Target(job[h])[k]
    BY <1>0, <2>2, <2>3, RestorationFacts
  <2>5. Target(j) = Target(job[h]) BY <2>2 DEF Target
  <2>6. ASSUME NEW k \in j.scope \ DOMAIN j.plan, <<j.store, k>> \notin doubtful
        PROVE  vault[j.store][k] = Target(j)[k]
    <3>1. job[h].seen[k] = vault[j.store][k] BY <1>0, <1>3, <2>2, <2>6 DEF Planned
    <3> QED BY <2>4, <2>5, <2>6, <3>1
  <2>7. Planned(j, vault', doubtful') BY <1>0, <2>2, <2>4, <2>5, <2>6 DEF Planned
  <2> QED BY <1>0, <2>1, <2>7, AloneIsPlanned
<1> QED BY <1>1, <1>2, <1>3 DEF Decide, DecideRollback

LEMMA CheckIsPlanned ==
  ASSUME Inv, RollbacksPlanned, OneHandler, NEW h \in Handler,
         CheckBatch(h) \/ \E k \in Key : CheckItem(h, k)
  PROVE  RollbacksPlanned'
<1>0. /\ job \in [Handler -> Job] /\ job[h] \in Job /\ Planned(job[h], vault, doubtful)
      /\ UNCHANGED <<vault, history>>
  BY JobFacts DEF CheckBatch, CheckItem, RollbacksPlanned
<1>1. CASE Leave(h) BY <1>0, <1>1, IdleFacts, EndIsPlanned DEF Leave
<1>2. ASSUME ~Leave(h) PROVE RollbacksPlanned'
  <2>1. PICK ks : job' = [job EXCEPT ![h].ready = ks] /\ doubtful' = doubtful
    BY <1>2 DEF CheckBatch, CheckItem, Abandon
  <2> DEFINE j == [job[h] EXCEPT !.ready = ks]
  <2>2. job'[h] = j BY <1>0, <2>1 DEF Job
  <2>3. /\ j.pc = job[h].pc /\ j.op = job[h].op /\ j.store = job[h].store /\ j.pit = job[h].pit
        /\ j.scope = job[h].scope /\ j.plan = job[h].plan
        /\ j.seen = job[h].seen /\ j.toRead = job[h].toRead
    BY <1>0 DEF Job
  <2> HIDE DEF j
  <2>4. Target(j) = Target(job[h]) BY <2>3 DEF Target
  <2>5. Planned(j, vault', doubtful') BY <1>0, <2>1, <2>3, <2>4 DEF Planned
  <2> QED BY <1>0, <2>2, <2>5, AloneIsPlanned
<1> QED BY <1>1, <1>2

\* A rollback writes keys of its plan only.
LEMMA WriteIsPlanned ==
  ASSUME Inv, RollbacksPlanned, OneHandler, NEW h \in Handler, NEW k \in Key,
         Write(h, k) \/ WriteFails(h, k)
  PROVE  RollbacksPlanned'
<1>0. /\ job[h] \in Job /\ Planned(job[h], vault, doubtful) /\ Fits(job[h], history)
      /\ k \in job[h].ready /\ history' = history /\ job[h].store \in Store
      /\ vault \in [Store -> Snapshot]
  BY JobFacts DEF Write, WriteFails, RollbacksPlanned, Inv, TypeOK
<1>1. job[h].pc = "work" /\ k \in DOMAIN job[h].plan BY <1>0 DEF Fits
<1>2. Crossed(h, k) \in [Handler -> Job] /\ Crossed(h, k)[h] = job[h] BY CrossedFacts
<1>3. CASE Write(h, k)
  <2> DEFINE j == job'[h]
  <2>1. /\ j.pc = "work" /\ j.op = job[h].op /\ j.store = job[h].store /\ j.pit = job[h].pit
        /\ j.scope = job[h].scope /\ j.plan = job[h].plan
    BY <1>0, <1>1, <1>2, <1>3 DEF Write, Job
  <2> HIDE DEF j
  <2>2. Target(j) = Target(job[h]) BY <2>1 DEF Target
  <2>3. \A q \in job[h].scope \ DOMAIN job[h].plan : vault'[job[h].store][q] = vault[job[h].store][q]
    <3>1. vault' = [vault EXCEPT ![job[h].store][k] = Written(job[h].plan[k])]
      BY <1>3 DEF Write, Put
    <3>2. job[h].scope \subseteq Key BY <1>0 DEF Job
    <3> QED BY <1>0, <1>1, <3>1, <3>2 DEF Snapshot
  <2>4. doubtful' = doubtful BY <1>3 DEF Write
  <2>5. Planned(j, vault', doubtful') BY <1>0, <1>1, <2>1, <2>2, <2>3, <2>4 DEF Planned
  <2> QED BY <1>0, <2>5, AloneIsPlanned DEF j
<1>4. CASE WriteFails(h, k)
  <2>1. CASE /\ job[h].op \in Batches
             /\ job' = [Crossed(h, k) EXCEPT
                  ![h].todo = @ \ {k}, ![h].ready = @ \ {k}, ![h].failed = TRUE]
    <3>1. job'[h].op = job[h].op BY <1>0, <1>2, <2>1 DEF Job
    <3> QED BY <2>1, <3>1, EndIsPlanned DEF Batches
  <2>2. CASE job' = [Crossed(h, k) EXCEPT ![h] = IdleJob]
    <3>1. job'[h].pc = "idle" BY <1>2, <2>2, IdleFacts
    <3> QED BY <3>1, EndIsPlanned
  <2> QED BY <1>4, <2>1, <2>2 DEF WriteFails
<1> QED BY <1>3, <1>4

LEMMA RollbacksPlannedInit == Init => RollbacksPlanned
BY IdleFacts DEF Init, RollbacksPlanned, Planned, IdleJob

LEMMA RollbacksPlannedNext ==
  OneHandler /\ "list" \notin Faults /\ Inv /\ RollbacksPlanned /\ [Next]_vars
    => RollbacksPlanned'
<1> SUFFICES ASSUME OneHandler, "list" \notin Faults, Inv, RollbacksPlanned, [Next]_vars
             PROVE  RollbacksPlanned'
  OBVIOUS
<1>1. CASE UNCHANGED vars BY <1>1 DEF vars, RollbacksPlanned, Planned, Target
<1>2. ASSUME NEW h \in Handler,
             \/ StartMutation(h) \/ StartRollback(h) \/ ListCandidates(h)
             \/ Decide(h) \/ DecideRollback(h) \/ CheckBatch(h)
      PROVE  RollbacksPlanned'
  BY <1>2, StartIsPlanned, ListIsPlanned, DecisionIsPlanned, CheckIsPlanned
<1>3. ASSUME NEW h \in Handler, Record(h) \/ EndsUnrecorded(h) \/ Throw(h) \/ Crash(h)
      PROVE  RollbacksPlanned'
  <2>1. Leave(h) BY <1>3 DEF Record, EndsUnrecorded, Throw, Crash, Abandon
  <2>2. job'[h].pc = "idle" BY <2>1, JobFacts, IdleFacts DEF Leave
  <2> QED BY <2>2, EndIsPlanned
<1>4. ASSUME NEW h \in Handler, NEW k \in Key,
             Look(h, k) \/ LookFailsInList(h, k) \/ CheckItem(h, k) \/ Write(h, k) \/ WriteFails(h, k)
      PROVE  RollbacksPlanned'
  BY <1>4, LookIsPlanned, CheckIsPlanned, WriteIsPlanned DEF LookFailsInList
<1> QED BY <1>1, <1>2, <1>3, <1>4 DEF Next

\* A step that records nothing leaves the history, and takes away no doubt;
\* it writes to the vault only for a call with a key ready.
LEMMA OnlyRecordRecords ==
  ASSUME Inv, [Next]_vars, \A h \in Handler : ~Record(h)
  PROVE  /\ history' = history /\ doubtful \subseteq doubtful'
         /\ vault' # vault => \E h \in Handler : job[h].ready # {}
<1>1. CASE UNCHANGED vars BY <1>1 DEF vars
<1>2. ASSUME NEW h \in Handler,
             \/ StartMutation(h) \/ StartRollback(h) \/ ListCandidates(h)
             \/ Decide(h) \/ DecideRollback(h) \/ CheckBatch(h)
      PROVE  UNCHANGED <<vault, history, doubtful>>
  BY <1>2 DEF StartMutation, StartRollback, ListCandidates, Decide, DecideRollback, CheckBatch
<1>3. ASSUME NEW h \in Handler, EndsUnrecorded(h) \/ Throw(h) \/ Crash(h)
      PROVE  UNCHANGED <<vault, history>> /\ doubtful \subseteq doubtful'
  BY <1>3 DEF EndsUnrecorded, Throw, Crash, Abandon
<1>4. ASSUME NEW h \in Handler, NEW k \in Key,
             Look(h, k) \/ LookFailsInList(h, k) \/ CheckItem(h, k) \/ Write(h, k) \/ WriteFails(h, k)
      PROVE  /\ history' = history /\ doubtful \subseteq doubtful'
             /\ vault' # vault => job[h].ready # {}
  BY <1>4 DEF Look, LookFailsInList, CheckItem, Write, WriteFails, Abandon
<1> QED BY <1>1, <1>2, <1>3, <1>4 DEF Next

\* A rollback that records its PiT has written what differed, and what it did
\* not write was as in the target.
LEMMA RecordRestores ==
  ASSUME Inv, RollbacksPlanned, OneHandler, NEW h \in Handler, Record(h), job[h].op = "rollback",
         NEW k \in job[h].scope, <<job[h].store, k>> \notin doubtful'
  PROVE  /\ vault'[job[h].store][k] = Target(job[h])[k]
         /\ Replay(history'[job[h].store])[k] = Target(job[h])[k]
<1> DEFINE j == job[h]
<1>0. /\ j \in Job /\ j.store \in Store /\ Stands(j, vault) /\ Planned(j, vault, doubtful) /\ k \in Key
  BY JobFacts DEF RollbacksPlanned, Job
<1>1. /\ j.pc = "work" /\ j.todo = {} /\ ~j.failed /\ vault' = vault
      /\ Replay(history'[j.store])[k] =
           IF k \in DOMAIN j.plan THEN Written(j.plan[k]) ELSE Replay(history[j.store])[k]
      /\ IF k \in DOMAIN j.plan THEN k \notin j.raced ELSE <<j.store, k>> \notin doubtful
  BY <1>0, RecordFacts
<1>2. CASE k \in DOMAIN j.plan
  <2>1. Written(j.plan[k]) = Target(j)[k] BY <1>0, <1>1, <1>2 DEF Planned
  <2>2. vault[j.store][k] = Written(j.plan[k]) BY <1>0, <1>1, <1>2 DEF Stands
  <2> QED BY <1>1, <1>2, <2>1, <2>2
<1>3. CASE k \notin DOMAIN j.plan
  <2>1. vault[j.store][k] = Target(j)[k] BY <1>0, <1>1, <1>3 DEF Planned
  <2>2. ~HandsOn(j, j.store, k) BY <1>3 DEF HandsOn
  <2>3. Replay(history[j.store])[k] = vault[j.store][k] BY <1>0, <1>1, <1>3, <2>2, AloneTells
  <2> QED BY <1>1, <1>3, <2>1, <2>3
<1> QED BY <1>2, <1>3

\* One with nothing to do found everything as in the target.
LEMMA NothingToRestore ==
  ASSUME Inv, RollbacksPlanned, OneHandler, NEW h \in Handler, job[h].op = "rollback",
         job[h].pc = "look", job[h].toRead = {}, DOMAIN Restoration(job[h]) = {},
         NEW k \in job[h].scope, <<job[h].store, k>> \notin doubtful
  PROVE  /\ vault[job[h].store][k] = Target(job[h])[k]
         /\ Replay(history[job[h].store])[k] = Target(job[h])[k]
<1> DEFINE j == job[h]
<1>0. /\ j \in Job /\ j.store \in Store /\ Fits(j, history) /\ Planned(j, vault, doubtful) /\ k \in Key
      /\ TypeOK
  BY JobFacts DEF RollbacksPlanned, Job, Inv
<1>1. Target(j) \in Snapshot BY <1>0, TargetTyped DEF Fits
<1>2. j.seen[k] = Target(j)[k] BY <1>0, <1>1, RestorationFacts
<1>3. j.seen[k] = vault[j.store][k] BY <1>0 DEF Planned
<1>4. ~HandsOn(j, j.store, k) BY DEF HandsOn
<1>5. Replay(history[j.store])[k] = vault[j.store][k] BY <1>0, <1>4, AloneTells
<1> QED BY <1>2, <1>3, <1>5

\* With one call at a time, and a list that reads all it should, a rollback
\* that answers with success leaves every entry it covers, and the history of
\* it, as in the target state, also after calls that failed half-way; entries
\* in doubt that it had nothing to do about are excepted.
THEOREM RollbackRestoresAlone ==
  ASSUME OneHandler, "list" \notin Faults
  PROVE  Spec => RollbackRestores
<1>1. Inv /\ RollbacksPlanned /\ [Next]_vars => RollbacksPlanned' BY RollbacksPlannedNext
<1>2. Inv /\ RollbacksPlanned /\ [Next]_vars =>
        [\A h \in Handler : Succeeds(h) =>
           LET j == job[h]
               target == Target(j)
           IN  \A k \in j.scope : <<j.store, k>> \notin doubtful' =>
                 vault'[j.store][k] = target[k] /\ Replay(history'[j.store])[k] = target[k]]_vars
  <2> SUFFICES ASSUME Inv, RollbacksPlanned, [Next]_vars, NEW h \in Handler, Succeeds(h),
                      NEW k \in job[h].scope, <<job[h].store, k>> \notin doubtful'
               PROVE  /\ vault'[job[h].store][k] = Target(job[h])[k]
                      /\ Replay(history'[job[h].store])[k] = Target(job[h])[k]
    OBVIOUS
  <2>0. job[h].op = "rollback" /\ \A g \in Handler : g = h BY DEF Succeeds, OneHandler
  <2>1. CASE Record(h) BY <2>0, <2>1, RecordRestores
  <2>2. CASE ~Record(h)
    <3>1. \A g \in Handler : ~Record(g) BY <2>0, <2>2
    <3>2. /\ history' = history /\ doubtful \subseteq doubtful'
          /\ vault' # vault => \E g \in Handler : job[g].ready # {}
      BY <3>1, OnlyRecordRecords
    <3>3. job[h].pc = "look" /\ job[h].toRead = {} /\ DOMAIN Restoration(job[h]) = {}
      BY <3>2 DEF Succeeds
    <3>4. job[h].ready = {} BY <3>3, JobFacts DEF Fits
    <3>5. vault' = vault BY <2>0, <3>2, <3>4
    <3> QED BY <2>0, <3>2, <3>3, <3>5, NothingToRestore
  <2> QED BY <2>1, <2>2
<1> QED BY <1>1, <1>2, InvAlways, RollbacksPlannedInit, PTL DEF Spec, RollbackRestores

-----------------------------------------------------------------------------
(***************************************************************************)
(* The guard of the endpoints.  Every direct mutation first asks           *)
(* assertMutableEnvType whether its environment type is protected, and the *)
(* answer comes from the cache of environment types (EnvTypeCache).  For   *)
(* any number of handlers and any faults: a stale entry of that cache      *)
(* always has a cause.                                                     *)
(***************************************************************************)

\* The awaits of a call that has changed the row and not finished.
Unfinished == {"reread", "cleanup", "invalidate"}

\* What a call remembers fits the await it is at: a row it has replaced is
\* remembered until the call ends, "set" has an entry to write, and a direct
\* mutation never comes to change the row.
CallFits(j) ==
  /\ j.old # Nothing => j.pc \in Unfinished
  /\ j.pc = "set" => j.got # Nothing
  /\ j.pc \in {"check", "change"} \cup Unfinished => j.intent # "mutate"

CallsFit == \A h \in Caller : CallFits(call[h])

CacheInv == CacheTypeOK /\ CallsFit /\ StaleHasCause

-----------------------------------------------------------------------------

\* A call without a row it has replaced.
LEMMA IdleCallFits ==
  NoCall \in CallRecord /\ CallFits(NoCall) /\ NoCall.old = Nothing
BY DEF NoCall, CallRecord, PC, Intent, Cached, CallFits,
   Unfinished

\* The initial states satisfy the invariant.
LEMMA CacheInvInit == CacheInit => CacheInv
<1> SUFFICES ASSUME CacheInit PROVE CacheInv OBVIOUS
<1>1. CacheTypeOK BY IdleCallFits DEF CacheInit, CacheTypeOK, Row, Cached
<1>2. CallsFit BY IdleCallFits DEF CacheInit, CallsFit
<1>3. ~Stale BY DEF CacheInit, Stale
<1> QED BY <1>1, <1>2, <1>3 DEF CacheInv, StaleHasCause

\* One call goes on as record j and the others stay as they are.
LEMMA CallMoves ==
  ASSUME CacheInv, NEW h \in Caller, NEW j \in CallRecord, CallFits(j),
         call' = [call EXCEPT ![h] = j]
  PROVE  /\ call' \in [Caller -> CallRecord]
         /\ CallsFit'
         /\ call'[h] = j
         /\ \A g \in Caller : g # h => call'[g] = call[g]
<1>1. call \in [Caller -> CallRecord] BY DEF CacheInv, CacheTypeOK
<1>2. \A g \in Caller : call'[g] = IF g = h THEN j ELSE call[g] BY <1>1
<1>3. call' \in [Caller -> CallRecord] BY <1>1
<1>4. \A g \in Caller : CallFits(call[g]) BY DEF CacheInv, CallsFit
<1>5. \A g \in Caller : CallFits(call'[g]) BY <1>2, <1>4
<1>6. \A g \in Caller : CallFits(call[g])'
  BY <1>5 DEF CallFits
<1> QED BY <1>2, <1>3, <1>6 DEF CallsFit

\* While the row and the entry stay and no call forgets a row it replaced,
\* staleness keeps its cause.
LEMMA CauseStays ==
  ASSUME CacheInv, row' = row, cache' = cache, excused' = excused,
         \A g \in Caller : call[g].old # Nothing => call'[g].old # Nothing
  PROVE  StaleHasCause'
BY DEF CacheInv, StaleHasCause, Stale

\* Steps of one call that touch neither the row nor the entry, and after
\* which it still remembers the row it replaced, if any.
LEMMA QuietStep ==
  ASSUME CacheInv, NEW h \in Caller, NEW j \in CallRecord, CallFits(j),
         call' = [call EXCEPT ![h] = j],
         call[h].old # Nothing => j.old # Nothing,
         row' = row, cache' = cache, excused' = excused
  PROVE  CacheInv'
<1>1. /\ call' \in [Caller -> CallRecord] /\ CallsFit' /\ call'[h] = j
      /\ \A g \in Caller : g # h => call'[g] = call[g]
  BY CallMoves
<1>2. CacheTypeOK' BY <1>1 DEF CacheInv, CacheTypeOK
<1>3. StaleHasCause' BY <1>1, CauseStays
<1> QED BY <1>1, <1>2, <1>3 DEF CacheInv

\* A call begins.
LEMMA CallStartKeeps ==
  ASSUME CacheInv, NEW h \in Caller, NEW intent \in Intent, Start(h, intent)
  PROVE  CacheInv'
<1> DEFINE s == {row} \cup ({call[g].old : g \in Caller} \ {Nothing})
           j == [NoCall EXCEPT !.pc = "get", !.intent = intent, !.since = s]
<1>1. \A g \in Caller : call[g].old \in Row \cup {Nothing}
  BY DEF CacheInv, CacheTypeOK, CallRecord
<1>2. s \in SUBSET Row BY <1>1 DEF CacheInv, CacheTypeOK
<1>3. j \in CallRecord /\ CallFits(j)
  BY <1>2 DEF CallRecord, NoCall, PC, Cached, CallFits, Unfinished
<1>4. call' = [call EXCEPT ![h] = j] /\ UNCHANGED <<row, cache, excused>> BY DEF Start
<1>5. call[h].old = Nothing BY DEF Start, CacheInv, CallsFit, CallFits, Unfinished
<1> HIDE DEF j
<1> QED BY <1>3, <1>4, <1>5, QuietStep

\* A call returns, having changed nothing that still needs it.
LEMMA ReturnKeeps ==
  ASSUME CacheInv, NEW h \in Caller, Return(h), call[h].old = Nothing,
         UNCHANGED <<row, cache, excused>>
  PROVE  CacheInv'
BY IdleCallFits, QuietStep DEF Return

\* A call returns and excuses what it leaves behind, as a call does that may
\* have replaced a row.
LEMMA ExcusedKeeps ==
  ASSUME CacheInv, NEW h \in Caller, Return(h), UNCHANGED <<row, cache>>,
         excused' \in BOOLEAN,
         excused => excused', call[h].old # Nothing /\ cache # Nothing => excused'
  PROVE  CacheInv'
<1>1. call' = [call EXCEPT ![h] = NoCall] BY DEF Return
<1>2. /\ call' \in [Caller -> CallRecord] /\ CallsFit' /\ call'[h] = NoCall
      /\ \A g \in Caller : g # h => call'[g] = call[g]
  BY <1>1, IdleCallFits, CallMoves
<1>3. CacheTypeOK' BY <1>2 DEF CacheInv, CacheTypeOK
<1>4. StaleHasCause'
  <2> SUFFICES ASSUME Stale', ~excused'
               PROVE \E g \in Caller : call'[g].old # Nothing
    BY DEF StaleHasCause
  <2>1. Stale /\ cache # Nothing BY DEF Stale
  <2>2. PICK g \in Caller : call[g].old # Nothing
    BY <2>1 DEF CacheInv, StaleHasCause
  <2> QED BY <2>1, <2>2, <1>2
<1> QED BY <1>2, <1>3, <1>4 DEF CacheInv

\* A call goes to another await with what it knows.
LEMMA GotoKeeps ==
  ASSUME CacheInv, NEW h \in Caller, NEW label \in PC, Goto(h, label),
         UNCHANGED <<row, cache, excused>>,
         CallFits([call[h] EXCEPT !.pc = label])
  PROVE  CacheInv'
<1> DEFINE j == [call[h] EXCEPT !.pc = label]
<1>1. call[h] \in CallRecord BY DEF CacheInv, CacheTypeOK
<1>2. j \in CallRecord /\ j.old = call[h].old BY <1>1 DEF CallRecord
<1>3. call' = [call EXCEPT ![h] = j] BY <1>1 DEF Goto, CacheInv, CacheTypeOK, CallRecord
<1> HIDE DEF j
<1> QED BY <1>2, <1>3, QuietStep DEF j

-----------------------------------------------------------------------------
(* The steps of a call, one lemma each.                                    *)

LEMMA CacheGetKeeps ==
  ASSUME CacheInv, NEW h \in Caller, CacheGet(h) PROVE CacheInv'
<1>0. call[h] \in CallRecord /\ cache \in Cached /\ call[h].pc = "get" /\ CallFits(call[h])
      /\ UNCHANGED <<row, cache, excused>>
  BY DEF CacheInv, CacheTypeOK, CacheGet, CallsFit
<1>1. CASE Goto(h, "load")
  <2>1. "load" \in PC /\ CallFits([call[h] EXCEPT !.pc = "load"])
    BY <1>0 DEF PC, CallFits, Unfinished, CallRecord
  <2> QED BY <1>0, <1>1, <2>1, GotoKeeps
<1>2. CASE call' = [call EXCEPT ![h].got = cache, ![h].pc = "guard"]
  <2> DEFINE j == [call[h] EXCEPT !.got = cache, !.pc = "guard"]
  <2>1. j \in CallRecord /\ CallFits(j) /\ j.old = call[h].old
    BY <1>0 DEF CallRecord, PC, CallFits, Unfinished
  <2>2. call' = [call EXCEPT ![h] = j] BY <1>2 DEF CacheInv, CacheTypeOK, CallRecord
  <2> HIDE DEF j
  <2> QED BY <1>0, <2>1, <2>2, QuietStep
<1> QED BY <1>1, <1>2 DEF CacheGet

LEMMA LoadKeeps ==
  ASSUME CacheInv, NEW h \in Caller, Load(h) PROVE CacheInv'
<1>0. call[h] \in CallRecord /\ row \in Row /\ call[h].pc = "load" /\ CallFits(call[h])
      /\ UNCHANGED <<row, cache, excused>>
  BY DEF CacheInv, CacheTypeOK, Load, CallsFit
<1>1. CASE Return(h)
  BY <1>0, <1>1, ReturnKeeps DEF CallFits, Unfinished
<1>2. CASE row # "gone" /\ call' = [call EXCEPT ![h].got = row, ![h].pc = "set"]
  <2> DEFINE j == [call[h] EXCEPT !.got = row, !.pc = "set"]
  <2>1. j \in CallRecord /\ CallFits(j) /\ j.old = call[h].old
    BY <1>0, <1>2 DEF Nothing, CallRecord, PC, CallFits, Unfinished, Row,
       Cached
  <2>2. call' = [call EXCEPT ![h] = j] BY <1>2 DEF CacheInv, CacheTypeOK, CallRecord
  <2> HIDE DEF j
  <2> QED BY <1>0, <2>1, <2>2, QuietStep
<1> QED BY <1>1, <1>2 DEF Load

\* A written entry that differs from the row is excused as set late.
LEMMA CacheSetKeeps ==
  ASSUME CacheInv, NEW h \in Caller, CacheSet(h) PROVE CacheInv'
<1> DEFINE j == [call[h] EXCEPT !.pc = "guard"]
<1>0. call[h] \in CallRecord /\ call[h].pc = "set" /\ CallFits(call[h]) /\ row' = row
  BY DEF CacheInv, CacheTypeOK, CacheSet, CallsFit
<1>1. j \in CallRecord /\ CallFits(j) /\ j.old = call[h].old
  BY <1>0 DEF CallRecord, PC, CallFits, Unfinished
<1>2. call' = [call EXCEPT ![h] = j]
  BY <1>0 DEF CacheSet, Goto, CacheInv, CacheTypeOK, CallRecord
<1> HIDE DEF j
<1>3. CASE UNCHANGED <<cache, excused>> BY <1>0, <1>1, <1>2, <1>3, QuietStep
<1>4. CASE cache' = call[h].got /\ excused' = (call[h].got # row)
  <2>1. call' \in [Caller -> CallRecord] /\ CallsFit' BY <1>1, <1>2, CallMoves
  <2>2. CacheTypeOK' BY <1>0, <1>4, <2>1 DEF CacheInv, CacheTypeOK, CallRecord
  <2>3. StaleHasCause' BY <1>0, <1>4 DEF StaleHasCause, Stale
  <2> QED BY <2>1, <2>2, <2>3 DEF CacheInv
<1> QED BY <1>3, <1>4 DEF CacheSet

LEMMA GuardKeeps ==
  ASSUME CacheInv, NEW h \in Caller, Guard(h) PROVE CacheInv'
<1>0. call[h] \in CallRecord /\ call[h].pc = "guard" /\ CallFits(call[h]) /\ UNCHANGED <<row, cache, excused>>
  BY DEF CacheInv, CacheTypeOK, Guard, CallsFit
<1>1. CASE Return(h) BY <1>0, <1>1, ReturnKeeps DEF CallFits, Unfinished
<1>2. CASE call[h].intent # "mutate" /\ Goto(h, "check")
  <2>1. "check" \in PC /\ CallFits([call[h] EXCEPT !.pc = "check"])
    BY <1>0, <1>2 DEF PC, CallFits, Unfinished, CallRecord
  <2> QED BY <1>0, <1>2, <2>1, GotoKeeps
<1> QED BY <1>1, <1>2 DEF Guard

LEMMA CheckRowKeeps ==
  ASSUME CacheInv, NEW h \in Caller, CheckRow(h) PROVE CacheInv'
<1>0. call[h] \in CallRecord /\ call[h].pc = "check" /\ CallFits(call[h]) /\ UNCHANGED <<row, cache, excused>>
  BY DEF CacheInv, CacheTypeOK, CheckRow, CallsFit
<1>1. CASE Return(h) BY <1>0, <1>1, ReturnKeeps DEF CallFits, Unfinished
<1>2. CASE Goto(h, "change")
  <2>1. "change" \in PC /\ CallFits([call[h] EXCEPT !.pc = "change"])
    BY <1>0 DEF PC, CallFits, Unfinished, CallRecord
  <2> QED BY <1>0, <1>2, <2>1, GotoKeeps
<1> QED BY <1>1, <1>2 DEF CheckRow

\* The change itself: its caller is now the cause of whatever is stale.
LEMMA ChangeRowKeeps ==
  ASSUME CacheInv, NEW h \in Caller, ChangeRow(h) PROVE CacheInv'
<1> DEFINE new == IF row = "gone" THEN "gone" ELSE call[h].intent
           mine == [call[h] EXCEPT !.pc = IF call[h].intent = "gone" THEN "cleanup" ELSE "reread",
                                  !.old = IF row = new THEN Nothing ELSE row]
<1>0. call \in [Caller -> CallRecord] /\ call[h] \in CallRecord /\ call[h].pc = "change"
      /\ CallFits(call[h]) /\ row \in Row /\ row' = new /\ UNCHANGED <<cache, excused>>
  BY DEF CacheInv, CacheTypeOK, ChangeRow, CallsFit
<1>1. new \in Row BY <1>0 DEF CallFits, CallRecord, Intent, Row
<1>2. call[h].old = Nothing /\ call[h].intent # "mutate" BY <1>0 DEF CallFits, Unfinished
<1>3. mine \in CallRecord /\ CallFits(mine)
  BY <1>0, <1>2 DEF CallRecord, PC, CallFits, Unfinished
<1>4. call' = [g \in Caller |->
               IF g = h THEN mine
               ELSE IF call[g].pc = "idle" THEN call[g] ELSE [call[g] EXCEPT !.since = @ \cup {new}]]
  BY DEF ChangeRow
<1> HIDE DEF mine, new
<1>5. \A g \in Caller : g # h =>
        /\ call'[g] \in CallRecord /\ CallFits(call'[g]) /\ call'[g].old = call[g].old
  <2> SUFFICES ASSUME NEW g \in Caller, g # h
               PROVE  call'[g] \in CallRecord /\ CallFits(call'[g]) /\ call'[g].old = call[g].old
    OBVIOUS
  <2>1. call[g] \in CallRecord /\ CallFits(call[g]) BY DEF CacheInv, CacheTypeOK, CallsFit
  <2>2. CASE call[g].pc = "idle" BY <2>1, <2>2, <1>4
  <2>3. CASE call[g].pc # "idle"
    <3>1. call'[g] = [call[g] EXCEPT !.since = @ \cup {new}] BY <2>3, <1>4
    <3>2. call[g].since \cup {new} \in SUBSET Row BY <2>1, <1>1 DEF CallRecord
    <3> QED BY <2>1, <3>1, <3>2 DEF CallRecord, CallFits
  <2> QED BY <2>2, <2>3
<1>6. call'[h] = mine BY <1>4
<1>7. \A g \in Caller : call'[g] \in CallRecord BY <1>3, <1>5, <1>6
<1>8. call' \in [Caller -> CallRecord] BY <1>4, <1>7
<1>9. CacheTypeOK' BY <1>0, <1>1, <1>8 DEF CacheInv, CacheTypeOK
<1>10. \A g \in Caller : CallFits(call'[g]) BY <1>3, <1>5, <1>6
<1>11. CallsFit' BY <1>10 DEF CallsFit, CallFits
<1>12. StaleHasCause'
  <2> SUFFICES ASSUME Stale', ~excused'
               PROVE \E g \in Caller : call'[g].old # Nothing
    BY DEF StaleHasCause
  <2>1. CASE row = new
    <3>1. Stale /\ ~excused BY <2>1, <1>0 DEF Stale
    <3>2. PICK g \in Caller : call[g].old # Nothing
      BY <3>1 DEF CacheInv, StaleHasCause
    <3> QED BY <3>2, <1>2, <1>5
  <2>2. CASE row # new
    <3>1. mine.old = row BY <1>0, <2>2 DEF mine, CallRecord
    <3>2. row # Nothing BY <1>0 DEF Row, Nothing
    <3> QED BY <3>1, <3>2, <1>6
  <2> QED BY <2>1, <2>2
<1> QED BY <1>9, <1>11, <1>12 DEF CacheInv

LEMMA RereadKeeps ==
  ASSUME CacheInv, NEW h \in Caller, Reread(h) PROVE CacheInv'
<1>0. call[h] \in CallRecord /\ call[h].pc = "reread" /\ CallFits(call[h]) /\ UNCHANGED <<row, cache>>
  BY DEF CacheInv, CacheTypeOK, Reread, CallsFit
<1>1. CASE Return(h) /\ excused' = (excused \/ cache # Nothing)
  BY <1>0, <1>1, ExcusedKeeps DEF CacheInv, CacheTypeOK
<1>2. CASE Goto(h, "invalidate") /\ UNCHANGED excused
  <2>1. "invalidate" \in PC /\ CallFits([call[h] EXCEPT !.pc = "invalidate"])
    BY <1>0 DEF PC, CallFits, Unfinished, CallRecord
  <2> QED BY <1>0, <1>2, <2>1, GotoKeeps
<1> QED BY <1>1, <1>2 DEF Reread

LEMMA CleanupKeeps ==
  ASSUME CacheInv, NEW h \in Caller, Cleanup(h) PROVE CacheInv'
<1>0. call[h] \in CallRecord /\ call[h].pc = "cleanup" /\ CallFits(call[h]) /\ UNCHANGED <<row, cache>>
  BY DEF CacheInv, CacheTypeOK, Cleanup, CallsFit
<1>1. CASE Return(h) /\ excused' = (excused \/ cache # Nothing)
  BY <1>0, <1>1, ExcusedKeeps DEF CacheInv, CacheTypeOK
<1>2. CASE Goto(h, "invalidate") /\ UNCHANGED excused
  <2>1. "invalidate" \in PC /\ CallFits([call[h] EXCEPT !.pc = "invalidate"])
    BY <1>0 DEF PC, CallFits, Unfinished, CallRecord
  <2> QED BY <1>0, <1>2, <2>1, GotoKeeps
<1> QED BY <1>1, <1>2 DEF Cleanup

LEMMA InvalidateKeeps ==
  ASSUME CacheInv, NEW h \in Caller, Invalidate(h) PROVE CacheInv'
<1>1. CASE UNCHANGED cache /\ excused' = (excused \/ cache # Nothing)
  BY <1>1, ExcusedKeeps DEF Invalidate, CacheInv, CacheTypeOK
<1>2. CASE cache' = Nothing /\ excused' = FALSE
  <2>1. call' = [call EXCEPT ![h] = NoCall] /\ row' = row
    BY DEF Invalidate, Return
  <2>2. call' \in [Caller -> CallRecord] /\ CallsFit' BY <2>1, IdleCallFits, CallMoves
  <2>3. CacheTypeOK' BY <1>2, <2>1, <2>2 DEF CacheInv, CacheTypeOK, Cached
  <2>4. StaleHasCause' BY <1>2 DEF StaleHasCause, Stale
  <2> QED BY <2>2, <2>3, <2>4 DEF CacheInv
<1> QED BY <1>1, <1>2 DEF Invalidate

LEMMA ExpireKeeps == ASSUME CacheInv, Expire PROVE CacheInv'
<1>1. CacheTypeOK' BY DEF CacheInv, CacheTypeOK, Expire, Cached
<1>2. CallsFit' BY DEF CacheInv, CallsFit, Expire, CallFits
<1>3. StaleHasCause' BY DEF StaleHasCause, Stale, Expire
<1> QED BY <1>1, <1>2, <1>3 DEF CacheInv

-----------------------------------------------------------------------------

\* Every step keeps the invariant.
LEMMA CacheInvNext == CacheInv /\ [CacheNext]_cacheVars => CacheInv'
<1> SUFFICES ASSUME CacheInv, [CacheNext]_cacheVars PROVE CacheInv' OBVIOUS
<1>1. CASE UNCHANGED cacheVars
  <2>1. CacheTypeOK' BY <1>1 DEF CacheInv, CacheTypeOK, cacheVars
  <2>2. CallsFit' BY <1>1 DEF CacheInv, CallsFit, cacheVars, CallFits
  <2>3. StaleHasCause' BY <1>1, CauseStays DEF cacheVars
  <2> QED BY <2>1, <2>2, <2>3 DEF CacheInv
<1>2. CASE Expire BY <1>2, ExpireKeeps
<1>3. ASSUME NEW h \in Caller, Step(h) PROVE CacheInv'
  BY <1>3, CacheGetKeeps, LoadKeeps, CacheSetKeeps, GuardKeeps, CheckRowKeeps, ChangeRowKeeps,
     RereadKeeps, CleanupKeeps, InvalidateKeeps DEF Step
<1>4. ASSUME NEW h \in Caller, CrashCall(h) PROVE CacheInv'
  BY <1>4, ExcusedKeeps DEF CrashCall, CacheInv, CacheTypeOK
<1>5. ASSUME NEW h \in Caller, NEW intent \in Intent, Start(h, intent)
      PROVE CacheInv'
  BY <1>5, CallStartKeeps
<1> QED BY <1>1, <1>2, <1>3, <1>4, <1>5 DEF CacheNext

\* The invariant holds in every behaviour, the fair ones included.
LEMMA CacheInvAlways == CacheSpec => []CacheInv
BY CacheInvInit, CacheInvNext, PTL DEF CacheSpec

\* Type correctness of the row, the entry and the calls.
THEOREM CacheTypeCorrect == CacheSpec => []CacheTypeOK
<1>1. CacheInv => CacheTypeOK BY DEF CacheInv
<1> QED BY <1>1, CacheInvAlways, PTL

\* The cache discipline of getEnvType, updateEnvType and deleteEnvType: an
\* entry that differs from the row is the doing of a change under way, of a
\* late reader, or of an invalidation that failed or was never reached.
THEOREM StaleHasCauseAlways == CacheSpec => []StaleHasCause
<1>1. CacheInv => StaleHasCause BY DEF CacheInv
<1> QED BY <1>1, CacheInvAlways, PTL
=============================================================================
