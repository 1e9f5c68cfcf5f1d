---------------------------- MODULE VaultEntries ----------------------------
(***************************************************************************)
(* Direct mutations of the entries of one unprotected environment type:    *)
(* the create, update, delete, batch and rollback endpoints for variables  *)
(* and secrets.  An endpoint reads what it needs, has VaultEntryService    *)
(* write the entries one call at a time, and at the end records one PiT.   *)
(* Nothing ties these calls together: other endpoints run in between, a    *)
(* call may fail half-way, the process may die before the PiT is written.  *)
(***************************************************************************)
EXTENDS PitReplay, FiniteSets

CONSTANTS
  Handler,      \* API calls in progress
  Mutations,    \* [op, store, plan]: what create, update, delete and batch calls ask for
  RollbackKeys, \* the single keys a rollback may be asked for
  Rollbacks,    \* stores in which rollbacks are asked for
  Faults,       \* which of "throw", "crash", "list" may happen
  MaxPits       \* bound: PiTs recorded or under way

Store == {"env", "secret"}
Other(s) == IF s = "env" THEN "secret" ELSE "env"

Batches == {"batchCreate", "batchUpdate", "batchDelete"}
Ops == {"create", "update", "delete", "rollback"} \cup Batches

\* The operation of the rows an endpoint writes.
OperationOf(op) ==
  IF op \in {"create", "batchCreate"} THEN "CREATE"
  ELSE IF op \in {"update", "batchUpdate"} THEN "UPDATE" ELSE "DELETE"

ASSUME MutationsAreCalls ==
  \A m \in Mutations :
    /\ m.op \in Ops \ {"rollback"} /\ m.store \in Store /\ m.plan \in ChangeSet
    /\ \A k \in DOMAIN m.plan : m.plan[k].operation = OperationOf(m.op)
ASSUME RollbacksAreCalls == RollbackKeys \subseteq Key /\ Rollbacks \subseteq Store
ASSUME PitsAreBounded == MaxPits \in Nat

NoChanges == [k \in {} |-> [operation |-> "UPDATE", value |-> Absent]]

\* pc: "list" fetches the keys the history knows, "look" reads entries,
\* "work" writes them and records the PiT.
\* scope: the keys a rollback covers.   toRead: entries still to be read.
\* seen: the values read.               pit: the PiT to roll back to.
\* plan: the changes to make.           todo: those not yet made.
\* ready: those whose check has passed. failed: a write of a batch failed.
\* raced: keys another call wrote between this call's write and its PiT.
Job == [pc : {"idle", "list", "look", "work"}, op : Ops, store : Store,
        scope : SUBSET Key, toRead : SUBSET Key, seen : Snapshot, pit : 0..MaxPits,
        plan : ChangeSet, todo : SUBSET Key, ready : SUBSET Key, failed : BOOLEAN,
        raced : SUBSET Key]

IdleJob == [pc |-> "idle", op |-> "create", store |-> "env", scope |-> {}, toRead |-> {},
            seen |-> EmptySnapshot, pit |-> 0, plan |-> NoChanges, todo |-> {}, ready |-> {},
            failed |-> FALSE, raced |-> {}]

VARIABLES
  vault,     \* live entries, per store
  history,   \* the PiTs of env_store_pit and secret_store_pit, oldest first
  job,       \* one record per handler
  doubtful   \* auxiliary: entries whose last write was never recorded or
             \* overlapped with the write of another call

vars == <<vault, history, job, doubtful>>

TypeOK ==
  /\ vault \in [Store -> Snapshot]
  /\ history \in [Store -> Seq([changes : ChangeSet])]
  /\ job \in [Handler -> Job]
  /\ doubtful \in SUBSET (Store \X Key)

Init ==
  /\ vault = [s \in Store |-> EmptySnapshot]
  /\ history = [s \in Store |-> <<>>]
  /\ job = [h \in Handler |-> IdleJob]
  /\ doubtful = {}

-----------------------------------------------------------------------------
(* Starting and leaving a call.                                            *)

Active == {h \in Handler : job[h].pc # "idle"}

MayStart(h) ==
  /\ job[h].pc = "idle"
  /\ Len(history["env"]) + Len(history["secret"]) + Cardinality(Active) < MaxPits

\* What an endpoint reads before it acts. The batch endpoints for variables
\* use what they read for messages only, except for the deletion.
Reads(m) ==
  IF m.store = "env" /\ m.op \in {"batchCreate", "batchUpdate"} THEN {} ELSE DOMAIN m.plan

StartMutation(h) ==
  \E m \in Mutations :
    /\ MayStart(h)
    /\ job' = [job EXCEPT ![h] = [IdleJob EXCEPT
                 !.pc = "look", !.op = m.op, !.store = m.store, !.plan = m.plan,
                 !.toRead = Reads(m)]]
    /\ UNCHANGED <<vault, history, doubtful>>

\* rollback...ToPitId and ...ToTimestamp: the PiT named, or the last one not
\* after the timestamp (0: the timestamp is before all of them).
StartRollback(h) ==
  \E s \in Rollbacks : \E p \in 0..Len(history[s]) :
    /\ MayStart(h)
    /\ \E k \in RollbackKeys \cup {Absent} :
         job' = [job EXCEPT ![h] = [IdleJob EXCEPT
                   !.pc = IF k = Absent THEN "list" ELSE "look",
                   !.op = "rollback", !.store = s, !.pit = p,
                   !.scope = IF k = Absent THEN Key ELSE {k},
                   !.toRead = IF k = Absent THEN {} ELSE {k}]]
    /\ UNCHANGED <<vault, history, doubtful>>

\* Entries a handler may have written and not recorded.
Unrecorded(h) ==
  {<<job[h].store, k>> : k \in IF job[h].pc = "work" THEN DOMAIN job[h].plan \ job[h].todo ELSE {}}

Leave(h) == job' = [job EXCEPT ![h] = IdleJob]

\* The call ends without a PiT.
Abandon(h) == Leave(h) /\ doubtful' = doubtful \cup Unrecorded(h)

-----------------------------------------------------------------------------
(* Reading.                                                                *)

Present(snap) == {k \in Key : snap[k] # Absent}

\* list: the candidates are the keys of the current PiT state.
ListCandidates(h) ==
  LET j == job[h] IN
  /\ j.pc = "list"
  /\ job' = [job EXCEPT ![h].pc = "look", ![h].toRead = Present(CurrentState(history[j.store]))]
  /\ UNCHANGED <<vault, history, doubtful>>

\* The reads of a batch or a list run side by side, in any order.
Look(h, k) ==
  LET j == job[h] IN
  /\ j.pc = "look"
  /\ k \in j.toRead
  /\ job' = [job EXCEPT ![h].toRead = @ \ {k}, ![h].seen[k] = vault[j.store][k]]
  /\ UNCHANGED <<vault, history, doubtful>>

\* list drops an entry it cannot read, whatever the error.
LookFailsInList(h, k) ==
  LET j == job[h] IN
  /\ "list" \in Faults
  /\ j.pc = "look"
  /\ j.op = "rollback" /\ j.scope = Key
  /\ k \in j.toRead
  /\ job' = [job EXCEPT ![h].toRead = @ \ {k}]
  /\ UNCHANGED <<vault, history, doubtful>>

\* The 400 and 404 answers of the endpoints.
Refused(j) ==
  LET missing == \E k \in DOMAIN j.plan : j.seen[k] = Absent
      taken   == \E k \in DOMAIN j.plan : j.seen[k] # Absent
  IN  \/ j.op \in {"create", "batchCreate"} /\ taken
      \/ j.op \in {"update", "delete"} /\ missing
      \/ j.store = "secret" /\ j.op \in {"batchUpdate", "batchDelete"} /\ missing

Work(h, plan) ==
  job' = [job EXCEPT ![h].pc = "work", ![h].plan = plan, ![h].todo = DOMAIN plan,
            ![h].ready = IF job[h].op \in {"batchUpdate", "batchDelete"} THEN DOMAIN plan ELSE {}]

Decide(h) ==
  LET j == job[h] IN
  /\ j.pc = "look" /\ j.op # "rollback" /\ j.toRead = {}
  /\ \/ Refused(j) /\ Leave(h)
     \/ ~Refused(j) /\ Work(h, j.plan)
  /\ UNCHANGED <<vault, history, doubtful>>

Target(j) == Replay(SubSeq(history[j.store], 1, j.pit))

\* Faulty variant: only keys of the target are compared, nothing is deleted.
RestorationWithoutDelete(j) ==
  LET target == Target(j)
      differ == {k \in j.scope : target[k] # Absent /\ j.seen[k] # target[k]}
  IN  [k \in differ |->
         [operation |-> IF j.seen[k] = Absent THEN "CREATE" ELSE "UPDATE", value |-> target[k]]]

\* Faulty variant: a key the target does not have is written like any other.
RestorationOfMissing(j) ==
  LET target == Target(j)
      differ == {k \in j.scope : j.seen[k] # target[k]}
  IN  [k \in differ |->
         [operation |-> IF j.seen[k] = Absent THEN "CREATE" ELSE "UPDATE", value |-> target[k]]]

\* The comparison of the current with the target state.
Restoration(j) ==
  LET target == Target(j)
      differ == {k \in j.scope : j.seen[k] # target[k]}
  IN  [k \in differ |->
         IF target[k] = Absent THEN [operation |-> "DELETE", value |-> j.seen[k]]
         ELSE [operation |-> IF j.seen[k] = Absent THEN "CREATE" ELSE "UPDATE",
               value |-> target[k]]]

\* The target state is read after the current one; nothing to do ends the call.
DecideRollback(h) ==
  LET plan == Restoration(job[h]) IN
  /\ job[h].pc = "look" /\ job[h].op = "rollback" /\ job[h].toRead = {}
  /\ \/ DOMAIN plan # {} /\ Work(h, plan)
     \/ DOMAIN plan = {} /\ Leave(h)
  /\ UNCHANGED <<vault, history, doubtful>>

-----------------------------------------------------------------------------
(* VaultEntryService: checks and writes.                                   *)

Deletes(j) == {k \in j.todo : j.plan[k].operation = "DELETE"}

\* batchCreate: one LIST of the other store for all keys.
CheckBatch(h) ==
  LET j == job[h]
      conflict == \E k \in j.todo : vault[Other(j.store)][k] # Absent
  IN
  /\ j.pc = "work" /\ j.op = "batchCreate" /\ j.ready = {} /\ j.todo = DOMAIN j.plan
  /\ \/ conflict /\ Leave(h)
     \/ ~conflict /\ job' = [job EXCEPT ![h].ready = j.todo]
  /\ UNCHANGED <<vault, history, doubtful>>

\* Faulty variant: create overwrites an entry of the other store's name.
CheckItemOwnStore(h, k) ==
  LET j == job[h]
      bad == j.plan[k].operation # "CREATE" /\ vault[j.store][k] = Absent
  IN
  /\ j.pc = "work" /\ j.op \notin Batches /\ j.ready = {} /\ k \in j.todo
  /\ Deletes(j) # {} => k \in Deletes(j)
  /\ \/ bad /\ Abandon(h)
     \/ ~bad /\ job' = [job EXCEPT ![h].ready = {k}] /\ UNCHANGED doubtful
  /\ UNCHANGED <<vault, history>>

\* create looks for the key in the other store, update and delete in their
\* own. A rollback deletes first; a failing check ends the call, whatever it
\* has written by then.
CheckItem(h, k) ==
  LET j == job[h]
      bad == IF j.plan[k].operation = "CREATE"
             THEN vault[Other(j.store)][k] # Absent
             ELSE vault[j.store][k] = Absent
  IN
  /\ j.pc = "work" /\ j.op \notin Batches /\ j.ready = {} /\ k \in j.todo
  /\ Deletes(j) # {} => k \in Deletes(j)
  /\ \/ bad /\ Abandon(h)
     \/ ~bad /\ job' = [job EXCEPT ![h].ready = {k}] /\ UNCHANGED doubtful
  /\ UNCHANGED <<vault, history>>

Written(c) == IF c.operation = "DELETE" THEN Absent ELSE c.value

\* A write of k by h crosses with every other handler that has written k and
\* not yet recorded it.
Crossing(h, k) == {g \in Handler \ {h} : <<job[h].store, k>> \in Unrecorded(g)}

Crossed(h, k) ==
  [g \in Handler |->
     IF g \in Crossing(h, k) THEN [job[g] EXCEPT !.raced = @ \cup {k}] ELSE job[g]]

Put(h, k) == vault' = [vault EXCEPT ![job[h].store][k] = Written(job[h].plan[k])]

\* vaultWrite or vaultDelete.
Write(h, k) ==
  /\ k \in job[h].ready
  /\ Put(h, k)
  /\ job' = [Crossed(h, k) EXCEPT
       ![h].todo = @ \ {k}, ![h].ready = @ \ {k},
       ![h].raced = IF Crossing(h, k) = {} THEN @ ELSE @ \cup {k}]
  /\ UNCHANGED <<history, doubtful>>

\* The call to the vault fails, with or without effect. In a batch the other
\* calls go on (they were started together); else the endpoint gives up.
WriteFails(h, k) ==
  /\ "throw" \in Faults
  /\ k \in job[h].ready
  /\ Put(h, k) \/ UNCHANGED vault
  /\ \/ /\ job[h].op \in Batches
        /\ job' = [Crossed(h, k) EXCEPT
             ![h].todo = @ \ {k}, ![h].ready = @ \ {k}, ![h].failed = TRUE]
        /\ UNCHANGED doubtful
     \/ /\ job[h].op \notin Batches
        /\ job' = [Crossed(h, k) EXCEPT ![h] = IdleJob]
        /\ doubtful' = doubtful \cup Unrecorded(h) \cup {<<job[h].store, k>>}
  /\ UNCHANGED history

-----------------------------------------------------------------------------
(* Recording.                                                              *)

\* batchDeleteEnvs filters the entries it read with "env !== null", but a
\* missing one is undefined: its key is then read and the endpoint throws.
TripsOverMissing(j) ==
  j.op = "batchDelete" /\ j.store = "env" /\ \E k \in DOMAIN j.plan : j.seen[k] = Absent

Recordable(j) == j.pc = "work" /\ j.todo = {} /\ ~j.failed /\ ~TripsOverMissing(j)

\* Faulty variant: deletions leave no row.
RecordWithoutDeletes(h) ==
  LET j == job[h]
      keys == {k \in DOMAIN j.plan : j.plan[k].operation # "DELETE"}
  IN
  /\ Recordable(j)
  /\ history' = [history EXCEPT ![j.store] = Append(@, [changes |-> [k \in keys |-> j.plan[k]]])]
  /\ doubtful' = (doubtful \ ({j.store} \X DOMAIN j.plan)) \cup ({j.store} \X j.raced)
  /\ Leave(h)
  /\ UNCHANGED vault

\* createEnvStorePiT or createSecretStorePiT, one transaction.
Record(h) ==
  LET j == job[h] IN
  /\ Recordable(j)
  /\ history' = [history EXCEPT ![j.store] = Append(@, [changes |-> j.plan])]
  /\ doubtful' = (doubtful \ ({j.store} \X DOMAIN j.plan)) \cup ({j.store} \X j.raced)
  /\ Leave(h)
  /\ UNCHANGED vault

\* A batch with a failed write, or the TypeError: no PiT.
EndsUnrecorded(h) ==
  /\ job[h].pc = "work" /\ job[h].todo = {}
  /\ ~Recordable(job[h])
  /\ Abandon(h)
  /\ UNCHANGED <<vault, history>>

\* A read, a check or the insert of the PiT throws.
Throw(h) ==
  /\ "throw" \in Faults
  /\ job[h].pc # "idle"
  /\ job[h].op \in Batches => job[h].todo = {} \/ job[h].ready = {}
  /\ Abandon(h)
  /\ UNCHANGED <<vault, history>>

\* The API process dies.
Crash(h) ==
  /\ "crash" \in Faults
  /\ job[h].pc # "idle"
  /\ Abandon(h)
  /\ UNCHANGED <<vault, history>>

-----------------------------------------------------------------------------
Next ==
  \E h \in Handler :
    \/ StartMutation(h) \/ StartRollback(h) \/ ListCandidates(h)
    \/ Decide(h) \/ DecideRollback(h) \/ CheckBatch(h)
    \/ Record(h) \/ EndsUnrecorded(h) \/ Throw(h) \/ Crash(h)
    \/ \E k \in Key : \/ Look(h, k) \/ LookFailsInList(h, k)
                      \/ CheckItem(h, k) \/ Write(h, k) \/ WriteFails(h, k)

Spec == Init /\ [][Next]_vars

-----------------------------------------------------------------------------
(* Properties.                                                             *)

\* An entry that no call has in hand, and whose last write was recorded
\* without another write in between, is what its history replays to. So one
\* undisturbed call is enough to bring an entry back in line after failed or
\* overlapping ones, and a call never touches an entry it does not record.
HistoryTellsVault ==
  \A s \in Store, k \in Key :
    /\ <<s, k>> \notin doubtful
    /\ \A h \in Handler : <<s, k>> \notin Unrecorded(h)
    => Replay(history[s])[k] = vault[s][k]

\* A rollback step that answers with success: the last one of a rollback, by
\* recording its PiT or by finding nothing to do.
Succeeds(h) ==
  /\ job[h].op = "rollback" /\ job'[h].pc = "idle"
  /\ \/ history' # history
     \/ job[h].pc = "look" /\ job[h].toRead = {} /\ DOMAIN Restoration(job[h]) = {}

\* "Undo any secret change to any previous state": when a rollback succeeds,
\* every entry it covers has the value of the target state, in the vault and
\* in the history, also entries that were created, deleted or left half
\* written by failed calls since. Doubtful entries the rollback found nothing
\* to do about are excepted. It holds while no other call is in progress.
RollbackRestores ==
  [][\A h \in Handler : Succeeds(h) =>
       LET j == job[h]
           target == Target(j)
       IN  \A k \in j.scope : <<j.store, k>> \notin doubtful' =>
             vault'[j.store][k] = target[k] /\ Replay(history'[j.store])[k] = target[k]]_vars

\* A key is live as a variable or as a secret, never as both: create and
\* batchCreate look into the other store.
KeyLivesOnce == \A k \in Key : \E s \in Store : vault[s][k] = Absent

\* "Create Point-in-Time record for batch deletion": a batch deletion whose
\* deletes all went through leaves the keys that were there deleted in the
\* history. It takes no failure to break it, only a key that is not there.
BatchDeletionIsRecorded ==
  [][\A h \in Handler :
       LET j == job[h] IN
       j.op = "batchDelete" /\ j.pc = "work" /\ j.todo = {} /\ ~j.failed /\ job'[h].pc = "idle" =>
         \A k \in Present(j.seen) : Replay(history'[j.store])[k] = Absent]_vars
=============================================================================
