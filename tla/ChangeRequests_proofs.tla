----------------------- MODULE ChangeRequests_proofs -----------------------
(***************************************************************************)
(* Proofs about ChangeRequests, for any number of requests, users and      *)
(* handlers and with every fault allowed: who applies and who signs off,   *)
(* what an approved request has achieved, and that the calls together      *)
(* implement RequestLifecycle.                                             *)
(***************************************************************************)
EXTENDS ChangeRequests, PitReplay_proofs

\* A handler that runs works for a created request and a user; what it still
\* has to do is listed in that request, and an item in hand is still to do.
JobsAreSound ==
  \A h \in Handler :
    /\ job[h].pc # "idle" => /\ job[h].req \in Request
                             /\ job[h].user \in User
                             /\ status[job[h].req] # "none"
    /\ job[h].pc = "idle" => job[h].todo = {}
    /\ \A i \in job[h].todo : i[2] \in DOMAIN content[job[h].req][i[1]]
    /\ job[h].pc \in {"read", "check", "write"} => job[h].item \in job[h].todo

\* An item is a store and a key.
LEMMA ItemPair ==
  ASSUME NEW i \in Item PROVE i[1] \in Store /\ i[2] \in Key /\ i = <<i[1], i[2]>>
  BY DEF Item

\* A row that was not inserted yet has a well-typed, empty content.
LEMMA EmptyChanges == NoChanges \in ChangeSet /\ NoContent \in Content
<1>1. NoChanges \in [{} -> Change]
  BY DEF NoChanges
<1>2. {} \in SUBSET Key
  OBVIOUS
<1>3. NoChanges \in ChangeSet
  BY <1>1, <1>2 DEF ChangeSet
<1> QED
  BY <1>3 DEF NoContent, Content, Kind

\* What a change set says about a key it lists.
LEMMA ChangeSetMember ==
  ASSUME NEW c \in ChangeSet, NEW k \in DOMAIN c
  PROVE  c[k] \in Change /\ k \in Key
<1>1. PICK ks \in SUBSET Key : c \in [ks -> Change]
  BY DEF ChangeSet
<1> QED
  BY <1>1

\* The items of a request per store are a change set.
LEMMA ContentMember ==
  ASSUME NEW c \in Content, NEW s \in Store
  PROVE  c[s] \in ChangeSet
  BY DEF Content, Store

\* The empty vault is a snapshot.
LEMMA EmptyIsSnapshot == EmptySnapshot \in Snapshot
  BY DEF EmptySnapshot, Snapshot

\* A handler that has returned is well typed.
LEMMA IdleJobIsJob == IdleJob \in Job
  BY DEF IdleJob, Job, PC

\* The invariants of this section hold initially.
LEMMA InitInv == Init => TypeOK /\ JobsAreSound
<1> SUFFICES ASSUME Init PROVE TypeOK /\ JobsAreSound
  OBVIOUS
<1>1. TypeOK
  BY EmptyChanges, EmptyIsSnapshot, IdleJobIsJob DEF Init, TypeOK, Status
<1>2. JobsAreSound
  BY DEF Init, JobsAreSound, IdleJob
<1> QED
  BY <1>1, <1>2

-----------------------------------------------------------------------------
(* The change of an item in hand, and what it does to the vault.           *)

\* An item still to be done names a change of the request.
LEMMA ItemInHand ==
  ASSUME TypeOK, JobsAreSound, NEW h \in Handler, NEW i \in job[h].todo
  PROVE  /\ job[h].req \in Request
         /\ i \in Item /\ i[1] \in Store /\ i[2] \in Key
         /\ content[job[h].req][i[1]] \in ChangeSet
         /\ content[job[h].req][i[1]][i[2]] \in Change
<1>1. i \in Item /\ job[h].req \in Request /\ i[2] \in DOMAIN content[job[h].req][i[1]]
  BY DEF TypeOK, Job, JobsAreSound, PC
<1>2. content[job[h].req] \in Content
  BY <1>1 DEF TypeOK
<1> QED
  BY <1>1, <1>2, ItemPair, ContentMember, ChangeSetMember

\* Moving on to another call keeps jobs well typed.
LEMMA GotoType ==
  ASSUME TypeOK, NEW h \in Handler, NEW label \in PC, Goto(h, label)
  PROVE  job' \in [Handler -> Job]
  BY DEF TypeOK, Goto, Job

\* Returning keeps jobs well typed.
LEMMA ReturnType ==
  ASSUME TypeOK, NEW h \in Handler, Return(h)
  PROVE  job' \in [Handler -> Job]
  BY IdleJobIsJob DEF TypeOK, Return

\* Starting a call keeps the state well typed.
LEMMA EnterType ==
  ASSUME TypeOK, NEW h \in Handler, NEW label \in PC, NEW r \in Request, NEW u \in User,
         Enter(h, label, r, u)
  PROVE  TypeOK'
<1>1. [IdleJob EXCEPT !.pc = label, !.req = r, !.user = u] \in Job
  BY DEF IdleJob, Job
<1> QED
  BY <1>1 DEF TypeOK, Enter, row, data, aux

\* Ticking off an item keeps jobs well typed.
LEMMA ItemDoneType ==
  ASSUME TypeOK, NEW h \in Handler, ItemDone(h)
  PROVE  job' \in [Handler -> Job]
<1>1. [job[h] EXCEPT !.pc = "apply", !.todo = @ \ {job[h].item}, !.item = NoItem] \in Job
  BY DEF TypeOK, Job, PC
<1> QED
  BY <1>1 DEF TypeOK, ItemDone

\* A vault write stores a value or nothing, for a request that exists.
LEMMA ChangeVaultType ==
  ASSUME TypeOK, JobsAreSound, NEW h \in Handler, job[h].pc = "write", ChangeVault(h)
  PROVE  vault' \in [Store -> Snapshot] /\ touched' \in SUBSET Request
<1> DEFINE i == job[h].item
           c == content[job[h].req][i[1]][i[2]]
           v == IF c.operation = "DELETE" THEN Absent ELSE c.value
<1>1. i \in job[h].todo
  BY DEF JobsAreSound
<1>2. c \in Change /\ i[1] \in Store /\ i[2] \in Key /\ job[h].req \in Request
  BY <1>1, ItemInHand
<1>3. v \in Value \cup {Absent}
  BY <1>2 DEF Change
<1>4. vault' = [vault EXCEPT ![i[1]][i[2]] = v]
  BY DEF ChangeVault, ChangeOf
<1>5. vault' \in [Store -> Snapshot]
  <2> HIDE DEF i, v
  <2>1. vault[i[1]] \in Snapshot
    BY <1>2 DEF TypeOK
  <2>2. [vault[i[1]] EXCEPT ![i[2]] = v] \in Snapshot
    BY <2>1, <1>2, <1>3 DEF Snapshot
  <2> QED
    BY <1>4, <2>2 DEF TypeOK
<1>6. touched' \in SUBSET Request
  BY <1>2 DEF ChangeVault, TypeOK
<1> QED
  BY <1>5, <1>6

-----------------------------------------------------------------------------
(* Type correctness.                                                       *)

\* The content createPromotion makes from a source is well typed.
LEMMA PromotionContent ==
  ASSUME NEW c \in Snapshots
  PROVE  [kind   |-> "promotion",
          env    |-> [k \in DOMAIN c.env |-> [c.env[k] EXCEPT !.operation = "UPDATE"]],
          secret |-> [k \in DOMAIN c.secret |-> [c.secret[k] EXCEPT !.operation = "UPDATE"]]]
           \in Content
<1> DEFINE Updates(f) == [k \in DOMAIN f |-> [f[k] EXCEPT !.operation = "UPDATE"]]
<1>1. ASSUME NEW f \in ChangeSet PROVE Updates(f) \in ChangeSet
  <2>1. PICK ks \in SUBSET Key : f \in [ks -> Change]
    BY <1>1 DEF ChangeSet
  <2>2. DOMAIN f = ks
    BY <2>1
  <2>3. \A k \in ks : [f[k] EXCEPT !.operation = "UPDATE"] \in Change
    BY <2>1 DEF Change, Operation
  <2>4. Updates(f) \in [ks -> Change]
    BY <2>2, <2>3
  <2> QED
    BY <2>4 DEF ChangeSet
<1>2. c.env \in ChangeSet /\ c.secret \in ChangeSet
  BY ContentsAreChangeSets
<1>3. Updates(c.env) \in ChangeSet /\ Updates(c.secret) \in ChangeSet
  BY <1>1, <1>2
<1> QED
  BY <1>3 DEF Content, Kind

\* Inserting a request keeps the state well typed.
LEMMA InsertType ==
  ASSUME TypeOK, NEW r \in Request, NEW u \in User, NEW c \in Content, Insert(r, u, c)
  PROVE  TypeOK'
  BY DEF TypeOK, Insert, Status, data, aux

\* Each of the three creations inserts a request with a well-typed content.
LEMMA CreateType ==
  ASSUME TypeOK, NEW r \in Request, NEW u \in User,
         CreateDirect(r, u) \/ CreatePromotion(r, u) \/ CreateCertificateOp(r, u)
  PROVE  \E c \in Content : Insert(r, u, c)
<1>1. CASE CreateDirect(r, u)
  <2>1. PICK c \in DirectContents :
          Insert(r, u, [kind |-> "direct", env |-> c.env, secret |-> c.secret])
    BY <1>1 DEF CreateDirect
  <2>2. [kind |-> "direct", env |-> c.env, secret |-> c.secret] \in Content
    BY ContentsAreChangeSets DEF Content, Kind
  <2> QED
    BY <2>1, <2>2
<1>2. CASE CreatePromotion(r, u)
  BY <1>2, PromotionContent DEF CreatePromotion
<1>3. CASE CreateCertificateOp(r, u)
  <2>1. [NoContent EXCEPT !.kind = "certificate"] \in Content
    BY EmptyChanges DEF Content, Kind
  <2> QED
    BY <1>3, <2>1 DEF CreateCertificateOp
<1> QED
  BY <1>1, <1>2, <1>3

\* The rows fetched become a well-typed list of work.
LEMMA LoadItemsType ==
  ASSUME TypeOK, JobsAreSound, NEW h \in Handler, LoadItems(h)
  PROVE  TypeOK'
<1> DEFINE c == content[job[h].req]
           items == {<<"env", k>> : k \in DOMAIN c.env} \cup
                    {<<"secret", k>> : k \in DOMAIN c.secret}
           label == IF c.kind = "certificate" THEN "issue" ELSE "apply"
<1>1. c \in Content
  BY DEF LoadItems, JobsAreSound, TypeOK
<1>2. c.env \in ChangeSet /\ c.secret \in ChangeSet
  BY <1>1 DEF Content
<1>3. items \in SUBSET Item
  BY <1>2, ChangeSetMember DEF Item, Store
<1>4. job' = [job EXCEPT ![h].pc = label, ![h].todo = items]
  BY DEF LoadItems
<1>5. label \in PC
  BY DEF PC
<1>6. job' \in [Handler -> Job]
  <2> HIDE DEF label, items
  <2>1. [job[h] EXCEPT !.pc = label, !.todo = items] \in Job
    BY <1>3, <1>5 DEF TypeOK, Job
  <2> QED
    BY <2>1, <1>4 DEF TypeOK
<1> QED
  BY <1>6 DEF LoadItems, TypeOK, row, data, aux

\* Picking an item keeps the state well typed.
LEMMA PickItemType ==
  ASSUME TypeOK, NEW h \in Handler, PickItem(h)
  PROVE  TypeOK'
<1>1. PICK item \in job[h].todo :
        job' = [job EXCEPT
            ![h].item = item,
            ![h].pc = IF content[job[h].req][item[1]][item[2]].operation = "CREATE"
                      THEN "check" ELSE "read"]
  BY DEF PickItem
<1> DEFINE label == IF content[job[h].req][item[1]][item[2]].operation = "CREATE"
                    THEN "check" ELSE "read"
<1>2. label \in PC
  BY DEF PC
<1>3. item \in Item
  BY DEF TypeOK, Job
<1>4. job' \in [Handler -> Job]
  <2>1. job' = [job EXCEPT ![h].item = item, ![h].pc = label]
    BY <1>1
  <2> HIDE DEF label
  <2>2. [job[h] EXCEPT !.item = item, !.pc = label] \in Job
    BY <1>2, <1>3 DEF TypeOK, Job
  <2> QED
    BY <2>1, <2>2 DEF TypeOK
<1> QED
  BY <1>4 DEF PickItem, TypeOK, row, data, aux

\* Recording a PiT appends a well-typed row.
LEMMA RecordPiTType ==
  ASSUME TypeOK, JobsAreSound, NEW h \in Handler, NEW s \in Store, RecordPiT(h, s)
  PROVE  TypeOK'
<1> DEFINE r == job[h].req
           pit == [req |-> r, changes |-> content[r][s]]
<1>1. r \in Request
  BY DEF RecordPiT, JobsAreSound
<1>2. pit \in Pit
  BY <1>1, ContentMember DEF TypeOK, Pit
<1>3. history' \in [Store -> Seq(Pit)] /\ touched' \in SUBSET Request
  <2>1. CASE DOMAIN content[r][s] # {}
    <3>1. history' = [history EXCEPT ![s] = Append(@, pit)] /\ touched' = touched \cup {r}
      BY <2>1 DEF RecordPiT
    <3>2. Append(history[s], pit) \in Seq(Pit)
      BY <1>2 DEF TypeOK
    <3> QED
      BY <3>1, <3>2, <1>1 DEF TypeOK
  <2>2. CASE DOMAIN content[r][s] = {}
    BY <2>2 DEF RecordPiT, TypeOK
  <2> QED
    BY <2>1, <2>2
<1>4. (IF s = "env" THEN "recordSecret" ELSE "final") \in PC
  BY DEF PC
<1>5. job' \in [Handler -> Job]
  BY <1>4, GotoType DEF RecordPiT
<1> QED
  BY <1>3, <1>5 DEF RecordPiT, TypeOK, row

\* No step of a handler leaves the type.
LEMMA StepType ==
  ASSUME TypeOK, JobsAreSound, NEW h \in Handler, Step(h)
  PROVE  TypeOK'
<1> USE DEF row, data, aux
<1>1. CASE Claim(h)
  <2>1. job[h].req \in Request /\ job[h].user \in User
    BY <1>1 DEF Claim, JobsAreSound
  <2>2. job' \in [Handler -> Job]
    BY <1>1, GotoType, ReturnType DEF Claim, PC
  <2>3. status' \in [Request -> Status] /\ reviewer' \in [Request -> User \cup {NoUser}]
    BY <1>1, <2>1 DEF Claim, TypeOK, Status
  <2>4. attempts' \in [Request -> Nat]
    BY <1>1, <2>1 DEF Claim, TypeOK
  <2> QED
    BY <1>1, <2>2, <2>3, <2>4 DEF Claim, TypeOK
<1>2. CASE LoadItems(h)
  BY <1>2, LoadItemsType
<1>3. CASE PickItem(h)
  BY <1>3, PickItemType
<1>4. CASE ReadEntry(h)
  <2>1. job' \in [Handler -> Job]
    BY <1>4, GotoType, ItemDoneType DEF ReadEntry, PC
  <2> QED
    BY <1>4, <2>1 DEF ReadEntry, TypeOK
<1>5. CASE CheckKey(h)
  <2>1. job' \in [Handler -> Job]
    BY <1>5, GotoType DEF CheckKey, PC
  <2> QED
    BY <1>5, <2>1 DEF CheckKey, TypeOK
<1>6. CASE WriteEntry(h)
  <2>1. job' \in [Handler -> Job]
    BY <1>6, ItemDoneType DEF WriteEntry
  <2>2. vault' \in [Store -> Snapshot] /\ touched' \in SUBSET Request
    BY <1>6, ChangeVaultType DEF WriteEntry
  <2> QED
    BY <1>6, <2>1, <2>2 DEF WriteEntry, TypeOK
<1>7. CASE ItemsDone(h)
  <2>1. job' \in [Handler -> Job]
    BY <1>7, GotoType DEF ItemsDone, PC
  <2> QED
    BY <1>7, <2>1 DEF ItemsDone, TypeOK
<1>8. CASE \E s \in Store : RecordPiT(h, s)
  BY <1>8, RecordPiTType
<1>9. CASE IssueCertificate(h)
  <2>1. job' \in [Handler -> Job]
    BY <1>9, GotoType DEF IssueCertificate, PC
  <2>2. touched' \in SUBSET Request
    BY <1>9 DEF IssueCertificate, TypeOK, JobsAreSound
  <2> QED
    BY <1>9, <2>1, <2>2 DEF IssueCertificate, TypeOK
<1>10. CASE Finalize(h)
  <2>1. job' \in [Handler -> Job]
    BY <1>10, GotoType, ReturnType DEF Finalize, PC
  <2> QED
    BY <1>10, <2>1 DEF Finalize, TypeOK, Status
<1>11. CASE MarkFailed(h)
  <2>1. job' \in [Handler -> Job]
    BY <1>11, ReturnType DEF MarkFailed
  <2> QED
    BY <1>11, <2>1 DEF MarkFailed, TypeOK, Status
<1>12. CASE Reject(h)
  <2>1. job' \in [Handler -> Job] /\ job[h].user \in User
    BY <1>12, ReturnType DEF Reject, JobsAreSound
  <2> QED
    BY <1>12, <2>1 DEF Reject, TypeOK, Status
<1>13. CASE Cancel(h)
  <2>1. job' \in [Handler -> Job]
    BY <1>13, ReturnType DEF Cancel
  <2> QED
    BY <1>13, <2>1 DEF Cancel, TypeOK, Status
<1> QED
  BY <1>1, <1>2, <1>3, <1>4, <1>5, <1>6, <1>7, <1>8, <1>9, <1>10, <1>11, <1>12, <1>13 DEF Step

\* No fault leaves the type.
LEMMA FaultType ==
  ASSUME TypeOK, JobsAreSound, NEW h \in Handler, Fault(h)
  PROVE  TypeOK'
<1> USE DEF row, data, aux
<1>1. CASE WriteEntryReplyLost(h)
  <2>1. job' \in [Handler -> Job]
    BY <1>1, GotoType DEF WriteEntryReplyLost, PC
  <2>2. vault' \in [Store -> Snapshot] /\ touched' \in SUBSET Request
    BY <1>1, ChangeVaultType DEF WriteEntryReplyLost
  <2> QED
    BY <1>1, <2>1, <2>2 DEF WriteEntryReplyLost, TypeOK
<1>2. CASE Throw(h)
  <2>1. job' \in [Handler -> Job]
    BY <1>2, GotoType DEF Throw, PC
  <2> QED
    BY <1>2, <2>1 DEF Throw, TypeOK
<1>3. CASE LoadItemsThrows(h) \/ Crash(h)
  <2>1. job' \in [Handler -> Job]
    BY <1>3, ReturnType DEF LoadItemsThrows, Crash
  <2> QED
    BY <1>3, <2>1 DEF LoadItemsThrows, Crash, TypeOK
<1> QED
  BY <1>1, <1>2, <1>3 DEF Fault

-----------------------------------------------------------------------------
(* Every action in terms of the one handler it moves.                      *)

\* A step of handler h that leaves every request created and its content
\* alone keeps the other handlers sound; h itself has to be looked at.
LEMMA OthersStaySound ==
  ASSUME JobsAreSound, NEW h \in Handler,
         \A g \in Handler \ {h} : job'[g] = job[g],
         content' = content,
         \A r \in Request : status[r] # "none" => status'[r] # "none",
         job'[h].pc # "idle" => /\ job'[h].req \in Request
                                /\ job'[h].user \in User
                                /\ status'[job'[h].req] # "none",
         job'[h].pc = "idle" => job'[h].todo = {},
         \A i \in job'[h].todo : i[2] \in DOMAIN content[job'[h].req][i[1]],
         job'[h].pc \in {"read", "check", "write"} => job'[h].item \in job'[h].todo
  PROVE  JobsAreSound'
  BY DEF JobsAreSound

\* Requests stay created and keep their content.
RowsKept == /\ content' = content
            /\ \A r \in Request : status[r] # "none" => status'[r] # "none"

\* Moving on to a call that needs no item in hand keeps jobs sound.
LEMMA GotoSound ==
  ASSUME TypeOK, JobsAreSound, NEW h \in Handler, NEW label, Goto(h, label), RowsKept,
         job[h].pc # "idle", label # "idle",
         label \in {"read", "check", "write"} => job[h].pc \in {"read", "check", "write"}
  PROVE  JobsAreSound'
<1>1. /\ job'[h].pc = label /\ job'[h].req = job[h].req /\ job'[h].user = job[h].user
      /\ job'[h].todo = job[h].todo /\ job'[h].item = job[h].item
      /\ \A g \in Handler \ {h} : job'[g] = job[g]
  BY DEF Goto, TypeOK, Job
<1> QED
  BY <1>1, OthersStaySound DEF JobsAreSound, RowsKept

\* Returning keeps jobs sound.
LEMMA ReturnSound ==
  ASSUME TypeOK, JobsAreSound, NEW h \in Handler, Return(h), RowsKept
  PROVE  JobsAreSound'
<1>1. job'[h] = IdleJob /\ \A g \in Handler \ {h} : job'[g] = job[g]
  BY DEF Return, TypeOK
<1>2. job'[h].pc = "idle" /\ job'[h].todo = {}
  BY <1>1 DEF IdleJob
<1> QED
  BY <1>1, <1>2, OthersStaySound DEF RowsKept

\* Ticking off an item keeps jobs sound.
LEMMA ItemDoneSound ==
  ASSUME TypeOK, JobsAreSound, NEW h \in Handler, ItemDone(h), RowsKept, job[h].pc # "idle"
  PROVE  JobsAreSound'
<1>1. /\ job'[h].pc = "apply" /\ job'[h].req = job[h].req /\ job'[h].user = job[h].user
      /\ job'[h].todo \subseteq job[h].todo
      /\ \A g \in Handler \ {h} : job'[g] = job[g]
  BY DEF ItemDone, TypeOK, Job
<1> QED
  BY <1>1, OthersStaySound DEF JobsAreSound, RowsKept

\* After the rows are fetched, the work lists what the request lists.
LEMMA LoadItemsSound ==
  ASSUME TypeOK, JobsAreSound, NEW h \in Handler, LoadItems(h), RowsKept
  PROVE  JobsAreSound'
<1> DEFINE c == content[job[h].req]
<1>1. job[h].pc = "load" /\ c \in Content
  BY DEF LoadItems, JobsAreSound, TypeOK
<1>2. /\ job'[h].pc \in {"issue", "apply"}
      /\ job'[h].req = job[h].req /\ job'[h].user = job[h].user
      /\ job'[h].todo = {<<"env", k>> : k \in DOMAIN c.env} \cup
                        {<<"secret", k>> : k \in DOMAIN c.secret}
      /\ \A g \in Handler \ {h} : job'[g] = job[g]
  BY DEF LoadItems, TypeOK, Job
<1>3. \A i \in job'[h].todo : i[2] \in DOMAIN content[job'[h].req][i[1]]
  BY <1>1, <1>2 DEF Content
<1> QED
  BY <1>1, <1>2, <1>3, OthersStaySound DEF JobsAreSound, RowsKept

\* The item picked is one still to be done.
LEMMA PickItemSound ==
  ASSUME TypeOK, JobsAreSound, NEW h \in Handler, PickItem(h), RowsKept
  PROVE  JobsAreSound'
<1>1. PICK item \in job[h].todo :
        job' = [job EXCEPT
          ![h].item = item,
          ![h].pc = IF content[job[h].req][item[1]][item[2]].operation = "CREATE"
                    THEN "check" ELSE "read"]
  BY DEF PickItem
<1>2. /\ job'[h].pc \in {"check", "read"} /\ job'[h].item \in job'[h].todo
      /\ job'[h].req = job[h].req /\ job'[h].user = job[h].user
      /\ job'[h].todo = job[h].todo
      /\ \A g \in Handler \ {h} : job'[g] = job[g]
  BY <1>1 DEF TypeOK, Job
<1>3. job[h].pc = "apply"
  BY DEF PickItem
<1> QED
  BY <1>2, <1>3, OthersStaySound DEF JobsAreSound, RowsKept

\* No step or fault of a handler makes a job unsound.
LEMMA StepSound ==
  ASSUME TypeOK, JobsAreSound, NEW h \in Handler, Step(h) \/ Fault(h)
  PROVE  JobsAreSound'
<1> USE DEF row, data, aux
<1>1. RowsKept
  BY DEF RowsKept, Step, Fault, Claim, LoadItems, PickItem, ReadEntry, CheckKey, WriteEntry,
         ItemsDone, RecordPiT, IssueCertificate, Finalize, MarkFailed, Reject, Cancel,
         WriteEntryReplyLost, Throw, LoadItemsThrows, Crash, TypeOK
<1>2. CASE LoadItems(h) \/ PickItem(h)
  BY <1>1, <1>2, LoadItemsSound, PickItemSound
<1>3. CASE Claim(h)
  BY <1>1, <1>3, GotoSound, ReturnSound DEF Claim
<1>4. CASE ReadEntry(h)
  BY <1>1, <1>4, GotoSound, ItemDoneSound DEF ReadEntry
<1>5. CASE CheckKey(h)
  BY <1>1, <1>5, GotoSound DEF CheckKey
<1>6. CASE WriteEntry(h)
  BY <1>1, <1>6, ItemDoneSound DEF WriteEntry
<1>7. CASE ItemsDone(h)
  BY <1>1, <1>7, GotoSound DEF ItemsDone
<1>8. CASE \E s \in Store : RecordPiT(h, s)
  BY <1>1, <1>8, GotoSound DEF RecordPiT
<1>9. CASE IssueCertificate(h)
  BY <1>1, <1>9, GotoSound DEF IssueCertificate
<1>10. CASE Finalize(h)
  BY <1>1, <1>10, GotoSound, ReturnSound DEF Finalize
<1>11. CASE MarkFailed(h) \/ Reject(h) \/ Cancel(h) \/ LoadItemsThrows(h) \/ Crash(h)
  BY <1>1, <1>11, ReturnSound DEF MarkFailed, Reject, Cancel, LoadItemsThrows, Crash
<1>12. CASE WriteEntryReplyLost(h)
  BY <1>1, <1>12, GotoSound DEF WriteEntryReplyLost
<1>13. CASE Throw(h)
  BY <1>1, <1>13, GotoSound DEF Throw, Guarded
<1> QED
  BY <1>2, <1>3, <1>4, <1>5, <1>6, <1>7, <1>8, <1>9, <1>10, <1>11, <1>12, <1>13 DEF Step, Fault

\* Nobody works for a request before it is inserted, so inserting disturbs no job.
LEMMA InsertSound ==
  ASSUME TypeOK, JobsAreSound, NEW r \in Request, NEW u \in User, NEW c \in Content,
         Insert(r, u, c)
  PROVE  JobsAreSound'
<1> SUFFICES ASSUME NEW h \in Handler
             PROVE  /\ job[h].pc # "idle" => /\ job[h].req \in Request
                                             /\ job[h].user \in User
                                             /\ status'[job[h].req] # "none"
                    /\ job[h].pc = "idle" => job[h].todo = {}
                    /\ \A i \in job[h].todo : i[2] \in DOMAIN content'[job[h].req][i[1]]
                    /\ job[h].pc \in {"read", "check", "write"} => job[h].item \in job[h].todo
  BY DEF JobsAreSound, Insert
<1>1. CASE job[h].pc = "idle"
  BY <1>1 DEF JobsAreSound
<1>2. CASE job[h].pc # "idle"
  <2>1. job[h].req # r
    BY <1>2 DEF JobsAreSound, Insert
  <2> QED
    BY <1>2, <2>1 DEF JobsAreSound, Insert, TypeOK
<1> QED
  BY <1>1, <1>2

\* A call starts only for a request that exists.
LEMMA StartSound ==
  ASSUME TypeOK, JobsAreSound, NEW h \in Handler, NEW r \in Request, NEW u \in User,
         StartApprove(h, r, u) \/ StartReject(h, r, u) \/ StartCancel(h, r, u)
  PROVE  TypeOK' /\ JobsAreSound'
<1>1. PICK label \in {"claim", "reject", "cancel"} : Enter(h, label, r, u)
  BY DEF StartApprove, StartReject, StartCancel
<1>2. status[r] # "none"
  BY DEF StartApprove, StartReject, StartCancel
<1>3. TypeOK'
  BY <1>1, EnterType DEF PC
<1>4. JobsAreSound'
  BY <1>1, <1>2, OthersStaySound DEF Enter, IdleJob, TypeOK, row
<1> QED
  BY <1>3, <1>4

\* Type and soundness of jobs are inductive.
LEMMA NextInv ==
  ASSUME TypeOK, JobsAreSound, [Next]_vars
  PROVE  TypeOK' /\ JobsAreSound'
<1>1. ASSUME NEW r \in Request, NEW u \in User,
             CreateDirect(r, u) \/ CreatePromotion(r, u) \/ CreateCertificateOp(r, u)
      PROVE  TypeOK' /\ JobsAreSound'
  BY <1>1, CreateType, InsertType, InsertSound
<1>2. ASSUME NEW r \in Request, NEW u \in User, NEW h \in Handler,
             StartApprove(h, r, u) \/ StartReject(h, r, u) \/ StartCancel(h, r, u)
      PROVE  TypeOK' /\ JobsAreSound'
  BY <1>2, StartSound
<1>3. ASSUME NEW h \in Handler, Step(h) \/ Fault(h)
      PROVE  TypeOK' /\ JobsAreSound'
  BY <1>3, StepType, FaultType, StepSound
<1>4. CASE UNCHANGED vars
  BY <1>4 DEF vars, TypeOK, JobsAreSound
<1> QED
  BY <1>1, <1>2, <1>3, <1>4 DEF Next

\* The state of the change request protocol keeps its types in every
\* behaviour: columns hold the values the schema allows, vault and history
\* hold values and change sets, handlers are where the code can be.
THEOREM TypeCorrect == Spec => []TypeOK
<1>1. Init => TypeOK /\ JobsAreSound
  BY InitInv
<1>2. TypeOK /\ JobsAreSound /\ [Next]_vars => TypeOK' /\ JobsAreSound'
  BY NextInv
<1> QED
  BY <1>1, <1>2, PTL DEF Spec

-----------------------------------------------------------------------------
(* One applier.                                                            *)

\* What any step of handler h does to a row it does not hold: nothing that
\* takes a request out of "applying" or changes who reviews it there.
HeldRowsKept(h) ==
  \A r \in Request :
    status[r] = "applying" /\ (Holding(h) => job[h].req # r)
      => status'[r] = "applying" /\ reviewer'[r] = reviewer[r]

\* If h holds its request after the step, it held it before or it claimed a
\* row that was not "applying"; and the row is its own.
HoldsOwnRow(h) ==
  Holding(h)' =>
    /\ status'[job'[h].req] = "applying" /\ reviewer'[job'[h].req] = job'[h].user
    /\ \/ Holding(h) /\ job'[h].req = job[h].req
       \/ status[job'[h].req] # "applying"

\* A step of one handler that keeps the rows others hold, and after which it owns what it holds.
LEMMA MoveKeepsOneApplier ==
  ASSUME TypeOK, JobsAreSound, OneApplier, NEW h \in Handler,
         \A g \in Handler \ {h} : job'[g] = job[g],
         HeldRowsKept(h), HoldsOwnRow(h)
  PROVE  OneApplier'
<1>1. ASSUME NEW g \in Handler, Holding(g)'
      PROVE  status'[job'[g].req] = "applying" /\ reviewer'[job'[g].req] = job'[g].user
  <2>1. CASE g = h
    BY <1>1, <2>1 DEF HoldsOwnRow
  <2>2. CASE g # h
    <3>1. job'[g] = job[g] /\ Holding(g)
      BY <1>1, <2>2 DEF Holding
    <3>2. job[g].req \in Request
      BY <3>1 DEF Holding, Guarded, JobsAreSound
    <3>3. status[job[g].req] = "applying" /\ reviewer[job[g].req] = job[g].user
      BY <3>1 DEF OneApplier
    <3>4. Holding(h) => job[h].req # job[g].req
      BY <3>1, <2>2 DEF OneApplier
    <3> QED
      BY <3>1, <3>2, <3>3, <3>4 DEF HeldRowsKept
  <2> QED
    BY <2>1, <2>2
<1>2. ASSUME NEW f \in Handler, NEW g \in Handler, f # g, Holding(f)', Holding(g)', g = h
      PROVE  job'[f].req # job'[g].req
  <2>1. job'[f] = job[f] /\ Holding(f)
    BY <1>2 DEF Holding
  <2>2. status[job[f].req] = "applying"
    BY <2>1 DEF OneApplier
  <2>3. CASE Holding(h) /\ job'[h].req = job[h].req
    BY <1>2, <2>1, <2>3 DEF OneApplier
  <2>4. CASE status[job'[h].req] # "applying"
    BY <1>2, <2>1, <2>2, <2>4
  <2> QED
    BY <1>2, <2>3, <2>4 DEF HoldsOwnRow
<1>3. ASSUME NEW f \in Handler, NEW g \in Handler, f # g, Holding(f)', Holding(g)'
      PROVE  job'[f].req # job'[g].req
  <2>1. CASE f = h \/ g = h
    BY <1>2, <1>3, <2>1
  <2>2. CASE f # h /\ g # h
    BY <1>3, <2>2 DEF Holding, OneApplier
  <2> QED
    BY <2>1, <2>2
<1> QED
  BY <1>1, <1>3 DEF OneApplier

\* A relabelling inside an approval keeps the hold.
LEMMA GotoKeepsOneApplier ==
  ASSUME TypeOK, JobsAreSound, OneApplier, NEW h \in Handler, Holding(h),
         job'[h].req = job[h].req, job'[h].user = job[h].user,
         \A g \in Handler \ {h} : job'[g] = job[g],
         UNCHANGED <<status, reviewer>>
  PROVE  OneApplier'
<1>1. HeldRowsKept(h) /\ HoldsOwnRow(h)
  BY DEF HeldRowsKept, HoldsOwnRow, OneApplier
<1> QED
  BY <1>1, MoveKeepsOneApplier

\* A holder that goes on, leaving the rows alone.
LEMMA StayKeepsOneApplier ==
  ASSUME TypeOK, JobsAreSound, OneApplier, NEW h \in Handler, Holding(h),
         (\E label \in PC : Goto(h, label)) \/ ItemDone(h),
         UNCHANGED <<status, reviewer>>
  PROVE  OneApplier'
<1>1. CASE \E label \in PC : Goto(h, label)
  <2>1. /\ job'[h].req = job[h].req /\ job'[h].user = job[h].user
        /\ \A g \in Handler \ {h} : job'[g] = job[g]
    BY <1>1 DEF Goto, TypeOK, Job
  <2> QED
    BY <2>1, GotoKeepsOneApplier
<1>2. CASE ItemDone(h)
  <2>1. /\ job'[h].req = job[h].req /\ job'[h].user = job[h].user
        /\ \A g \in Handler \ {h} : job'[g] = job[g]
    BY <1>2 DEF ItemDone, TypeOK, Job
  <2> QED
    BY <2>1, GotoKeepsOneApplier
<1> QED
  BY <1>1, <1>2

\* A handler that returns gives up its hold; what it may change is a row
\* that is not "applying", or the one it holds.
LEMMA ReturnKeepsOneApplier ==
  ASSUME TypeOK, JobsAreSound, OneApplier, NEW h \in Handler, Return(h), HeldRowsKept(h)
  PROVE  OneApplier'
<1>1. job'[h] = IdleJob /\ \A g \in Handler \ {h} : job'[g] = job[g]
  BY DEF Return, TypeOK
<1>2. HoldsOwnRow(h)
  BY <1>1 DEF HoldsOwnRow, Holding, Guarded, IdleJob
<1> QED
  BY <1>1, <1>2, MoveKeepsOneApplier

\* No step or fault of a handler makes a second applier.
LEMMA StepKeepsOneApplier ==
  ASSUME TypeOK, JobsAreSound, OneApplier, NEW h \in Handler, Step(h) \/ Fault(h)
  PROVE  OneApplier'
<1> USE DEF row, data, aux
<1>1. CASE Claim(h)
  <2> DEFINE r == job[h].req
  <2>1. r \in Request /\ ~Holding(h)
    BY <1>1 DEF Claim, JobsAreSound, Holding, Guarded
  <2>2. CASE status[r] \in {"pending", "failed"} /\ Goto(h, "load")
    <3>1. /\ job'[h].req = r /\ job'[h].user = job[h].user
          /\ \A g \in Handler \ {h} : job'[g] = job[g]
      BY <2>2 DEF Goto, TypeOK, Job
    <3>2. /\ status' = [status EXCEPT ![r] = "applying"]
          /\ reviewer' = [reviewer EXCEPT ![r] = job[h].user]
      BY <1>1, <2>2 DEF Claim, Goto, Return, IdleJob, TypeOK
    <3>3. HeldRowsKept(h) /\ HoldsOwnRow(h)
      BY <2>1, <2>2, <3>1, <3>2 DEF HeldRowsKept, HoldsOwnRow, TypeOK
    <3> QED
      BY <3>1, <3>3, MoveKeepsOneApplier
  <2>3. CASE Return(h) /\ UNCHANGED <<status, reviewer>>
    BY <2>3, ReturnKeepsOneApplier DEF HeldRowsKept
  <2> QED
    BY <1>1, <2>2, <2>3 DEF Claim
<1>2. CASE LoadItems(h)
  <2>1. Holding(h) /\ UNCHANGED <<status, reviewer>>
    BY <1>2 DEF LoadItems, Holding
  <2>2. /\ job'[h].req = job[h].req /\ job'[h].user = job[h].user
        /\ \A g \in Handler \ {h} : job'[g] = job[g]
    BY <1>2 DEF LoadItems, TypeOK, Job
  <2> QED
    BY <2>1, <2>2, GotoKeepsOneApplier
<1>3. CASE PickItem(h)
  <2>1. PICK item \in job[h].todo :
          job' = [job EXCEPT
            ![h].item = item,
            ![h].pc = IF content[job[h].req][item[1]][item[2]].operation = "CREATE"
                      THEN "check" ELSE "read"]
    BY <1>3 DEF PickItem
  <2>2. Holding(h) /\ UNCHANGED <<status, reviewer>>
    BY <1>3 DEF PickItem, Holding, Guarded
  <2> DEFINE label == IF content[job[h].req][item[1]][item[2]].operation = "CREATE"
                      THEN "check" ELSE "read"
  <2>3. job' = [job EXCEPT ![h].item = item, ![h].pc = label]
    BY <2>1
  <2> HIDE DEF label
  <2>4. /\ job'[h].req = job[h].req /\ job'[h].user = job[h].user
        /\ \A g \in Handler \ {h} : job'[g] = job[g]
    BY <2>3 DEF TypeOK, Job
  <2> QED
    BY <2>2, <2>4, GotoKeepsOneApplier
<1>4. CASE ReadEntry(h) \/ CheckKey(h)
  BY <1>4, StayKeepsOneApplier DEF ReadEntry, CheckKey, Holding, Guarded, PC
<1>5. CASE WriteEntry(h)
  BY <1>5, StayKeepsOneApplier DEF WriteEntry, Holding, Guarded, PC
<1>6. CASE ItemsDone(h)
  BY <1>6, StayKeepsOneApplier DEF ItemsDone, Holding, Guarded, PC
<1>7. CASE \E s \in Store : RecordPiT(h, s)
  BY <1>7, StayKeepsOneApplier DEF RecordPiT, Holding, Guarded, PC
<1>8. CASE IssueCertificate(h)
  BY <1>8, StayKeepsOneApplier DEF IssueCertificate, Holding, Guarded, PC
<1>9. CASE WriteEntryReplyLost(h) \/ Throw(h)
  BY <1>9, StayKeepsOneApplier DEF WriteEntryReplyLost, Throw, Holding, Guarded, PC
<1>10. CASE Finalize(h)
  <2>1. Holding(h)
    BY <1>10 DEF Finalize, Holding, Guarded
  <2>2. status[job[h].req] = "applying" /\ reviewer[job[h].req] = job[h].user
    BY <2>1 DEF OneApplier
  <2>3. Return(h) /\ status' = [status EXCEPT ![job[h].req] = "approved"] /\ reviewer' = reviewer
    BY <1>10, <2>2 DEF Finalize
  <2> QED
    BY <2>1, <2>3, ReturnKeepsOneApplier DEF HeldRowsKept, TypeOK
<1>11. CASE MarkFailed(h)
  <2>1. Holding(h)
    BY <1>11 DEF MarkFailed, Holding
  <2> QED
    BY <1>11, <2>1, ReturnKeepsOneApplier DEF MarkFailed, HeldRowsKept, TypeOK
<1>12. CASE Reject(h) \/ Cancel(h)
  BY <1>12, ReturnKeepsOneApplier DEF Reject, Cancel, HeldRowsKept, TypeOK
<1>13. CASE LoadItemsThrows(h) \/ Crash(h)
  BY <1>13, ReturnKeepsOneApplier DEF LoadItemsThrows, Crash, HeldRowsKept
<1> QED
  BY <1>1, <1>2, <1>3, <1>4, <1>5, <1>6, <1>7, <1>8, <1>9, <1>10, <1>11, <1>12, <1>13
     DEF Step, Fault

\* Creating a request touches no row that is held.
LEMMA CreateKeepsOneApplier ==
  ASSUME TypeOK, JobsAreSound, OneApplier, NEW r \in Request, NEW u \in User,
         NEW c \in Content, Insert(r, u, c)
  PROVE  OneApplier'
<1>1. \A h \in Handler : Holding(h) => job[h].req # r
  BY DEF OneApplier, Insert
<1>2. \A h \in Handler : Holding(h) => job[h].req \in Request
  BY DEF Holding, Guarded, JobsAreSound
<1> QED
  BY <1>1, <1>2 DEF Insert, OneApplier, Holding, TypeOK

\* Starting a call claims nothing yet.
LEMMA StartKeepsOneApplier ==
  ASSUME TypeOK, JobsAreSound, OneApplier, NEW h \in Handler, NEW r \in Request, NEW u \in User,
         StartApprove(h, r, u) \/ StartReject(h, r, u) \/ StartCancel(h, r, u)
  PROVE  OneApplier'
<1>1. PICK label \in {"claim", "reject", "cancel"} : Enter(h, label, r, u)
  BY DEF StartApprove, StartReject, StartCancel
<1>2. job'[h].pc = label /\ \A g \in Handler \ {h} : job'[g] = job[g]
  BY <1>1 DEF Enter, IdleJob, TypeOK
<1>3. HeldRowsKept(h) /\ HoldsOwnRow(h)
  BY <1>1, <1>2 DEF Enter, HeldRowsKept, HoldsOwnRow, Holding, Guarded, row
<1> QED
  BY <1>2, <1>3, MoveKeepsOneApplier

-----------------------------------------------------------------------------
(* No trace of a refused request.                                          *)

\* A request leaves a trace only in a step of a handler that holds it.
LEMMA TraceOfHolder ==
  ASSUME TypeOK, JobsAreSound, NEW h \in Handler, Step(h) \/ Fault(h)
  PROVE  /\ \/ UNCHANGED touched
            \/ Holding(h) /\ touched' = touched \cup {job[h].req}
         /\ \/ UNCHANGED history
            \/ /\ Holding(h)
               /\ \E s \in Store : \E cs \in ChangeSet :
                    history' = [history EXCEPT ![s] = Append(@, [req |-> job[h].req, changes |-> cs])]
<1> USE DEF row, data, aux
<1>1. CASE \E s \in Store : RecordPiT(h, s)
  <2>1. PICK s \in Store : RecordPiT(h, s)
    BY <1>1
  <2>2. Holding(h) /\ job[h].req \in Request
    BY <2>1 DEF RecordPiT, Holding, Guarded, JobsAreSound
  <2>3. content[job[h].req][s] \in ChangeSet
    BY <2>2, ContentMember DEF TypeOK
  <2> QED
    BY <2>1, <2>2, <2>3 DEF RecordPiT
<1>2. CASE WriteEntry(h) \/ WriteEntryReplyLost(h) \/ IssueCertificate(h)
  BY <1>2 DEF WriteEntry, WriteEntryReplyLost, IssueCertificate, ChangeVault, Holding, Guarded
<1>3. CASE ~(\E s \in Store : RecordPiT(h, s)) /\ ~WriteEntry(h) /\ ~WriteEntryReplyLost(h)
           /\ ~IssueCertificate(h)
  BY <1>3 DEF Step, Fault, Claim, LoadItems, PickItem, ReadEntry, CheckKey, ItemsDone, Finalize,
              MarkFailed, Reject, Cancel, Throw, LoadItemsThrows, Crash
<1> QED
  BY <1>1, <1>2, <1>3

\* No step takes a request back among those without a trace, except that a
\* pending one may be refused.
Traceless == {"none", "pending", "rejected", "cancelled"}

\* A request whose status allows no trace after a step allowed none before, and h did not hold it.
LEMMA TracelessBefore ==
  ASSUME TypeOK, JobsAreSound, OneApplier, NEW h \in Handler, Step(h) \/ Fault(h),
         NEW r \in Request, status'[r] \in Traceless
  PROVE  status[r] \in Traceless /\ (Holding(h) => job[h].req # r)
<1> USE DEF row, data, aux, Traceless
<1>1. status[r] \in Traceless
  BY DEF Step, Fault, Claim, LoadItems, PickItem, ReadEntry, CheckKey, WriteEntry, ItemsDone,
         RecordPiT, IssueCertificate, Finalize, MarkFailed, Reject, Cancel, WriteEntryReplyLost,
         Throw, LoadItemsThrows, Crash, TypeOK
<1>2. Holding(h) => status[job[h].req] = "applying"
  BY DEF OneApplier
<1> QED
  BY <1>1, <1>2

\* Steps and faults leave traces only of requests that are being applied.
LEMMA StepLeavesNoTrace ==
  ASSUME TypeOK, JobsAreSound, OneApplier, RefusedLeavesNoTrace, NEW h \in Handler,
         Step(h) \/ Fault(h)
  PROVE  RefusedLeavesNoTrace'
<1> SUFFICES ASSUME NEW r \in Request, status'[r] \in Traceless
             PROVE  /\ r \notin touched'
                    /\ \A s \in Store : \A i \in DOMAIN history'[s] : history'[s][i].req # r
  BY DEF RefusedLeavesNoTrace, Traceless
<1>1. status[r] \in Traceless /\ (Holding(h) => job[h].req # r)
  BY TracelessBefore
<1>2. r \notin touched /\ \A s \in Store : \A i \in DOMAIN history[s] : history[s][i].req # r
  BY <1>1 DEF RefusedLeavesNoTrace, Traceless
<1>3. r \notin touched'
  BY <1>1, <1>2, TraceOfHolder
<1>4. ASSUME NEW s \in Store, NEW i \in DOMAIN history'[s]
      PROVE  history'[s][i].req # r
  <2>1. CASE UNCHANGED history
    BY <1>2, <1>4, <2>1
  <2>2. CASE history' # history
    <3>1. PICK t \in Store, cs \in ChangeSet :
            history' = [history EXCEPT ![t] = Append(@, [req |-> job[h].req, changes |-> cs])]
      BY <2>2, TraceOfHolder
    <3>2. Holding(h)
      BY <2>2, TraceOfHolder
    <3>3. job[h].req # r
      BY <1>1, <3>2
    <3>4. CASE s = t
      <4> DEFINE pit == [req |-> job[h].req, changes |-> cs]
      <4>1. history'[s] = Append(history[s], pit) /\ history[s] \in Seq(Pit)
        BY <3>1, <3>4 DEF TypeOK
      <4>2. CASE i = Len(history[s]) + 1
        <5>1. history'[s][i] = pit
          BY <4>1, <4>2
        <5> QED
          BY <5>1, <3>3
      <4>3. CASE i \in DOMAIN history[s]
        <5>1. history'[s][i] = history[s][i]
          BY <4>1, <4>3
        <5> QED
          BY <5>1, <4>3, <1>2
      <4>4. i = Len(history[s]) + 1 \/ i \in DOMAIN history[s]
        BY <4>1, <1>4
      <4> QED
        BY <4>2, <4>3, <4>4
    <3>5. CASE s # t
      BY <1>2, <1>4, <3>1, <3>5 DEF TypeOK
    <3> QED
      BY <3>4, <3>5
  <2> QED
    BY <2>1, <2>2
<1> QED
  BY <1>3, <1>4

\* Creating a request leaves no trace.
LEMMA CreateLeavesNoTrace ==
  ASSUME TypeOK, RefusedLeavesNoTrace, NEW r \in Request, NEW u \in User,
         NEW c \in Content, Insert(r, u, c)
  PROVE  RefusedLeavesNoTrace'
  BY DEF Insert, RefusedLeavesNoTrace, TypeOK, data, aux

\* Starting a call leaves no trace.
LEMMA StartLeavesNoTrace ==
  ASSUME RefusedLeavesNoTrace, NEW h \in Handler, NEW r \in Request, NEW u \in User,
         StartApprove(h, r, u) \/ StartReject(h, r, u) \/ StartCancel(h, r, u)
  PROVE  RefusedLeavesNoTrace'
  BY DEF StartApprove, StartReject, StartCancel, Enter, RefusedLeavesNoTrace, row, data, aux

-----------------------------------------------------------------------------
(* Who signs off.                                                          *)

\* A handler on its way to a claim or a rejection passed assertReviewer, and
\* the requester it compared with cannot have changed since.
ClaimantsMayReview ==
  \A h \in Handler :
    job[h].pc \in {"claim", "reject"} => MayReview(job[h].req, job[h].user)

\* Steps and faults change neither requesters nor who is about to claim or reject.
LEMMA StepKeepsClaimants ==
  ASSUME TypeOK, JobsAreSound, ClaimantsMayReview, NEW h \in Handler, Step(h) \/ Fault(h)
  PROVE  ClaimantsMayReview'
<1> USE DEF row, data, aux
<1>1. requester' = requester
  BY DEF Step, Fault, Claim, LoadItems, PickItem, ReadEntry, CheckKey, WriteEntry, ItemsDone,
         RecordPiT, IssueCertificate, Finalize, MarkFailed, Reject, Cancel, WriteEntryReplyLost,
         Throw, LoadItemsThrows, Crash
<1>2. \A g \in Handler \ {h} : job'[g] = job[g]
  BY DEF Step, Fault, Claim, LoadItems, PickItem, ReadEntry, CheckKey, WriteEntry, ItemsDone,
         RecordPiT, IssueCertificate, Finalize, MarkFailed, Reject, Cancel, WriteEntryReplyLost,
         Throw, LoadItemsThrows, Crash, Goto, Return, ItemDone, TypeOK
<1>3. job'[h].pc \notin {"claim", "reject"}
  <2>1. CASE Return(h) \/ ItemDone(h)
    BY <2>1 DEF Return, ItemDone, IdleJob, TypeOK, Job
  <2>2. CASE \E label \in PC \ {"claim", "reject"} : Goto(h, label)
    BY <2>2 DEF Goto, TypeOK, Job
  <2>3. CASE LoadItems(h) \/ PickItem(h)
    <3>1. CASE LoadItems(h)
      BY <3>1 DEF LoadItems, TypeOK, Job
    <3>2. CASE PickItem(h)
      <4>1. PICK item \in job[h].todo :
              job' = [job EXCEPT
                ![h].item = item,
                ![h].pc = IF content[job[h].req][item[1]][item[2]].operation = "CREATE"
                          THEN "check" ELSE "read"]
        BY <3>2 DEF PickItem
      <4> QED
        BY <4>1 DEF TypeOK, Job
    <3> QED
      BY <2>3, <3>1, <3>2
  <2>4. CASE \E s \in Store : RecordPiT(h, s)
    BY <2>2, <2>4 DEF RecordPiT, PC
  <2> QED
    BY <2>1, <2>2, <2>3, <2>4
       DEF Step, Fault, Claim, ReadEntry, CheckKey, WriteEntry, ItemsDone, IssueCertificate,
           Finalize, MarkFailed, Reject, Cancel, WriteEntryReplyLost, Throw, LoadItemsThrows,
           Crash, PC
<1> QED
  BY <1>1, <1>2, <1>3 DEF ClaimantsMayReview, MayReview

\* A step or fault that writes the reviewer writes one who may review.
LEMMA StepKeepsSignOff ==
  ASSUME TypeOK, JobsAreSound, ClaimantsMayReview, SignedOffByReviewer,
         NEW h \in Handler, Step(h) \/ Fault(h)
  PROVE  SignedOffByReviewer'
<1> USE DEF row, data, aux
<1>1. CASE Claim(h) \/ Reject(h)
  <2>1. job[h].req \in Request /\ MayReview(job[h].req, job[h].user)
    BY <1>1 DEF Claim, Reject, JobsAreSound, ClaimantsMayReview
  <2> QED
    BY <1>1, <2>1 DEF Claim, Reject, SignedOffByReviewer, MayReview, TypeOK
<1>2. CASE Finalize(h) \/ MarkFailed(h) \/ Cancel(h)
  BY <1>2 DEF Finalize, MarkFailed, Cancel, SignedOffByReviewer, TypeOK
<1>3. CASE UNCHANGED <<status, requester, reviewer>>
  BY <1>3 DEF SignedOffByReviewer
<1> QED
  BY <1>1, <1>2, <1>3
     DEF Step, Fault, LoadItems, PickItem, ReadEntry, CheckKey, WriteEntry, ItemsDone,
         RecordPiT, IssueCertificate, WriteEntryReplyLost, Throw, LoadItemsThrows, Crash

\* Creating a request signs nothing off.
LEMMA CreateKeepsSignOff ==
  ASSUME TypeOK, JobsAreSound, ClaimantsMayReview, SignedOffByReviewer,
         NEW r \in Request, NEW u \in User, NEW c \in Content, Insert(r, u, c)
  PROVE  ClaimantsMayReview' /\ SignedOffByReviewer'
<1>1. \A h \in Handler : job[h].pc # "idle" => job[h].req # r /\ job[h].req \in Request
  BY DEF JobsAreSound, Insert
<1>2. ClaimantsMayReview'
  BY <1>1 DEF ClaimantsMayReview, MayReview, Insert, TypeOK
<1>3. SignedOffByReviewer'
  BY DEF SignedOffByReviewer, Insert, TypeOK
<1> QED
  BY <1>2, <1>3

\* Starting a call signs nothing off, and asks for the permission.
LEMMA StartKeepsSignOff ==
  ASSUME TypeOK, ClaimantsMayReview, SignedOffByReviewer,
         NEW h \in Handler, NEW r \in Request, NEW u \in User,
         StartApprove(h, r, u) \/ StartReject(h, r, u) \/ StartCancel(h, r, u)
  PROVE  ClaimantsMayReview' /\ SignedOffByReviewer'
<1> USE DEF row
<1>1. PICK label \in {"claim", "reject", "cancel"} :
        Enter(h, label, r, u) /\ (label # "cancel" => MayReview(r, u))
  BY DEF StartApprove, StartReject, StartCancel
<1>2. /\ job'[h].pc = label /\ job'[h].req = r /\ job'[h].user = u
      /\ \A g \in Handler \ {h} : job'[g] = job[g]
  BY <1>1 DEF Enter, IdleJob, TypeOK
<1>3. UNCHANGED <<status, requester, reviewer>>
  BY <1>1 DEF Enter
<1>4. ClaimantsMayReview'
  BY <1>1, <1>2, <1>3 DEF ClaimantsMayReview, MayReview
<1> QED
  BY <1>3, <1>4 DEF SignedOffByReviewer

-----------------------------------------------------------------------------
(* The inductive invariant and the theorems.                               *)

\* OneApplier needs JobsAreSound, or the row a handler is about to update
\* could be anyone's; RefusedLeavesNoTrace needs OneApplier, or a handler
\* could write for a request that is no longer "applying".
IInv ==
  /\ TypeOK
  /\ JobsAreSound
  /\ OneApplier
  /\ RefusedLeavesNoTrace
  /\ ClaimantsMayReview
  /\ SignedOffByReviewer

\* The inductive invariant holds initially.
LEMMA InitIInv == Init => IInv
<1> SUFFICES ASSUME Init PROVE IInv
  OBVIOUS
<1>1. \A h \in Handler : job[h].pc = "idle" /\ ~Holding(h)
  BY DEF Init, IdleJob, Holding, Guarded
<1>2. OneApplier /\ ClaimantsMayReview
  BY <1>1 DEF OneApplier, ClaimantsMayReview
<1>3. RefusedLeavesNoTrace /\ SignedOffByReviewer
  BY DEF Init, RefusedLeavesNoTrace, SignedOffByReviewer
<1> QED
  BY <1>2, <1>3, InitInv DEF IInv

\* Every step keeps the inductive invariant.
LEMMA NextIInv ==
  ASSUME IInv, [Next]_vars
  PROVE  IInv'
<1> USE DEF IInv
<1>1. TypeOK' /\ JobsAreSound'
  BY NextInv
<1>2. ASSUME NEW r \in Request, NEW u \in User,
             CreateDirect(r, u) \/ CreatePromotion(r, u) \/ CreateCertificateOp(r, u)
      PROVE  IInv'
  <2>1. PICK c \in Content : Insert(r, u, c)
    BY <1>2, CreateType
  <2> QED
    BY <1>1, <2>1, CreateKeepsOneApplier, CreateLeavesNoTrace, CreateKeepsSignOff
<1>3. ASSUME NEW r \in Request, NEW u \in User, NEW h \in Handler,
             StartApprove(h, r, u) \/ StartReject(h, r, u) \/ StartCancel(h, r, u)
      PROVE  IInv'
  BY <1>1, <1>3, StartKeepsOneApplier, StartLeavesNoTrace, StartKeepsSignOff
<1>4. ASSUME NEW h \in Handler, Step(h) \/ Fault(h)
      PROVE  IInv'
  BY <1>1, <1>4, StepKeepsOneApplier, StepLeavesNoTrace, StepKeepsClaimants, StepKeepsSignOff
<1>5. CASE UNCHANGED vars
  <2>1. OneApplier' /\ RefusedLeavesNoTrace'
    BY <1>5 DEF vars, OneApplier, Holding, RefusedLeavesNoTrace
  <2>2. ClaimantsMayReview' /\ SignedOffByReviewer'
    BY <1>5 DEF vars, ClaimantsMayReview, MayReview, SignedOffByReviewer
  <2> QED
    BY <1>1, <2>1, <2>2
<1> QED
  BY <1>2, <1>3, <1>4, <1>5 DEF Next

\* The inductive invariant holds in every reachable state.
LEMMA AlwaysIInv == Spec => []IInv
<1>1. IInv /\ [Next]_vars => IInv'
  BY NextIInv
<1> QED
  BY <1>1, InitIInv, PTL DEF Spec

\* No two handlers ever apply the same request at once, and the one that does
\* owns the row, whatever reviewers, retries, crashes and races there are.
THEOREM OneApplierAlways == Spec => []OneApplier
<1>1. IInv => OneApplier
  BY DEF IInv
<1> QED
  BY <1>1, AlwaysIInv, PTL

\* A rejected, cancelled or undecided request never has had an effect on the
\* vault, the history or the certificates.
THEOREM RefusedLeavesNoTraceAlways == Spec => []RefusedLeavesNoTrace
<1>1. IInv => RefusedLeavesNoTrace
  BY DEF IInv
<1> QED
  BY <1>1, AlwaysIInv, PTL

\* The reviewer recorded for a decided request was entitled to decide it.
THEOREM SignedOffAlways == Spec => []SignedOffByReviewer
<1>1. IInv => SignedOffByReviewer
  BY DEF IInv
<1> QED
  BY <1>1, AlwaysIInv, PTL

\* A vault write changes an entry its request lists, while the row says "applying".
LEMMA VaultOfApplier ==
  ASSUME IInv, NEW h \in Handler, WriteEntry(h) \/ WriteEntryReplyLost(h),
         NEW s \in Store, NEW k \in Key, vault'[s][k] # vault[s][k]
  PROVE  \E r \in Request : /\ status[r] = "applying" /\ status'[r] = "applying"
                            /\ k \in DOMAIN content[r][s]
<1> DEFINE i == job[h].item
           r == job[h].req
<1>1. job[h].pc = "write" /\ ChangeVault(h) /\ status' = status
  BY DEF WriteEntry, WriteEntryReplyLost, row
<1>2. i \in job[h].todo /\ r \in Request /\ i[2] \in DOMAIN content[r][i[1]]
  BY <1>1 DEF IInv, JobsAreSound
<1>3. i[1] = s /\ i[2] = k
  <2>1. i[1] \in Store /\ i[2] \in Key
    BY <1>2, ItemInHand DEF IInv
  <2>2. PICK v : vault' = [vault EXCEPT ![i[1]][i[2]] = v]
    BY <1>1 DEF ChangeVault
  <2>3. vault \in [Store -> Snapshot]
    BY DEF IInv, TypeOK
  <2> HIDE DEF i
  <2> QED
    BY <2>1, <2>2, <2>3 DEF Snapshot
<1>4. status[r] = "applying"
  BY <1>1 DEF IInv, OneApplier, Holding, Guarded
<1> QED
  BY <1>1, <1>2, <1>3, <1>4

\* Every change of a vault entry is made for a request that is being applied
\* and lists the entry; no write comes after its request was closed.
THEOREM WritesOnlyWhileApplyingAlways == Spec => WritesOnlyWhileApplying
<1> DEFINE Ok == \A s \in Store, k \in Key : vault'[s][k] # vault[s][k] =>
                   \E r \in Request : /\ status[r] = "applying" /\ status'[r] = "applying"
                                      /\ k \in DOMAIN content[r][s]
<1>1. IInv /\ [Next]_vars => [Ok]_vars
  <2> SUFFICES ASSUME IInv, Next PROVE Ok
    OBVIOUS
  <2>1. ASSUME NEW h \in Handler, WriteEntry(h) \/ WriteEntryReplyLost(h) PROVE Ok
    BY <2>1, VaultOfApplier
  <2>2. ASSUME NEW h \in Handler, Step(h) \/ Fault(h),
               ~WriteEntry(h), ~WriteEntryReplyLost(h)
        PROVE  vault' = vault
    BY <2>2 DEF Step, Fault, Claim, LoadItems, PickItem, ReadEntry, CheckKey, ItemsDone,
           RecordPiT, IssueCertificate, Finalize, MarkFailed, Reject, Cancel, Throw,
           LoadItemsThrows, Crash, row, data, aux
  <2>3. ASSUME NEW r \in Request, NEW u \in User,
               \/ CreateDirect(r, u) \/ CreatePromotion(r, u) \/ CreateCertificateOp(r, u)
               \/ \E h \in Handler : StartApprove(h, r, u) \/ StartReject(h, r, u) \/ StartCancel(h, r, u)
        PROVE  vault' = vault
    BY <2>3 DEF CreateDirect, CreatePromotion, CreateCertificateOp, Insert, StartApprove,
           StartReject, StartCancel, Enter, data
  <2> QED
    BY <2>1, <2>2, <2>3 DEF Next
<1> QED
  BY <1>1, AlwaysIInv, PTL DEF Spec, WritesOnlyWhileApplying
-----------------------------------------------------------------------------
(* What was approved is in force.                                          *)

\* One handler only: approvals do not overlap.
Solo == \A g, h \in Handler : g = h

\* Nobody but r has had a hand in the key, or nobody else is at work.
Undisturbed(r, s, k) == Writers(s, k) \subseteq {r} \/ Solo

\* The handler is past the PiT of the store.
Recorded(h, s) == job[h].pc = "final" \/ (s = "env" /\ job[h].pc = "recordSecret")

\* What handler h has ticked off is in the vault, and what it has recorded is
\* what the history replays to. A certificate comes without items.
WorkOf(h) ==
  LET r == job[h].req IN
  /\ job[h].pc = "issue" => content[r].kind = "certificate"
  /\ job[h].pc \in {"recordEnv", "recordSecret", "final"} => job[h].todo = {}
  /\ \A s \in Store : \A k \in DOMAIN content[r][s] : Undisturbed(r, s, k) =>
       /\ <<s, k>> \notin job[h].todo => vault[s][k] = Proposed(r, s, k)
       /\ Recorded(h, s) => Replay(history[s])[k] = Proposed(r, s, k)

WorkIsInForce == \A h \in Handler : job[h].pc \in Guarded => WorkOf(h)

CertificatesCarryNothing ==
  \A r \in Request : content[r].kind = "certificate" => \A s \in Store : DOMAIN content[r][s] = {}

\* A write that is about to store a value finds the other store without the key.
ChecksStand ==
  \A h \in Handler : job[h].pc = "write" /\ ChangeOf(h).operation # "DELETE" =>
    vault[Other(job[h].item[1])][job[h].item[2]] = Absent

\* ApprovedIsInForce needs to know what the work in progress has achieved, and
\* that nothing is left to do when it is closed.
AInv ==
  /\ CertificatesCarryNothing
  /\ WorkIsInForce
  /\ ApprovedIsInForce
  /\ Solo => HistoryTellsVault /\ ChecksStand /\ OneStorePerKey

\* What a request proposes for a key is what the change of that key leaves.
LEMMA ProposedValue ==
  ASSUME TypeOK, NEW r \in Request, NEW s \in Store, NEW k \in DOMAIN content[r][s]
  PROVE  /\ k \in Key
         /\ content[r][s] \in ChangeSet
         /\ Proposed(r, s, k) = Outcome(content[r][s][k])
         /\ \A snap : ApplyChanges(snap, content[r][s])[k] = Proposed(r, s, k)
<1>1. content[r][s] \in ChangeSet
  BY ContentMember DEF TypeOK
<1>2. k \in Key
  BY <1>1, ChangeSetMember
<1> QED
  BY <1>1, <1>2 DEF Proposed, ApplyChanges, Outcome

\* A key that a request does not list keeps its value.
LEMMA ApplyKeepsOthers ==
  ASSUME NEW snap, NEW changes, NEW k \in Key, k \notin DOMAIN changes
  PROVE  ApplyChanges(snap, changes)[k] = snap[k]
  BY DEF ApplyChanges

\* Handler h gives key k of store s the value its request proposes, and is
\* seen to have done so while the request is being applied.
Puts(h, s, k, v) ==
  /\ job[h].pc \in Guarded
  /\ job[h].req \in touched'
  /\ status'[job[h].req] = "applying"
  /\ k \in DOMAIN content[job[h].req][s]
  /\ v = Proposed(job[h].req, s, k)

\* A write puts what is proposed into one key of the vault.
LEMMA WritePuts ==
  ASSUME IInv, NEW h \in Handler, job[h].pc = "write", ChangeVault(h), status' = status
  PROVE  /\ touched \subseteq touched'
         /\ job[h].item \in job[h].todo
         /\ \A s \in Store, k \in Key :
              IF <<s, k>> = job[h].item
                THEN Puts(h, s, k, vault'[s][k])
                ELSE vault'[s][k] = vault[s][k]
<1> DEFINE i == job[h].item
           r == job[h].req
           c == content[r][i[1]][i[2]]
           v == IF c.operation = "DELETE" THEN Absent ELSE c.value
<1>1. i \in job[h].todo /\ r \in Request /\ i[2] \in DOMAIN content[r][i[1]]
  BY DEF IInv, JobsAreSound
<1>2. i \in Item /\ i[1] \in Store /\ i[2] \in Key /\ i = <<i[1], i[2]>>
  BY <1>1, ItemInHand, ItemPair DEF IInv
<1>3. v = Proposed(r, i[1], i[2])
  BY <1>1, <1>2, ProposedValue DEF IInv, Outcome
<1>4. status[r] = "applying"
  BY DEF IInv, OneApplier, Holding, Guarded
<1>5. vault' = [vault EXCEPT ![i[1]][i[2]] = v] /\ touched' = touched \cup {r}
  BY DEF ChangeVault, ChangeOf
<1>6. vault \in [Store -> Snapshot]
  BY DEF IInv, TypeOK
<1> HIDE DEF v
<1>7. ASSUME NEW s \in Store, NEW k \in Key
      PROVE  IF <<s, k>> = i THEN Puts(h, s, k, vault'[s][k])
                             ELSE vault'[s][k] = vault[s][k]
  <2>1. CASE <<s, k>> = i
    <3>1. s = i[1] /\ k = i[2]
      BY <2>1
    <3>2. vault'[s][k] = v
      <4> HIDE DEF i
      <4> QED BY <3>1, <1>2, <1>5, <1>6 DEF Snapshot
    <3> QED BY <2>1, <3>1, <3>2, <1>1, <1>3, <1>4, <1>5 DEF Puts, Guarded
  <2>2. CASE <<s, k>> # i
    <3>1. s # i[1] \/ k # i[2]
      BY <2>2, <1>2
    <3> HIDE DEF i
    <3> QED BY <2>2, <3>1, <1>2, <1>5, <1>6 DEF Snapshot
  <2> QED BY <2>1, <2>2
<1> QED
  BY <1>1, <1>5, <1>7

\* A PiT puts what is proposed into the keys of one store it lists.
LEMMA RecordPuts ==
  ASSUME IInv, NEW h \in Handler, NEW s \in Store, RecordPiT(h, s)
  PROVE  /\ touched \subseteq touched'
         /\ \A t \in Store, k \in Key :
              IF t = s /\ k \in DOMAIN content[job[h].req][s]
                THEN Puts(h, t, k, Replay(history'[t])[k])
                ELSE Replay(history'[t])[k] = Replay(history[t])[k]
<1> DEFINE r == job[h].req
           pit == [req |-> r, changes |-> content[r][s]]
<1>1. job[h].pc \in {"recordEnv", "recordSecret"} /\ status' = status
  BY DEF RecordPiT, row
<1>2. r \in Request
  BY <1>1 DEF IInv, JobsAreSound
<1>3. status[r] = "applying"
  BY <1>1 DEF IInv, OneApplier, Holding, Guarded
<1>4. CASE DOMAIN content[r][s] = {}
  BY <1>4 DEF RecordPiT
<1>5. CASE DOMAIN content[r][s] # {}
  <2>1. history' = [history EXCEPT ![s] = Append(@, pit)] /\ touched' = touched \cup {r}
    BY <1>5 DEF RecordPiT
  <2>2. content[r][s] \in ChangeSet
    BY <1>2, ContentMember DEF IInv, TypeOK
  <2>3. pit \in Pit /\ pit.changes = content[r][s]
    BY <1>2, <2>2 DEF Pit
  <2>4. history \in [Store -> Seq(Pit)]
    BY DEF IInv, TypeOK
  <2>5. \A q \in Pit : q.changes \in ChangeSet
    BY DEF Pit
  <2> HIDE DEF pit
  <2>6. Replay(Append(history[s], pit)) = ApplyChanges(Replay(history[s]), content[r][s])
    BY <2>3, <2>4, <2>5, ReplayAppend
  <2>7. history'[s] = Append(history[s], pit) /\ \A t \in Store \ {s} : history'[t] = history[t]
    BY <2>1, <2>4
  <2>8. ASSUME NEW t \in Store, NEW k \in Key
        PROVE  IF t = s /\ k \in DOMAIN content[r][s]
                 THEN Puts(h, t, k, Replay(history'[t])[k])
                 ELSE Replay(history'[t])[k] = Replay(history[t])[k]
    <3>1. CASE t = s /\ k \in DOMAIN content[r][s]
      <4>0. ApplyChanges(Replay(history[s]), content[r][s])[k] = Proposed(r, s, k)
        <5> HIDE DEF r
        <5> QED BY <3>1, <1>2, ProposedValue DEF IInv
      <4>1. Replay(history'[s])[k] = Proposed(r, s, k)
        <5> HIDE DEF r
        <5> QED BY <4>0, <2>6, <2>7
      <4> QED BY <3>1, <4>1, <1>1, <1>3, <2>1 DEF Puts, Guarded
    <3>2. CASE t = s /\ k \notin DOMAIN content[r][s]
      BY <3>2, <2>6, <2>7, ApplyKeepsOthers
    <3>3. CASE t # s
      BY <3>3, <2>7
    <3> QED BY <3>1, <3>2, <3>3
  <2> QED BY <2>1, <2>8
<1> QED
  BY <1>4, <1>5

\* Whatever a step changes in the vault or in what the history replays to is
\* what the request of the handler proposes.
LEMMA StepPuts ==
  ASSUME IInv, NEW h \in Handler, Step(h) \/ Fault(h)
  PROVE  /\ content' = content
         /\ touched \subseteq touched'
         /\ \A s \in Store, k \in Key :
              /\ vault'[s][k] = vault[s][k] \/ Puts(h, s, k, vault'[s][k])
              /\ \/ Replay(history'[s])[k] = Replay(history[s])[k]
                 \/ Puts(h, s, k, Replay(history'[s])[k])
<1> USE DEF row, data, aux
<1>1. CASE WriteEntry(h) \/ WriteEntryReplyLost(h)
  <2>1. /\ job[h].pc = "write" /\ ChangeVault(h)
        /\ UNCHANGED <<status, content, history>>
    BY <1>1 DEF WriteEntry, WriteEntryReplyLost
  <2> QED BY <2>1, WritePuts
<1>2. CASE \E s \in Store : RecordPiT(h, s)
  <2>1. PICK s \in Store : RecordPiT(h, s)
    BY <1>2
  <2>2. UNCHANGED <<content, vault>>
    BY <2>1 DEF RecordPiT
  <2> QED BY <2>1, <2>2, RecordPuts
<1>3. CASE UNCHANGED <<content, vault, history>> /\ touched \subseteq touched'
  BY <1>3
<1> QED
  BY <1>1, <1>2, <1>3
     DEF Step, Fault, Claim, LoadItems, PickItem, ReadEntry, CheckKey, ItemsDone,
         IssueCertificate, Finalize, MarkFailed, Reject, Cancel, Throw, LoadItemsThrows, Crash

\* What is in force for a request stays in force over a step, as long as the
\* step is its own or nobody else has had a hand in the key.
LEMMA StepKeepsInForce ==
  ASSUME IInv, NEW h \in Handler, Step(h) \/ Fault(h),
         NEW r \in Request, NEW s \in Store, NEW k \in DOMAIN content[r][s],
         Writers(s, k)' \subseteq {r} \/ job[h].req = r
  PROVE  /\ content' = content
         /\ Writers(s, k) \subseteq Writers(s, k)'
         /\ Proposed(r, s, k)' = Proposed(r, s, k)
         /\ vault[s][k] = Proposed(r, s, k) => vault'[s][k] = Proposed(r, s, k)
         /\ Replay(history[s])[k] = Proposed(r, s, k)
              => Replay(history'[s])[k] = Proposed(r, s, k)
<1>1. k \in Key
  BY ProposedValue DEF IInv
<1>2. /\ content' = content
      /\ touched \subseteq touched'
      /\ vault'[s][k] = vault[s][k] \/ Puts(h, s, k, vault'[s][k])
      /\ \/ Replay(history'[s])[k] = Replay(history[s])[k]
         \/ Puts(h, s, k, Replay(history'[s])[k])
  BY <1>1, StepPuts
<1>3. Writers(s, k) \subseteq Writers(s, k)' /\ Proposed(r, s, k)' = Proposed(r, s, k)
  BY <1>2 DEF Writers, Proposed
<1>4. ASSUME NEW v, Puts(h, s, k, v) PROVE v = Proposed(r, s, k)
  <2>1. job[h].req \in Writers(s, k)'
    BY <1>2, <1>4 DEF Puts, Writers
  <2>2. job[h].req = r
    BY <2>1
  <2> QED BY <1>4, <2>2 DEF Puts
<1> QED
  BY <1>2, <1>3, <1>4

\* How far a handler that goes on inside the try block has come, and what the
\* step has achieved, if its list of work and its marks are the same.
LEMMA GoesOn ==
  ASSUME IInv, NEW h \in Handler, Step(h) \/ Fault(h), job[h].pc \in Guarded, WorkOf(h),
         job'[h].req = job[h].req,
         job'[h].pc = "issue" => job[h].pc = "issue",
         job'[h].pc \in {"recordEnv", "recordSecret", "final"} => job'[h].todo = {},
         \A s \in Store : \A k \in DOMAIN content[job[h].req][s] :
           <<s, k>> \notin job'[h].todo =>
             <<s, k>> \notin job[h].todo \/ vault'[s][k] = Proposed(job[h].req, s, k),
         \A s \in Store : \A k \in DOMAIN content[job[h].req][s] :
           Recorded(h, s)' =>
             Recorded(h, s) \/ Replay(history'[s])[k] = Proposed(job[h].req, s, k)
  PROVE  WorkOf(h)'
<1> DEFINE r == job[h].req
<1>1. r \in Request
  BY DEF IInv, JobsAreSound, Guarded
<1>2. content' = content
  BY StepPuts
<1>3. ASSUME NEW s \in Store, NEW k \in DOMAIN content[r][s], Undisturbed(r, s, k)'
      PROVE  /\ <<s, k>> \notin job'[h].todo => vault'[s][k] = Proposed(r, s, k)'
             /\ Recorded(h, s)' => Replay(history'[s])[k] = Proposed(r, s, k)'
  <2>1. /\ Writers(s, k) \subseteq Writers(s, k)'
        /\ Proposed(r, s, k)' = Proposed(r, s, k)
        /\ vault[s][k] = Proposed(r, s, k) => vault'[s][k] = Proposed(r, s, k)
        /\ Replay(history[s])[k] = Proposed(r, s, k)
              => Replay(history'[s])[k] = Proposed(r, s, k)
    BY <1>1, StepKeepsInForce
  <2>2. Undisturbed(r, s, k)
    BY <1>3, <2>1 DEF Undisturbed
  <2>3. /\ <<s, k>> \notin job[h].todo => vault[s][k] = Proposed(r, s, k)
        /\ Recorded(h, s) => Replay(history[s])[k] = Proposed(r, s, k)
    BY <2>2 DEF WorkOf
  <2> QED BY <2>1, <2>3
<1>4. job'[h].pc = "issue" => content'[job'[h].req].kind = "certificate"
  BY <1>2 DEF WorkOf
<1> QED
  BY <1>2, <1>3, <1>4 DEF WorkOf

\* The work of another handler is kept.
LEMMA OthersWorkStays ==
  ASSUME IInv, WorkIsInForce, NEW h \in Handler, Step(h) \/ Fault(h),
         NEW g \in Handler \ {h}, job'[g] = job[g], job[g].pc \in Guarded
  PROVE  WorkOf(g)'
<1> DEFINE r == job[g].req
<1>1. r \in Request /\ WorkOf(g)
  BY DEF IInv, JobsAreSound, Guarded, WorkIsInForce
<1>2. content' = content
  BY StepPuts
<1>3. ~Solo
  BY DEF Solo
<1>4. \A s \in Store : Recorded(g, s)' = Recorded(g, s)
  BY DEF Recorded
<1>5. ASSUME NEW s \in Store, NEW k \in DOMAIN content[r][s], Undisturbed(r, s, k)'
      PROVE  /\ <<s, k>> \notin job[g].todo => vault'[s][k] = Proposed(r, s, k)'
             /\ Recorded(g, s) => Replay(history'[s])[k] = Proposed(r, s, k)'
  <2>1. Writers(s, k)' \subseteq {r}
    BY <1>3, <1>5 DEF Undisturbed, Solo
  <2>2. /\ Writers(s, k) \subseteq Writers(s, k)'
        /\ Proposed(r, s, k)' = Proposed(r, s, k)
        /\ vault[s][k] = Proposed(r, s, k) => vault'[s][k] = Proposed(r, s, k)
        /\ Replay(history[s])[k] = Proposed(r, s, k)
              => Replay(history'[s])[k] = Proposed(r, s, k)
    BY <1>1, <2>1, StepKeepsInForce
  <2>3. Undisturbed(r, s, k)
    BY <2>1, <2>2 DEF Undisturbed
  <2> QED BY <1>1, <2>2, <2>3 DEF WorkOf
<1> QED
  BY <1>1, <1>2, <1>4, <1>5 DEF WorkOf

\* A step of h leaves the jobs of the others alone.
LEMMA OneMoves ==
  ASSUME TypeOK, NEW h \in Handler, Step(h) \/ Fault(h), NEW g \in Handler \ {h}
  PROVE  job'[g] = job[g]
<1> USE DEF TypeOK, Goto, Return, ItemDone
<1>1. CASE Claim(h) \/ LoadItems(h) \/ PickItem(h) \/ ReadEntry(h) \/ CheckKey(h)
  BY <1>1 DEF Claim, LoadItems, PickItem, ReadEntry, CheckKey
<1>2. CASE WriteEntry(h) \/ ItemsDone(h) \/ (\E s \in Store : RecordPiT(h, s))
  BY <1>2 DEF WriteEntry, ItemsDone, RecordPiT
<1>3. CASE IssueCertificate(h) \/ Finalize(h) \/ MarkFailed(h) \/ Reject(h) \/ Cancel(h)
  BY <1>3 DEF IssueCertificate, Finalize, MarkFailed, Reject, Cancel
<1>4. CASE Fault(h)
  BY <1>4 DEF Fault, WriteEntryReplyLost, Throw, LoadItemsThrows, Crash
<1> QED
  BY <1>1, <1>2, <1>3, <1>4 DEF Step

\* Fetching the items starts the work: nothing is ticked off or recorded yet.
LEMMA LoadStartsWork ==
  ASSUME IInv, NEW h \in Handler, LoadItems(h)
  PROVE  WorkOf(h)'
<1> DEFINE r == job[h].req
           c == content[r]
<1>1. job[h].pc = "load" /\ content' = content /\ job[h] \in Job /\ DOMAIN job = Handler
  BY DEF LoadItems, IInv, TypeOK, row
<1>2. /\ job'[h].req = r
      /\ job'[h].pc = IF c.kind = "certificate" THEN "issue" ELSE "apply"
      /\ job'[h].todo = {<<"env", k>> : k \in DOMAIN c.env} \cup
                        {<<"secret", k>> : k \in DOMAIN c.secret}
  BY <1>1 DEF LoadItems, Job
<1>3. \A s \in Store : \A k \in DOMAIN c[s] : <<s, k>> \in job'[h].todo
  BY <1>2 DEF Store
<1>4. job'[h].pc \in {"issue", "apply"} /\ (job'[h].pc = "issue" => c.kind = "certificate")
  BY <1>2
<1> HIDE DEF c
<1>5. \A s \in Store : ~Recorded(h, s)'
  BY <1>4 DEF Recorded
<1> QED
  BY <1>1, <1>2, <1>3, <1>4, <1>5 DEF WorkOf, c

\* Moving on to a call with the same work to do.
LEMMA GotoGoesOn ==
  ASSUME IInv, NEW h \in Handler, Step(h) \/ Fault(h), job[h].pc \in Guarded, WorkOf(h),
         NEW label \in {"read", "check", "write"}, Goto(h, label)
  PROVE  WorkOf(h)'
<1>1. /\ job'[h].pc = label /\ job'[h].req = job[h].req /\ job'[h].todo = job[h].todo
  BY DEF Goto, IInv, TypeOK, Job
<1>2. \A s \in Store : ~Recorded(h, s)'
  BY <1>1 DEF Recorded
<1> QED
  BY <1>1, <1>2, GoesOn

\* Picking an item changes no work.
LEMMA PickGoesOn ==
  ASSUME IInv, NEW h \in Handler, PickItem(h), WorkOf(h)
  PROVE  WorkOf(h)'
<1>1. PICK item \in job[h].todo :
        job' = [job EXCEPT
          ![h].item = item,
          ![h].pc = IF content[job[h].req][item[1]][item[2]].operation = "CREATE"
                    THEN "check" ELSE "read"]
  BY DEF PickItem
<1> DEFINE label == IF content[job[h].req][item[1]][item[2]].operation = "CREATE"
                    THEN "check" ELSE "read"
<1>2. label \in {"read", "check"} /\ job' = [job EXCEPT ![h].item = item, ![h].pc = label]
  BY <1>1
<1> HIDE DEF label
<1>3. job'[h].pc \in {"read", "check"} /\ job'[h].req = job[h].req /\ job'[h].todo = job[h].todo
  BY <1>2 DEF IInv, TypeOK, Job
<1>4. \A s \in Store : ~Recorded(h, s)'
  BY <1>3 DEF Recorded
<1>5. job[h].pc \in Guarded /\ Step(h)
  BY DEF PickItem, Guarded, Step
<1> QED
  BY <1>3, <1>4, <1>5, GoesOn

\* An item is ticked off when its key has what is proposed.
LEMMA TickedOff ==
  ASSUME IInv, NEW h \in Handler, Step(h), job[h].pc \in Guarded, WorkOf(h), ItemDone(h),
         \A s \in Store : \A k \in DOMAIN content[job[h].req][s] :
           <<s, k>> = job[h].item => vault'[s][k] = Proposed(job[h].req, s, k)
  PROVE  WorkOf(h)'
<1>1. /\ job'[h].pc = "apply" /\ job'[h].req = job[h].req
      /\ job'[h].todo = job[h].todo \ {job[h].item}
  BY DEF ItemDone, IInv, TypeOK, Job
<1>2. \A s \in Store : ~Recorded(h, s)'
  BY <1>1 DEF Recorded
<1> QED
  BY <1>1, <1>2, GoesOn

\* Reading an entry either goes on with it or finds that a DELETE is done.
LEMMA ReadGoesOn ==
  ASSUME IInv, NEW h \in Handler, ReadEntry(h), WorkOf(h)
  PROVE  WorkOf(h)'
<1> DEFINE i == job[h].item
           r == job[h].req
<1>1. job[h].pc = "read" /\ job[h].pc \in Guarded /\ Step(h) /\ vault' = vault
  BY DEF ReadEntry, Guarded, Step, data
<1>2. CASE Goto(h, "write") \/ Goto(h, "check")
  BY <1>1, <1>2, GotoGoesOn
<1>3. CASE vault[i[1]][i[2]] = Absent /\ ChangeOf(h).operation = "DELETE" /\ ItemDone(h)
  <2>1. r \in Request
    BY <1>1 DEF IInv, JobsAreSound
  <2>2. ASSUME NEW s \in Store, NEW k \in DOMAIN content[r][s], <<s, k>> = i
        PROVE  vault'[s][k] = Proposed(r, s, k)
    <3>1. i[1] = s /\ i[2] = k
      BY <2>2
    <3>2. Proposed(r, s, k) = Outcome(content[r][s][k])
      BY <2>1, ProposedValue DEF IInv
    <3>3. content[r][s][k].operation = "DELETE" /\ vault[s][k] = Absent
      BY <1>3, <3>1 DEF ChangeOf
    <3> QED BY <1>1, <3>2, <3>3 DEF Outcome
  <2> QED BY <1>1, <1>3, <2>2, TickedOff
<1> QED
  BY <1>2, <1>3 DEF ReadEntry

\* A write ticks off what it has put into the vault.
LEMMA WriteGoesOn ==
  ASSUME IInv, NEW h \in Handler, WriteEntry(h), WorkOf(h)
  PROVE  WorkOf(h)'
<1>1. /\ job[h].pc = "write" /\ job[h].pc \in Guarded /\ Step(h)
      /\ ChangeVault(h) /\ ItemDone(h) /\ status' = status
  BY DEF WriteEntry, Guarded, Step, row
<1>2. job[h].req \in Request
  BY <1>1 DEF IInv, JobsAreSound
<1>3. ASSUME NEW s \in Store, NEW k \in DOMAIN content[job[h].req][s], <<s, k>> = job[h].item
      PROVE  vault'[s][k] = Proposed(job[h].req, s, k)
  <2>1. k \in Key
    BY <1>2, ProposedValue DEF IInv
  <2>2. Puts(h, s, k, vault'[s][k])
    BY <1>1, <1>3, <2>1, WritePuts
  <2> QED BY <2>2 DEF Puts
<1> QED
  BY <1>1, <1>3, TickedOff

\* When no item is left the recording starts.
LEMMA ItemsDoneGoesOn ==
  ASSUME IInv, NEW h \in Handler, ItemsDone(h), WorkOf(h)
  PROVE  WorkOf(h)'
<1>1. job[h].pc \in Guarded /\ Step(h) /\ job[h].todo = {}
  BY DEF ItemsDone, Guarded, Step
<1>2. /\ job'[h].pc = "recordEnv" /\ job'[h].req = job[h].req /\ job'[h].todo = job[h].todo
  BY DEF ItemsDone, Goto, IInv, TypeOK, Job
<1>3. \A s \in Store : ~Recorded(h, s)'
  BY <1>2 DEF Recorded
<1> QED
  BY <1>1, <1>2, <1>3, GoesOn

\* A PiT makes the history replay to what it records.
LEMMA RecordGoesOn ==
  ASSUME IInv, NEW h \in Handler, NEW s \in Store, RecordPiT(h, s), WorkOf(h)
  PROVE  WorkOf(h)'
<1> DEFINE r == job[h].req
           here == IF s = "env" THEN "recordEnv" ELSE "recordSecret"
           next == IF s = "env" THEN "recordSecret" ELSE "final"
<1>1. job[h].pc = here /\ here \in {"recordEnv", "recordSecret"} /\ Goto(h, next)
  BY DEF RecordPiT
<1>2. job[h].pc \in Guarded /\ Step(h) /\ job[h].todo = {}
  BY <1>1 DEF Guarded, Step, WorkOf
<1>3. r \in Request
  BY <1>1 DEF IInv, JobsAreSound
<1>4. job'[h].pc = next /\ job'[h].req = r /\ job'[h].todo = {}
  <2> HIDE DEF next
  <2> QED BY <1>1, <1>2 DEF Goto, IInv, TypeOK, Job
<1>5. next \in {"recordSecret", "final"}
  OBVIOUS
<1>6. \A t \in Store : Recorded(h, t)' => t = s \/ Recorded(h, t)
  BY <1>1, <1>4 DEF Recorded, Store
<1>7. ASSUME NEW t \in Store, NEW k \in DOMAIN content[r][t], Recorded(h, t)', ~Recorded(h, t)
      PROVE  Replay(history'[t])[k] = Proposed(r, t, k)
  <2>1. t = s /\ k \in Key
    BY <1>3, <1>6, <1>7, ProposedValue DEF IInv
  <2>2. Puts(h, t, k, Replay(history'[t])[k])
    BY <2>1, RecordPuts
  <2> QED BY <2>2 DEF Puts
<1> HIDE DEF next, here
<1>8. \A t \in Store : \A k \in DOMAIN content[r][t] : <<t, k>> \notin job[h].todo
  BY <1>2
<1> QED
  BY <1>2, <1>4, <1>5, <1>7, <1>8, GoesOn

\* A certificate has no items, so nothing is left to do after it was issued.
LEMMA IssueGoesOn ==
  ASSUME IInv, CertificatesCarryNothing, NEW h \in Handler, IssueCertificate(h), WorkOf(h)
  PROVE  WorkOf(h)'
<1> DEFINE r == job[h].req
<1>1. job[h].pc = "issue" /\ job[h].pc \in Guarded /\ Step(h)
  BY DEF IssueCertificate, Guarded, Step
<1>2. r \in Request /\ \A s \in Store : DOMAIN content[r][s] = {}
  BY <1>1 DEF IInv, JobsAreSound, WorkOf, CertificatesCarryNothing
<1>3. job[h].todo = {}
  <2>1. \A i \in job[h].todo : i[1] \in Store /\ i[2] \in DOMAIN content[r][i[1]]
    BY ItemInHand DEF IInv, JobsAreSound
  <2> QED BY <1>2, <2>1
<1>4. job'[h].pc = "final" /\ job'[h].req = r /\ job'[h].todo = {}
  BY <1>3 DEF IssueCertificate, Goto, IInv, TypeOK, Job
<1> QED
  BY <1>1, <1>2, <1>4, GoesOn

\* A handler that is at work after a step was so before, or fetched its items.
LEMMA OnlyWorkGoesOn ==
  ASSUME IInv, NEW h \in Handler, Step(h) \/ Fault(h), job'[h].pc \in Guarded
  PROVE  \/ LoadItems(h)
         \/ /\ job[h].pc \in Guarded
            /\ \/ PickItem(h) \/ ReadEntry(h) \/ WriteEntry(h) \/ ItemsDone(h)
               \/ IssueCertificate(h) \/ \E s \in Store : RecordPiT(h, s)
               \/ Goto(h, "write")
<1>1. CASE \/ PickItem(h) \/ ReadEntry(h) \/ WriteEntry(h) \/ ItemsDone(h)
           \/ IssueCertificate(h) \/ \E s \in Store : RecordPiT(h, s)
  BY <1>1 DEF PickItem, ReadEntry, WriteEntry, ItemsDone, IssueCertificate, RecordPiT, Guarded
<1>2. ASSUME NEW label \in {"load", "fail"}, Goto(h, label) PROVE FALSE
  BY <1>2 DEF Goto, IInv, TypeOK, Job, Guarded
<1>3. ASSUME Return(h) PROVE FALSE
  BY <1>3 DEF Return, IInv, TypeOK, IdleJob, Guarded
<1>4. CASE CheckKey(h)
  <2>1. Goto(h, "write")
    BY <1>2, <1>4 DEF CheckKey
  <2> QED BY <1>4, <2>1 DEF CheckKey, Guarded
<1>5. CASE \/ Claim(h) \/ Finalize(h) \/ MarkFailed(h) \/ Reject(h) \/ Cancel(h)
           \/ Fault(h)
  BY <1>2, <1>3, <1>5 DEF Claim, Finalize, MarkFailed, Reject, Cancel, Fault,
       WriteEntryReplyLost, Throw, LoadItemsThrows, Crash
<1> QED
  BY <1>1, <1>4, <1>5 DEF Step

\* A step keeps what all handlers have achieved.
LEMMA StepKeepsWork ==
  ASSUME IInv, CertificatesCarryNothing, WorkIsInForce, NEW h \in Handler, Step(h) \/ Fault(h)
  PROVE  WorkIsInForce'
<1>1. ASSUME NEW g \in Handler \ {h}, job'[g].pc \in Guarded PROVE WorkOf(g)'
  <2>1. job'[g] = job[g]
    BY OneMoves DEF IInv
  <2> QED BY <1>1, <2>1, OthersWorkStays
<1>2. ASSUME job'[h].pc \in Guarded PROVE WorkOf(h)'
  <2>1. CASE LoadItems(h)
    BY <2>1, LoadStartsWork
  <2>2. CASE job[h].pc \in Guarded
    <3>1. WorkOf(h)
      BY <2>2 DEF WorkIsInForce
    <3>2. CASE Goto(h, "write")
      BY <2>2, <3>1, <3>2, GotoGoesOn
    <3>3. CASE \/ PickItem(h) \/ ReadEntry(h) \/ WriteEntry(h) \/ ItemsDone(h)
               \/ IssueCertificate(h) \/ \E s \in Store : RecordPiT(h, s)
      BY <3>1, <3>3, PickGoesOn, ReadGoesOn, WriteGoesOn, ItemsDoneGoesOn, IssueGoesOn,
         RecordGoesOn
    <3> QED BY <1>2, <3>2, <3>3, <2>1, OnlyWorkGoesOn, LoadStartsWork
  <2> QED BY <1>2, <2>1, <2>2, OnlyWorkGoesOn
<1> QED
  BY <1>1, <1>2 DEF WorkIsInForce

\* A request becomes approved only by its handler, whose work is done.
LEMMA OnlyDoneIsApproved ==
  ASSUME IInv, WorkIsInForce, NEW h \in Handler, Step(h) \/ Fault(h),
         NEW r \in Request, status[r] # "approved", status'[r] = "approved"
  PROVE  /\ job[h].req = r
         /\ UNCHANGED <<vault, history, content, touched>>
         /\ \A s \in Store : \A k \in DOMAIN content[r][s] : Undisturbed(r, s, k) =>
              vault[s][k] = Proposed(r, s, k) /\ Replay(history[s])[k] = Proposed(r, s, k)
<1>1. Finalize(h)
  BY DEF Step, Fault, Claim, LoadItems, PickItem, ReadEntry, CheckKey, WriteEntry, ItemsDone,
         RecordPiT, IssueCertificate, MarkFailed, Reject, Cancel, WriteEntryReplyLost,
         Throw, LoadItemsThrows, Crash, row, IInv, TypeOK
<1>2. job[h].pc = "final" /\ job[h].req = r
  BY <1>1 DEF Finalize, IInv, TypeOK
<1>3. WorkOf(h)
  BY <1>2 DEF WorkIsInForce, Guarded
<1>4. job[h].todo = {} /\ \A s \in Store : Recorded(h, s)
  BY <1>2, <1>3 DEF WorkOf, Recorded
<1>5. UNCHANGED <<vault, history, content, touched>>
  BY <1>1 DEF Finalize, data, aux
<1> QED
  BY <1>2, <1>3, <1>4, <1>5 DEF WorkOf

\* A step keeps what approved requests promise.
LEMMA StepKeepsApproved ==
  ASSUME IInv, WorkIsInForce, ApprovedIsInForce, NEW h \in Handler, Step(h) \/ Fault(h)
  PROVE  ApprovedIsInForce'
<1> SUFFICES ASSUME NEW r \in Request, status'[r] = "approved",
                    NEW s \in Store, NEW k \in DOMAIN content'[r][s],
                    Writers(s, k)' \subseteq {r}
             PROVE  /\ vault'[s][k] = Proposed(r, s, k)'
                    /\ Replay(history'[s])[k] = Proposed(r, s, k)'
  BY DEF ApprovedIsInForce
<1>1. content' = content
  BY StepPuts
<1>2. /\ Writers(s, k) \subseteq Writers(s, k)'
      /\ Proposed(r, s, k)' = Proposed(r, s, k)
      /\ vault[s][k] = Proposed(r, s, k) => vault'[s][k] = Proposed(r, s, k)
      /\ Replay(history[s])[k] = Proposed(r, s, k)
           => Replay(history'[s])[k] = Proposed(r, s, k)
  BY <1>1, StepKeepsInForce
<1>3. CASE status[r] = "approved"
  BY <1>1, <1>2, <1>3 DEF ApprovedIsInForce
<1>4. CASE status[r] # "approved"
  <2>1. Undisturbed(r, s, k)
    BY <1>2 DEF Undisturbed
  <2>2. vault[s][k] = Proposed(r, s, k) /\ Replay(history[s])[k] = Proposed(r, s, k)
    BY <1>1, <1>4, <2>1, OnlyDoneIsApproved
  <2> QED BY <1>2, <2>2
<1> QED
  BY <1>3, <1>4

\* While approvals do not overlap, a step keeps history and vault in agreement.
LEMMA StepKeepsAgreement ==
  ASSUME IInv, WorkIsInForce, Solo, HistoryTellsVault, NEW h \in Handler, Step(h) \/ Fault(h)
  PROVE  HistoryTellsVault'
<1> SUFFICES ASSUME NEW s \in Store, NEW k \in Key,
                    \A r \in Writers(s, k)' : status'[r] = "approved"
             PROVE  Replay(history'[s])[k] = vault'[s][k]
  BY DEF HistoryTellsVault
<1>1. /\ content' = content
      /\ touched \subseteq touched'
      /\ vault'[s][k] = vault[s][k] \/ Puts(h, s, k, vault'[s][k])
      /\ \/ Replay(history'[s])[k] = Replay(history[s])[k]
         \/ Puts(h, s, k, Replay(history'[s])[k])
  BY StepPuts
<1>2. ASSUME NEW v, Puts(h, s, k, v) PROVE FALSE
  <2>1. job[h].req \in Writers(s, k)' /\ status'[job[h].req] = "applying"
    BY <1>1, <1>2 DEF Puts, Writers
  <2> QED BY <2>1
<1>3. Writers(s, k) \subseteq Writers(s, k)'
  BY <1>1 DEF Writers
<1>4. CASE \A r \in Writers(s, k) : status[r] = "approved"
  BY <1>1, <1>2, <1>4 DEF HistoryTellsVault
<1>5. CASE \E r \in Writers(s, k) : status[r] # "approved"
  <2>1. PICK r \in Writers(s, k) : status[r] # "approved" /\ status'[r] = "approved"
    BY <1>3, <1>5
  <2>2. r \in Request /\ k \in DOMAIN content[r][s]
    BY DEF Writers, IInv, TypeOK
  <2>3. vault[s][k] = Proposed(r, s, k) /\ Replay(history[s])[k] = Proposed(r, s, k)
    BY <2>1, <2>2, OnlyDoneIsApproved DEF Undisturbed
  <2> QED BY <1>1, <1>2, <2>3
<1> QED
  BY <1>4, <1>5

\* There are two stores.
LEMMA TwoStores ==
  ASSUME NEW s \in Store, NEW t \in Store
  PROVE  /\ Other(s) \in Store /\ Other(s) # s
         /\ t = s \/ t = Other(s)
  BY DEF Store, Other

\* While approvals do not overlap, a handler about to store a value has found
\* the other store without the key.
LEMMA StepKeepsChecks ==
  ASSUME IInv, Solo, OneStorePerKey, ChecksStand, NEW h \in Handler, Step(h) \/ Fault(h)
  PROVE  ChecksStand'
<1> SUFFICES ASSUME job'[h].pc = "write", ChangeOf(h)'.operation # "DELETE"
             PROVE  vault'[Other(job'[h].item[1])][job'[h].item[2]] = Absent
  BY DEF ChecksStand, Solo
<1> DEFINE i == job[h].item
<1>1. job'[h].pc \in Guarded /\ ~LoadItems(h)
  BY DEF Guarded, LoadItems, IInv, TypeOK, Job
<1>2. ~PickItem(h)
  <2> SUFFICES ASSUME PickItem(h) PROVE FALSE
    OBVIOUS
  <2>1. PICK item \in job[h].todo :
          job' = [job EXCEPT
            ![h].item = item,
            ![h].pc = IF content[job[h].req][item[1]][item[2]].operation = "CREATE"
                      THEN "check" ELSE "read"]
    BY DEF PickItem
  <2> DEFINE label == IF content[job[h].req][item[1]][item[2]].operation = "CREATE"
                      THEN "check" ELSE "read"
  <2>2. label # "write" /\ job' = [job EXCEPT ![h].item = item, ![h].pc = label]
    BY <2>1
  <2> HIDE DEF label
  <2>3. job'[h].pc = label
    BY <2>2 DEF IInv, TypeOK, Job
  <2> QED BY <2>2, <2>3
<1>3. ~WriteEntry(h) /\ ~ItemsDone(h) /\ ~IssueCertificate(h) /\ ~ItemDone(h)
  BY DEF WriteEntry, ItemsDone, IssueCertificate, ItemDone, Goto, IInv, TypeOK, Job
<1>4. \A s \in Store : ~RecordPiT(h, s)
  BY DEF RecordPiT, Goto, IInv, TypeOK, Job
<1>5. ReadEntry(h) \/ CheckKey(h)
  <2>1. \A label : Goto(h, label) => label = "write"
    BY DEF Goto, IInv, TypeOK, Job
  <2>2. ~Return(h)
    BY DEF Return, IdleJob, IInv, TypeOK
  <2> QED
    BY <1>1, <1>2, <1>3, <1>4, <2>1, <2>2
       DEF Step, Fault, Claim, Finalize, MarkFailed, Reject, Cancel, WriteEntryReplyLost, Throw,
           LoadItemsThrows, Crash
<1>6. /\ vault' = vault /\ content' = content /\ Goto(h, "write")
      /\ job[h].pc \in {"read", "check"}
  <2>1. \A label : Goto(h, label) => label = "write"
    BY DEF Goto, IInv, TypeOK, Job
  <2> QED BY <1>3, <1>5, <2>1 DEF ReadEntry, CheckKey, row, data
<1>7. job'[h].item = i /\ job'[h].req = job[h].req
  BY <1>6 DEF Goto, IInv, TypeOK, Job
<1>8. i \in job[h].todo
  BY <1>6 DEF IInv, JobsAreSound
<1>9. i[1] \in Store /\ i[2] \in Key
  BY <1>8, ItemInHand DEF IInv
<1>10. CASE CheckKey(h)
  <2>1. vault[Other(i[1])][i[2]] = Absent
    BY <1>10, <1>3 DEF CheckKey, Goto, IInv, TypeOK, Job
  <2> QED BY <2>1, <1>6, <1>7
<1>11. CASE ReadEntry(h)
  <2>1. \A label : Goto(h, label) => label = "write"
    BY DEF Goto, IInv, TypeOK, Job
  <2>2. vault[i[1]][i[2]] # Absent
    BY <1>3, <1>11, <2>1 DEF ReadEntry
  <2>3. PICK t \in Store : vault[t][i[2]] = Absent
    BY <1>9 DEF OneStorePerKey
  <2>4. t = Other(i[1])
    BY <1>9, <2>2, <2>3, TwoStores
  <2> QED BY <1>6, <1>7, <2>3, <2>4
<1> QED
  BY <1>5, <1>10, <1>11

\* While approvals do not overlap, a step keeps each key in one store.
LEMMA StepKeepsOneStore ==
  ASSUME IInv, Solo, OneStorePerKey, ChecksStand, NEW h \in Handler, Step(h) \/ Fault(h)
  PROVE  OneStorePerKey'
<1> SUFFICES ASSUME NEW k \in Key PROVE \E s \in Store : vault'[s][k] = Absent
  BY DEF OneStorePerKey
<1>1. PICK s \in Store : vault[s][k] = Absent
  BY DEF OneStorePerKey
<1>2. CASE WriteEntry(h) \/ WriteEntryReplyLost(h)
  <2> DEFINE i == job[h].item
             r == job[h].req
  <2>1. job[h].pc = "write" /\ ChangeVault(h) /\ status' = status
    BY <1>2 DEF WriteEntry, WriteEntryReplyLost, row
  <2>2. /\ i \in job[h].todo
        /\ \A t \in Store, j \in Key :
             IF <<t, j>> = i THEN Puts(h, t, j, vault'[t][j]) ELSE vault'[t][j] = vault[t][j]
    BY <2>1, WritePuts
  <2>3. i[1] \in Store /\ i[2] \in Key /\ i = <<i[1], i[2]>> /\ r \in Request
    BY <2>2, ItemInHand, ItemPair DEF IInv
  <2>4. CASE k # i[2]
    <3>1. <<s, k>> # i
      BY <2>3, <2>4
    <3> QED BY <1>1, <2>2, <3>1
  <2>5. CASE k = i[2] /\ ChangeOf(h).operation = "DELETE"
    <3>1. Puts(h, i[1], k, vault'[i[1]][k])
      BY <2>2, <2>3, <2>5
    <3>2. Proposed(r, i[1], k) = Outcome(content[r][i[1]][k])
      BY <2>3, <3>1, ProposedValue DEF IInv, Puts
    <3>3. vault'[i[1]][k] = Absent
      BY <2>5, <3>1, <3>2 DEF Puts, Outcome, ChangeOf
    <3> QED BY <2>3, <3>3
  <2>6. CASE k = i[2] /\ ChangeOf(h).operation # "DELETE"
    <3>1. vault[Other(i[1])][k] = Absent
      BY <2>1, <2>6 DEF ChecksStand
    <3>2. Other(i[1]) \in Store /\ Other(i[1]) # i[1]
      BY <2>3, TwoStores
    <3>3. <<Other(i[1]), k>> # i
      BY <2>3, <3>2
    <3> QED BY <2>2, <3>1, <3>2, <3>3
  <2> QED BY <2>4, <2>5, <2>6
<1>3. CASE UNCHANGED vault
  BY <1>1, <1>3
<1> QED
  BY <1>2, <1>3
     DEF Step, Fault, Claim, LoadItems, PickItem, ReadEntry, CheckKey, ItemsDone, RecordPiT,
         IssueCertificate, Finalize, MarkFailed, Reject, Cancel, Throw, LoadItemsThrows, Crash,
         data

\* What a creation inserts carries nothing if it is a certificate operation.
LEMMA CreateCarries ==
  ASSUME TypeOK, NEW r \in Request, NEW u \in User,
         CreateDirect(r, u) \/ CreatePromotion(r, u) \/ CreateCertificateOp(r, u)
  PROVE  \E c \in Content :
           /\ Insert(r, u, c)
           /\ c.kind = "certificate" => \A s \in Store : DOMAIN c[s] = {}
<1>1. PICK c \in Content : Insert(r, u, c)
  BY CreateType
<1>2. content' = [content EXCEPT ![r] = c] /\ content'[r] = c
  BY <1>1 DEF Insert, TypeOK
<1>3. CASE CreateDirect(r, u)
  <2>1. content'[r].kind = "direct"
    BY <1>3 DEF CreateDirect, Insert, TypeOK
  <2> QED BY <1>1, <1>2, <2>1
<1>4. CASE CreatePromotion(r, u)
  <2>1. content'[r].kind = "promotion"
    BY <1>4 DEF CreatePromotion, Insert, TypeOK
  <2> QED BY <1>1, <1>2, <2>1
<1>5. CASE CreateCertificateOp(r, u)
  <2>1. content'[r] = [NoContent EXCEPT !.kind = "certificate"]
    BY <1>5 DEF CreateCertificateOp, Insert, TypeOK
  <2>2. \A s \in Store : DOMAIN c[s] = {}
    BY <1>2, <2>1 DEF NoContent, NoChanges, Store
  <2> QED BY <1>1, <2>2
<1> QED
  BY <1>3, <1>4, <1>5

\* A new request changes nothing of what the others have achieved.
LEMMA CreateKeepsAInv ==
  ASSUME IInv, AInv, NEW r \in Request, NEW u \in User, NEW c \in Content, Insert(r, u, c),
         c.kind = "certificate" => \A s \in Store : DOMAIN c[s] = {}
  PROVE  AInv'
<1>1. /\ status[r] = "none" /\ status' = [status EXCEPT ![r] = "pending"]
      /\ content' = [content EXCEPT ![r] = c]
      /\ UNCHANGED <<vault, history, job, touched>>
  BY DEF Insert, data, aux
<1>2. \A q \in Request \ {r} : content'[q] = content[q] /\ status'[q] = status[q]
  BY <1>1 DEF IInv, TypeOK
<1>3. content'[r] = c /\ status'[r] = "pending"
  BY <1>1 DEF IInv, TypeOK
<1>4. r \notin touched /\ touched \subseteq Request
  BY <1>1 DEF IInv, RefusedLeavesNoTrace, TypeOK
<1>5. \A s \in Store, k \in Key : Writers(s, k)' = Writers(s, k)
  BY <1>1, <1>2, <1>4 DEF Writers
<1>6. \A q \in Request \ {r} : \A s \in Store : \A k :
        Proposed(q, s, k)' = Proposed(q, s, k)
  BY <1>2 DEF Proposed
<1>7. \A q \in Request \ {r} : \A s \in Store : \A k \in DOMAIN content[q][s] : k \in Key
  BY ProposedValue DEF IInv
<1>8. CertificatesCarryNothing'
  BY <1>2, <1>3 DEF AInv, CertificatesCarryNothing
<1>9. \A h \in Handler : job[h].pc \in Guarded => job[h].req \in Request \ {r}
  BY <1>1 DEF IInv, JobsAreSound, Guarded
<1>10. WorkIsInForce'
  <2> SUFFICES ASSUME NEW h \in Handler, job'[h].pc \in Guarded PROVE WorkOf(h)'
    BY DEF WorkIsInForce
  <2> DEFINE q == job[h].req
  <2>1. WorkOf(h) /\ q \in Request \ {r} /\ job' = job
    BY <1>1, <1>9 DEF AInv, WorkIsInForce
  <2>2. \A s \in Store : Recorded(h, s)' = Recorded(h, s)
    BY <2>1 DEF Recorded
  <2>3. content'[q] = content[q] /\ UNCHANGED <<vault, history>>
    BY <1>1, <1>2, <2>1
  <2>4. \A s \in Store : \A k \in DOMAIN content[q][s] :
          /\ Undisturbed(q, s, k)' = Undisturbed(q, s, k)
          /\ Proposed(q, s, k)' = Proposed(q, s, k)
    BY <1>5, <1>6, <1>7, <2>1 DEF Undisturbed
  <2> QED BY <2>1, <2>2, <2>3, <2>4 DEF WorkOf
<1>11. ApprovedIsInForce'
  <2> SUFFICES ASSUME NEW q \in Request, status'[q] = "approved",
                      NEW s \in Store, NEW k \in DOMAIN content'[q][s],
                      Writers(s, k)' \subseteq {q}
               PROVE  /\ vault'[s][k] = Proposed(q, s, k)'
                      /\ Replay(history'[s])[k] = Proposed(q, s, k)'
    BY DEF ApprovedIsInForce
  <2>1. q # r
    BY <1>3
  <2>2. status[q] = "approved" /\ content'[q] = content[q] /\ k \in Key
    BY <1>2, <1>7, <2>1
  <2>3. Writers(s, k) \subseteq {q} /\ Proposed(q, s, k)' = Proposed(q, s, k)
    BY <1>5, <1>6, <2>1, <2>2
  <2> QED BY <1>1, <2>2, <2>3 DEF AInv, ApprovedIsInForce
<1>12. ASSUME Solo PROVE HistoryTellsVault' /\ ChecksStand' /\ OneStorePerKey'
  <2>1. HistoryTellsVault'
    <3>1. \A s \in Store, k \in Key : \A q \in Writers(s, k) : q \in Request \ {r}
      BY <1>4 DEF Writers
    <3> QED BY <1>1, <1>2, <1>5, <1>12, <3>1 DEF AInv, HistoryTellsVault
  <2>2. OneStorePerKey'
    BY <1>1, <1>12 DEF AInv, OneStorePerKey
  <2>3. ChecksStand'
    <3>1. \A h \in Handler : job[h].pc = "write" => ChangeOf(h)' = ChangeOf(h)
      BY <1>1, <1>2, <1>9 DEF ChangeOf, Guarded
    <3> QED BY <1>1, <1>12, <3>1 DEF AInv, ChecksStand
  <2> QED BY <2>1, <2>2, <2>3
<1> QED
  BY <1>8, <1>10, <1>11, <1>12 DEF AInv, Solo

\* A step that changes no row, vault or history and starts no work keeps
\* what has been achieved.
LEMMA QuietKeepsAInv ==
  ASSUME AInv, UNCHANGED <<status, content, vault, history, touched>>,
         \A h \in Handler : job'[h] = job[h] \/ job'[h].pc \notin Guarded
  PROVE  AInv'
<1>1. CertificatesCarryNothing' /\ ApprovedIsInForce'
  BY DEF AInv, CertificatesCarryNothing, ApprovedIsInForce, Writers, Proposed
<1>2. WorkIsInForce'
  <2> SUFFICES ASSUME NEW h \in Handler, job'[h].pc \in Guarded PROVE WorkOf(h)'
    BY DEF WorkIsInForce
  <2>1. job'[h] = job[h] /\ WorkOf(h)
    BY DEF AInv, WorkIsInForce
  <2> QED BY <2>1 DEF WorkOf, Undisturbed, Writers, Proposed, Recorded
<1>3. ASSUME Solo PROVE HistoryTellsVault' /\ ChecksStand' /\ OneStorePerKey'
  <2>1. HistoryTellsVault' /\ OneStorePerKey'
    BY <1>3 DEF AInv, HistoryTellsVault, OneStorePerKey, Writers
  <2>2. \A h \in Handler : job'[h].pc = "write" => job'[h] = job[h]
    BY DEF Guarded
  <2>3. ChecksStand'
    BY <1>3, <2>2 DEF AInv, ChecksStand, ChangeOf
  <2> QED BY <2>1, <2>3
<1> QED
  BY <1>1, <1>2, <1>3 DEF AInv, Solo

\* Nothing is touched and nothing is at work at first.
LEMMA InitAInv == Init => AInv
<1> SUFFICES ASSUME Init PROVE AInv
  OBVIOUS
<1>1. \A h \in Handler : job[h].pc = "idle"
  BY DEF Init, IdleJob
<1>2. \A r \in Request : status[r] = "none" /\ content[r].kind = "direct"
  BY DEF Init, NoContent
<1>3. CertificatesCarryNothing /\ WorkIsInForce /\ ApprovedIsInForce /\ ChecksStand
  BY <1>1, <1>2 DEF CertificatesCarryNothing, WorkIsInForce, ApprovedIsInForce, ChecksStand, Guarded
<1>4. \A s \in Store : vault[s] = EmptySnapshot /\ Replay(history[s]) = EmptySnapshot
  BY ReplayEmpty DEF Init
<1>5. HistoryTellsVault
  BY <1>4 DEF HistoryTellsVault
<1>6. OneStorePerKey
  BY <1>4 DEF OneStorePerKey, EmptySnapshot, Store
<1> QED
  BY <1>3, <1>5, <1>6 DEF AInv

\* Every step keeps what has been achieved.
LEMMA NextAInv ==
  ASSUME IInv, AInv, [Next]_vars
  PROVE  AInv'
<1>1. ASSUME NEW r \in Request, NEW u \in User,
             CreateDirect(r, u) \/ CreatePromotion(r, u) \/ CreateCertificateOp(r, u)
      PROVE  AInv'
  <2>1. PICK c \in Content : /\ Insert(r, u, c)
                             /\ c.kind = "certificate" => \A s \in Store : DOMAIN c[s] = {}
    BY <1>1, CreateCarries DEF IInv
  <2> QED BY <2>1, CreateKeepsAInv
<1>2. ASSUME NEW r \in Request, NEW u \in User, NEW h \in Handler,
             StartApprove(h, r, u) \/ StartReject(h, r, u) \/ StartCancel(h, r, u)
      PROVE  AInv'
  <2>1. PICK label \in {"claim", "reject", "cancel"} : Enter(h, label, r, u)
    BY <1>2 DEF StartApprove, StartReject, StartCancel
  <2>2. /\ job'[h].pc = label /\ \A g \in Handler \ {h} : job'[g] = job[g]
    BY <2>1 DEF Enter, IdleJob, IInv, TypeOK
  <2>3. \A g \in Handler : job'[g] = job[g] \/ job'[g].pc \notin Guarded
    BY <2>2 DEF Guarded
  <2> QED BY <2>1, <2>3, QuietKeepsAInv DEF Enter, row, data, aux
<1>3. ASSUME NEW h \in Handler, Step(h) \/ Fault(h)
      PROVE  AInv'
  <2>1. CertificatesCarryNothing'
    <3>1. content' = content
      BY <1>3, StepPuts
    <3> QED BY <3>1 DEF AInv, CertificatesCarryNothing
  <2>2. WorkIsInForce' /\ ApprovedIsInForce'
    BY <1>3, StepKeepsWork, StepKeepsApproved DEF AInv
  <2>3. ASSUME Solo PROVE HistoryTellsVault' /\ ChecksStand' /\ OneStorePerKey'
    BY <1>3, <2>3, StepKeepsAgreement, StepKeepsChecks, StepKeepsOneStore DEF AInv
  <2> QED BY <2>1, <2>2, <2>3 DEF AInv, Solo
<1>4. CASE UNCHANGED vars
  BY <1>4, QuietKeepsAInv DEF vars
<1> QED
  BY <1>1, <1>2, <1>3, <1>4 DEF Next

\* What has been achieved is kept in every reachable state.
LEMMA AlwaysAInv == Spec => []AInv
<1>1. IInv /\ AInv /\ [Next]_vars => AInv'
  BY NextAInv
<1> QED
  BY <1>1, InitAInv, AlwaysIInv, PTL DEF Spec

\* A request that was approved is in force: its keys have what it proposed, in
\* the vault and in the history, unless another request touched them. It holds
\* for overlapping approvals, retries, crashes and lost replies alike.
THEOREM ApprovedIsInForceAlways == Spec => []ApprovedIsInForce
<1>1. AInv => ApprovedIsInForce
  BY DEF AInv
<1> QED
  BY <1>1, AlwaysAInv, PTL

\* While approvals do not overlap, a key whose requests are all approved has in
\* the vault what its history replays to, however many attempts failed or died.
THEOREM HistoryTellsVaultAlone ==
  ASSUME \A g, h \in Handler : g = h
  PROVE  Spec => []HistoryTellsVault
<1>1. AInv => HistoryTellsVault
  BY DEF AInv, Solo
<1> QED
  BY <1>1, AlwaysAInv, PTL

\* While approvals do not overlap, no key is ever live in both stores: what
\* checkKeyExists has found stands until the write.
THEOREM OneStorePerKeyAlone ==
  ASSUME \A g, h \in Handler : g = h
  PROVE  Spec => []OneStorePerKey
<1>1. AInv => OneStorePerKey
  BY DEF AInv, Solo
<1> QED
  BY <1>1, AlwaysAInv, PTL

-----------------------------------------------------------------------------
(* ChangeRequests implements RequestLifecycle: every step of a handler is  *)
(* a step of the life cycle of its request, or no step of it at all.       *)


\* The row of one request changes its status.
LEMMA StatusMoves ==
  ASSUME TypeOK, NEW r \in Request, NEW st \in Status, status' = [status EXCEPT ![r] = st]
  PROVE  Phases' = [Phases EXCEPT ![r] = Phase(st)]
  BY DEF TypeOK, Phases

\* The phases depend on the status only.
LEMMA StatusStays == ASSUME UNCHANGED status PROVE UNCHANGED Phases
  BY DEF Phases

\* The job of one handler changes, those of the others do not.
OthersStay(h) == \A g \in Handler \ {h} : job'[g] = job[g]

\* The holder of a request is its only one, and holds nothing else.
LEMMA SoleHolder ==
  ASSUME TypeOK, OneApplier, JobsAreSound, NEW h \in Handler, Holding(h)
  PROVE  /\ job[h].req \in Request
         /\ Holders[job[h].req] = {h}
         /\ Phases[job[h].req] = "held"
<1>1. job[h].pc # "idle"
  BY DEF Holding, Guarded
<1>2. job[h].req \in Request
  BY <1>1 DEF JobsAreSound
<1>3. \A g \in Handler : Holding(g) /\ job[g].req = job[h].req => g = h
  BY DEF OneApplier
<1>4. status[job[h].req] = "applying"
  BY DEF OneApplier
<1> QED
  BY <1>2, <1>3, <1>4 DEF Holders, Phases, Phase

\* A step in which a handler neither takes nor gives back a request.
LEMMA HoldersStay ==
  ASSUME TypeOK, NEW h \in Handler, OthersStay(h), Holding(h)' <=> Holding(h),
         Holding(h) => job'[h].req = job[h].req
  PROVE  UNCHANGED Holders
<1>1. \A g \in Handler : /\ Holding(g)' <=> Holding(g)
                         /\ Holding(g) => job'[g].req = job[g].req
  BY DEF OthersStay, Holding
<1> QED
  BY <1>1 DEF Holders

\* A holder that returns leaves its request to nobody.
LEMMA HolderLeaves ==
  ASSUME TypeOK, OneApplier, JobsAreSound, NEW h \in Handler, OthersStay(h),
         Holding(h), ~Holding(h)'
  PROVE  Holders' = [Holders EXCEPT ![job[h].req] = {}]
<1> DEFINE r == job[h].req
<1>1. r \in Request /\ Holders[r] = {h}
  BY SoleHolder
<1>2. \A g \in Handler \ {h} : (Holding(g)' <=> Holding(g)) /\ job'[g].req = job[g].req
  BY DEF OthersStay, Holding
<1>3. ASSUME NEW q \in Request, NEW g \in Handler
      PROVE  Holding(g)' /\ job'[g].req = q <=> Holding(g) /\ job[g].req = q /\ q # r
  <2>1. CASE g = h
    BY <2>1
  <2>2. CASE g # h
    <3>1. Holding(g) /\ job[g].req = r => FALSE
      BY <1>1, <2>2 DEF Holders
    <3> QED
      BY <1>2, <2>2, <3>1
  <2> QED
    BY <2>1, <2>2
<1>4. \A q \in Request : Holders'[q] = IF q = r THEN {} ELSE Holders[q]
  BY <1>3 DEF Holders
<1> QED
  BY <1>4 DEF Holders

\* A handler that takes a request nobody applies becomes its only holder.
LEMMA HolderComes ==
  ASSUME TypeOK, OneApplier, NEW h \in Handler, OthersStay(h), ~Holding(h), Holding(h)',
         NEW r \in Request, job'[h].req = r, status[r] # "applying"
  PROVE  /\ Holders[r] = {}
         /\ \A q \in Request : h \notin Holders[q]
         /\ Holders' = [Holders EXCEPT ![r] = {h}]
<1>1. \A g \in Handler : Holding(g) => job[g].req # r
  BY DEF OneApplier
<1>2. Holders[r] = {} /\ \A q \in Request : h \notin Holders[q]
  BY <1>1 DEF Holders
<1>3. \A g \in Handler \ {h} : (Holding(g)' <=> Holding(g)) /\ job'[g].req = job[g].req
  BY DEF OthersStay, Holding
<1>4. ASSUME NEW q \in Request, NEW g \in Handler
      PROVE  /\ q # r => (Holding(g)' /\ job'[g].req = q <=> Holding(g) /\ job[g].req = q)
             /\ Holding(g)' /\ job'[g].req = r <=> g = h
  <2>1. CASE g = h
    BY <2>1
  <2>2. CASE g # h
    BY <1>1, <1>3, <2>2
  <2> QED
    BY <2>1, <2>2
<1>5. \A q \in Request : Holders'[q] = IF q = r THEN {h} ELSE Holders[q]
  BY <1>4 DEF Holders
<1>6. Holders' = [Holders EXCEPT ![r] = {h}]
  BY <1>5 DEF Holders
<1> QED
  BY <1>2, <1>6

-----------------------------------------------------------------------------
(* How a job moves.                                                        *)

\* Goto moves one handler and leaves it its request.
LEMMA GotoMoves ==
  ASSUME TypeOK, NEW h \in Handler, NEW label \in PC, Goto(h, label)
  PROVE  OthersStay(h) /\ job'[h].pc = label /\ job'[h].req = job[h].req
  BY DEF TypeOK, Job, Goto, OthersStay

\* A handler that returns holds nothing.
LEMMA ReturnMoves ==
  ASSUME TypeOK, NEW h \in Handler, Return(h)
  PROVE  OthersStay(h) /\ ~Holding(h)'
  BY DEF TypeOK, Job, Return, OthersStay, IdleJob, Holding, Guarded

\* A handler goes from one call under the claim to another.
LEMMA HolderGoesOn ==
  ASSUME TypeOK, NEW h \in Handler, Holding(h), NEW label \in Guarded \cup {"load", "fail"},
         Goto(h, label)
  PROVE  UNCHANGED Holders
<1>1. OthersStay(h) /\ job'[h].pc = label /\ job'[h].req = job[h].req
  BY GotoMoves DEF Guarded, PC
<1> QED
  BY <1>1, HoldersStay DEF Holding

\* A handler without a claim returns.
LEMMA BystanderReturns ==
  ASSUME TypeOK, NEW h \in Handler, ~Holding(h), Return(h)
  PROVE  UNCHANGED Holders
<1>1. OthersStay(h) /\ ~Holding(h)'
  BY ReturnMoves
<1> QED
  BY <1>1, HoldersStay

-----------------------------------------------------------------------------
(* Every step is one of the life cycle.                                    *)

Stutter == UNCHANGED <<Phases, Holders, touched>>

\* Initially every request is new, held by nobody and without effect.
LEMMA InitLifecycle == Init => Lifecycle!Init
<1> SUFFICES ASSUME Init PROVE Lifecycle!Init
  OBVIOUS
<1>1. \A h \in Handler : ~Holding(h)
  BY DEF Init, IdleJob, Holding, Guarded
<1>2. Phases = [r \in Request |-> "new"]
  BY DEF Init, Phases, Phase
<1>3. Holders = [r \in Request |-> {}]
  BY <1>1 DEF Holders
<1> QED
  BY <1>2, <1>3 DEF Init, Lifecycle!Init

\* Inserting the row opens the request.
LEMMA InsertOpens ==
  ASSUME TypeOK, NEW r \in Request, NEW u \in User, NEW c \in Content, Insert(r, u, c)
  PROVE  Lifecycle!Open(r)
<1>1. Phases' = [Phases EXCEPT ![r] = "open"]
  BY StatusMoves DEF Insert, Phase, Status
<1>2. Phases[r] = "new"
  BY DEF Insert, Phases, Phase
<1>3. UNCHANGED <<Holders, touched>>
  BY DEF Insert, aux, Holders, Holding
<1> QED
  BY <1>1, <1>2, <1>3 DEF Lifecycle!Open

\* Reading the row and the permissions is no step of the life cycle.
LEMMA StartStutters ==
  ASSUME TypeOK, NEW h \in Handler, NEW r \in Request, NEW u \in User,
         StartApprove(h, r, u) \/ StartReject(h, r, u) \/ StartCancel(h, r, u)
  PROVE  Stutter
<1>1. PICK label \in {"claim", "reject", "cancel"} : Enter(h, label, r, u)
  BY DEF StartApprove, StartReject, StartCancel
<1>2. OthersStay(h) /\ ~Holding(h) /\ ~Holding(h)'
  BY <1>1 DEF Enter, OthersStay, Holding, Guarded, IdleJob, TypeOK
<1>3. UNCHANGED Holders
  BY <1>2, HoldersStay
<1> QED
  BY <1>1, <1>3, StatusStays DEF Enter, row, aux, Stutter

\* The claim UPDATE takes a request nobody holds, or is refused.
LEMMA ClaimTakes ==
  ASSUME IInv, NEW h \in Handler, Claim(h)
  PROVE  (\E r \in Request : Lifecycle!Take(r, h)) \/ Stutter
<1> DEFINE r == job[h].req
<1> USE DEF IInv
<1>1. ~Holding(h) /\ r \in Request
  BY DEF Claim, Holding, Guarded, JobsAreSound
<1>2. CASE Return(h) /\ UNCHANGED <<status, touched>>
  BY <1>1, <1>2, BystanderReturns, StatusStays DEF Stutter
<1>3. CASE /\ status[r] \in {"pending", "failed"}
           /\ status' = [status EXCEPT ![r] = "applying"]
           /\ Goto(h, "load")
           /\ UNCHANGED touched
  <2>1. OthersStay(h) /\ job'[h].pc = "load" /\ job'[h].req = r
    BY <1>3, GotoMoves DEF PC
  <2>2. /\ Holders[r] = {}
        /\ \A q \in Request : h \notin Holders[q]
        /\ Holders' = [Holders EXCEPT ![r] = {h}]
    BY <1>1, <1>3, <2>1, HolderComes DEF Holding
  <2>3. Phases' = [Phases EXCEPT ![r] = "held"]
    BY <1>1, <1>3, StatusMoves DEF Phase, Status
  <2>4. Phases[r] \in {"open", "failed"}
    BY <1>1, <1>3 DEF Phases, Phase
  <2> QED
    BY <1>1, <1>3, <2>2, <2>3, <2>4 DEF Lifecycle!Take
<1> QED
  BY <1>2, <1>3 DEF Claim

\* Reads, checks and errors inside the try block are no steps of the life cycle.
LEMMA MovesStutter ==
  ASSUME IInv, NEW h \in Handler,
         \/ LoadItems(h) \/ PickItem(h) \/ ReadEntry(h) \/ CheckKey(h) \/ ItemsDone(h) \/ Throw(h)
  PROVE  Stutter
<1> USE DEF IInv
<1>1. UNCHANGED <<status, touched>>
  BY DEF LoadItems, PickItem, ReadEntry, CheckKey, ItemsDone, Throw, row, aux
<1>2. Holding(h) /\ Holding(h)' /\ OthersStay(h) /\ job'[h].req = job[h].req
  <2>1. CASE LoadItems(h)
    <3>1. OthersStay(h)
      BY <2>1 DEF LoadItems, OthersStay, TypeOK
    <3>2. job[h].pc = "load" /\ job'[h].pc \in {"issue", "apply"} /\ job'[h].req = job[h].req
      BY <2>1 DEF LoadItems, TypeOK, Job
    <3> QED BY <3>1, <3>2 DEF Holding, Guarded
  <2>2. CASE PickItem(h)
    <3>1. OthersStay(h)
      BY <2>2 DEF PickItem, OthersStay, TypeOK
    <3>2. job[h].pc = "apply" /\ job[h] \in Job /\ DOMAIN job = Handler
      BY <2>2 DEF PickItem, TypeOK
    <3>3. PICK item \in job[h].todo :
            job' = [job EXCEPT
              ![h].item = item,
              ![h].pc = IF content[job[h].req][item[1]][item[2]].operation = "CREATE"
                        THEN "check" ELSE "read"]
      BY <2>2 DEF PickItem
    <3> DEFINE label == IF content[job[h].req][item[1]][item[2]].operation = "CREATE"
                        THEN "check" ELSE "read"
    <3>4. label \in {"read", "check"} /\ job' = [job EXCEPT ![h].item = item, ![h].pc = label]
      BY <3>3
    <3> HIDE DEF label
    <3>5. job'[h].pc \in {"read", "check"} /\ job'[h].req = job[h].req
      BY <3>2, <3>4 DEF Job
    <3> QED BY <3>1, <3>2, <3>5 DEF Holding, Guarded
  <2>3. CASE ReadEntry(h)
    <3>1. OthersStay(h)
      BY <2>3 DEF ReadEntry, Goto, ItemDone, OthersStay, TypeOK
    <3>2. job[h].pc = "read" /\ job'[h].pc \in {"write", "check", "apply"} /\ job'[h].req = job[h].req
      BY <2>3 DEF ReadEntry, Goto, ItemDone, TypeOK, Job
    <3> QED BY <3>1, <3>2 DEF Holding, Guarded
  <2>4. CASE CheckKey(h) \/ ItemsDone(h) \/ Throw(h)
    BY <2>4 DEF CheckKey, ItemsDone, Throw, Goto, OthersStay, Holding, Guarded, TypeOK, Job
  <2> QED
    BY <2>1, <2>2, <2>3, <2>4
<1> QED
  BY <1>1, <1>2, HoldersStay, StatusStays DEF Stutter

\* Writes, certificates and PiTs are effects under the only holder.
LEMMA EffectsAffect ==
  ASSUME IInv, NEW h \in Handler,
         \/ WriteEntry(h) \/ WriteEntryReplyLost(h) \/ IssueCertificate(h)
         \/ \E s \in Store : RecordPiT(h, s)
  PROVE  (\E r \in Request : Lifecycle!Affect(r, h)) \/ Stutter
<1> DEFINE r == job[h].req
<1> USE DEF IInv
<1>1. UNCHANGED status /\ (touched' = touched \cup {r} \/ touched' = touched)
  BY DEF WriteEntry, WriteEntryReplyLost, IssueCertificate, RecordPiT, ChangeVault, row
<1>2. Holding(h) /\ Holding(h)' /\ OthersStay(h) /\ job'[h].req = r
  <2>1. CASE WriteEntry(h)
    BY <2>1 DEF WriteEntry, ItemDone, OthersStay, Holding, Guarded, TypeOK, Job
  <2>2. CASE WriteEntryReplyLost(h) \/ IssueCertificate(h)
    BY <2>2 DEF WriteEntryReplyLost, IssueCertificate, Goto, OthersStay, Holding, Guarded, TypeOK, Job
  <2>3. ASSUME NEW s \in Store, RecordPiT(h, s)
        PROVE  Holding(h) /\ Holding(h)' /\ OthersStay(h) /\ job'[h].req = r
    BY <2>3 DEF RecordPiT, Goto, Store, OthersStay, Holding, Guarded, TypeOK, Job
  <2> QED
    BY <2>1, <2>2, <2>3
<1>3. UNCHANGED <<Phases, Holders>>
  BY <1>1, <1>2, HoldersStay, StatusStays
<1>4. r \in Request /\ Holders[r] = {h} /\ Phases[r] = "held"
  BY <1>2, SoleHolder
<1> QED
  BY <1>1, <1>3, <1>4 DEF Lifecycle!Affect, Stutter

\* The UPDATEs at the end of an approval find the row as the claim left it.
LEMMA ClosingGivesBack ==
  ASSUME IInv, NEW h \in Handler, Finalize(h) \/ MarkFailed(h)
  PROVE  \E r \in Request : Lifecycle!GiveBack(r, h)
<1> DEFINE r == job[h].req
<1> USE DEF IInv
<1>1. Holding(h)
  BY DEF Finalize, MarkFailed, Holding, Guarded
<1>2. r \in Request /\ Holders[r] = {h} /\ Phases[r] = "held"
  BY <1>1, SoleHolder
<1>3. status[r] = "applying" /\ reviewer[r] = job[h].user
  BY <1>1 DEF OneApplier
<1>4. PICK st \in {"approved", "failed"} : status' = [status EXCEPT ![r] = st]
  BY <1>3 DEF Finalize, MarkFailed
<1>5. Return(h) /\ UNCHANGED touched
  BY <1>3 DEF Finalize, MarkFailed, aux
<1>6. Holders' = [Holders EXCEPT ![r] = {}]
  BY <1>1, <1>5, ReturnMoves, HolderLeaves
<1>7. Phases' = [Phases EXCEPT ![r] = Phase(st)] /\ Phase(st) \in {"done", "failed"}
  BY <1>2, <1>4, StatusMoves DEF Phase, Status
<1> QED
  BY <1>2, <1>5, <1>6, <1>7 DEF Lifecycle!GiveBack

\* A crash, or an item query that fails, loses the holder and leaves the row.
LEMMA LeavingLoses ==
  ASSUME IInv, NEW h \in Handler, LoadItemsThrows(h) \/ Crash(h)
  PROVE  (\E r \in Request : Lifecycle!Lose(r, h)) \/ Stutter
<1> DEFINE r == job[h].req
<1> USE DEF IInv
<1>1. Return(h) /\ UNCHANGED <<status, touched>>
  BY DEF LoadItemsThrows, Crash, row, aux
<1>2. UNCHANGED Phases
  BY <1>1, StatusStays
<1>3. CASE Holding(h)
  <2>1. r \in Request /\ Holders[r] = {h}
    BY <1>3, SoleHolder
  <2>2. Holders' = [Holders EXCEPT ![r] = {}]
    BY <1>1, <1>3, ReturnMoves, HolderLeaves
  <2> QED
    BY <1>1, <1>2, <2>1, <2>2 DEF Lifecycle!Lose
<1>4. CASE ~Holding(h)
  BY <1>1, <1>2, <1>4, BystanderReturns DEF Stutter
<1> QED
  BY <1>3, <1>4

\* A rejection or cancellation refuses an open request, or does nothing.
LEMMA DecisionRefuses ==
  ASSUME IInv, NEW h \in Handler, Reject(h) \/ Cancel(h)
  PROVE  (\E r \in Request : Lifecycle!Refuse(r)) \/ Stutter
<1> DEFINE r == job[h].req
<1> USE DEF IInv
<1>1. ~Holding(h) /\ r \in Request /\ Return(h) /\ UNCHANGED touched
  BY DEF Reject, Cancel, Holding, Guarded, JobsAreSound, aux
<1>2. UNCHANGED Holders
  BY <1>1, BystanderReturns
<1>3. CASE status' = status
  BY <1>1, <1>2, <1>3, StatusStays DEF Stutter
<1>4. ASSUME NEW st \in {"rejected", "cancelled"}, status[r] = "pending",
             status' = [status EXCEPT ![r] = st]
      PROVE  Lifecycle!Refuse(r)
  <2>1. Phases' = [Phases EXCEPT ![r] = "refused"]
    BY <1>1, <1>4, StatusMoves DEF Phase, Status
  <2>2. Phases[r] = "open"
    BY <1>1, <1>4 DEF Phases, Phase
  <2> QED
    BY <1>1, <1>2, <2>1, <2>2 DEF Lifecycle!Refuse
<1>5. \/ status' = status
      \/ \E st \in {"rejected", "cancelled"} :
           status[r] = "pending" /\ status' = [status EXCEPT ![r] = st]
  BY <1>1 DEF Reject, Cancel, TypeOK
<1> QED
  BY <1>1, <1>3, <1>4, <1>5

\* Every step is a step of the life cycle or none at all.
LEMMA StepLifecycle ==
  ASSUME IInv, [Next]_vars
  PROVE  [Lifecycle!Next]_(Lifecycle!vars)
<1> SUFFICES (\E r \in Request :
                \/ Lifecycle!Open(r) \/ Lifecycle!Refuse(r)
                \/ \E h \in Handler : \/ Lifecycle!Take(r, h) \/ Lifecycle!Affect(r, h)
                                      \/ Lifecycle!GiveBack(r, h) \/ Lifecycle!Lose(r, h))
             \/ Stutter
  BY DEF Lifecycle!Next, Lifecycle!vars, Stutter
<1> USE DEF IInv
<1>1. ASSUME NEW r \in Request, NEW u \in User,
             CreateDirect(r, u) \/ CreatePromotion(r, u) \/ CreateCertificateOp(r, u)
      PROVE  Lifecycle!Open(r)
  <2>1. PICK c \in Content : Insert(r, u, c)
    BY <1>1, CreateType
  <2> QED
    BY <2>1, InsertOpens
<1>2. ASSUME NEW r \in Request, NEW u \in User, NEW h \in Handler,
             StartApprove(h, r, u) \/ StartReject(h, r, u) \/ StartCancel(h, r, u)
      PROVE  Stutter
  BY <1>2, StartStutters
<1>3. ASSUME NEW h \in Handler, Step(h) \/ Fault(h)
      PROVE  (\E r \in Request :
                \/ Lifecycle!Refuse(r) \/ Lifecycle!Take(r, h) \/ Lifecycle!Affect(r, h)
                \/ Lifecycle!GiveBack(r, h) \/ Lifecycle!Lose(r, h)) \/ Stutter
  BY <1>3, ClaimTakes, MovesStutter, EffectsAffect, ClosingGivesBack, LeavingLoses,
     DecisionRefuses DEF Step, Fault
<1>4. CASE UNCHANGED vars
  BY <1>4, StatusStays DEF vars, Stutter, Holders, Holding
<1> QED
  BY <1>1, <1>2, <1>3, <1>4 DEF Next

\* Whatever the handlers, races, faults and retries: a request is held by at
\* most one of them, has effects only under its holder, and is decided once.
THEOREM LifecycleImplemented == Spec => ImplementsLifecycle
<1>1. IInv /\ [Next]_vars => [Lifecycle!Next]_(Lifecycle!vars)
  BY StepLifecycle
<1> QED
  BY <1>1, InitLifecycle, AlwaysIInv, PTL DEF Spec, ImplementsLifecycle, Lifecycle!Spec
=============================================================================
