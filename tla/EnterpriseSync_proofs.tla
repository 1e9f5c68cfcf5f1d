------------------------ MODULE EnterpriseSync_proofs ------------------------
(***************************************************************************)
(* Whatever the numbers of executors, runs and mappings, and with every    *)
(* fault: a run that was turned away for want of the entitlement has       *)
(* written nothing at the provider; verdicts stand unless two executions   *)
(* met; and a success nobody overlapped is in force at the provider.       *)
(***************************************************************************)
EXTENDS EnterpriseSync, TLAPS

JobType ==
  [pc : {"idle", "pick", "refuse", "request", "claim", "look"} \cup Executing,
   list : SUBSET Runs, run : Nat, m : 0..Last, items : [Mappings -> Snapshot],
   left : SUBSET Keys, group : Remote, alone : BOOLEAN,
   ignored : SUBSET (Mappings \X Keys)]

\* What a job says of the row of its run: the run was created; it has left
\* pending for good once it was claimed or found claimed; it was not turned
\* away while somebody executes it.
JobFits(j) ==
  /\ \A r \in j.list : row[r] # "none"
  /\ j.pc \notin {"idle", "pick"} => j.run \in Runs /\ row[j.run] # "none"
  /\ j.pc \in Executing \cup {"look"} => row[j.run] # "pending"
  /\ j.pc \in Executing => reason[j.run] # "entitlement"
  /\ j.pc \in {"read", "get", "push"} => j.m \in Mappings

RowsTyped ==
  /\ row \in [Runs -> Status]
  /\ reason \in [Runs -> {"none", "entitlement", "failure"}]
  /\ scene \in Scenes
  /\ pushed \subseteq Runs

RestTyped ==
  /\ entitled \in BOOLEAN
  /\ source \in [Mappings -> Snapshot] /\ remote \in [Targets -> Remote]
  /\ shared \subseteq Runs /\ lost \subseteq Runs
  /\ changes \in 0..MaxChanges /\ faults \in 0..MaxFaults

\* A run that was turned away stays so, and nothing was written for it; a run
\* something was written for has been claimed.
RunsFit ==
  \A r \in Runs :
    /\ reason[r] = "entitlement" => row[r] = "failed" /\ r \notin pushed
    /\ r \in pushed => row[r] \notin {"none", "pending"}

JobsFit ==
  /\ job = [e \in Executors |-> job[e]]
  /\ \A e \in Executors : job[e] \in JobType /\ JobFits(job[e])

Inv == RowsTyped /\ RestTyped /\ RunsFit /\ JobsFit

-----------------------------------------------------------------------------

\* The scenes are as the assumption says.
LEMMA SceneTyped ==
  ASSUME scene \in Scenes
  PROVE  /\ Last \in Nat \ {0} /\ scene.runs \in Nat
         /\ scene.style \in {"each", "lenient", "create",
                            "patch", "graphql", "replace", "group", "spec"}
         /\ \A m \in Mappings : Target[m] \in Targets
         /\ \A m \in Mappings, k \in Keys : Name(m, k) \in Names
         /\ scene.vault \in [Mappings -> Snapshot] /\ scene.keys \subseteq Keys
<1>1. /\ Last \in Nat \ {0} /\ scene.runs \in Nat
      /\ scene.style \in {"each", "lenient", "create",
                         "patch", "graphql", "replace", "group", "spec"}
      /\ \A m \in Mappings : Target[m] \in Targets
  BY SyncAssumption DEF Last, Target, Mappings, Targets
<1>2. scene.name \in [Mappings -> [Keys -> Names]] /\ scene.vault \in [Mappings -> Snapshot]
      /\ scene.keys \subseteq Keys
  BY SyncAssumption DEF Last, Target, Mappings, Snapshot
<1> QED BY <1>1, <1>2 DEF Name

LEMMA NoValuesTyped == NoValues \in Snapshot /\ Empty \in Remote
BY DEF NoValues, Snapshot, Empty, Remote

\* Idle executors and passes between two runs fit every row.
LEMMA IdleFits ==
  ASSUME scene \in Scenes
  PROVE  Idle \in JobType /\ JobFits(Idle)
BY SceneTyped, NoValuesTyped DEF Idle, JobType, JobFits, Executing, Trying

LEMMA LeftFits ==
  ASSUME Inv, NEW e \in Executors
  PROVE  Left(e) \in JobType /\ JobFits(Left(e))
<1>1. Idle \in JobType /\ JobFits(Idle)
  BY IdleFits DEF Inv, RowsTyped
<1>2. job[e] \in JobType /\ JobFits(job[e])
  BY DEF Inv, JobsFit
<1>3. CASE job[e].list # {}
  <2>1. Left(e) = [Idle EXCEPT !.pc = "pick", !.list = job[e].list]
    BY <1>3 DEF Left
  <2> QED BY <1>1, <1>2, <1>3, <2>1 DEF JobType, JobFits, Executing, Trying, Idle
<1>4. CASE job[e].list = {}
  BY <1>1, <1>4 DEF Left
<1> QED BY <1>3, <1>4

-----------------------------------------------------------------------------

\* A step of an executor that leaves the rows alone.
LEMMA Move ==
  ASSUME Inv, NEW e \in Executors, NEW f \in JobType, JobFits(f),
         Goto(e, f), UNCHANGED <<row, reason, scene>>, RestTyped',
         pushed' \subseteq Runs,
         \A r \in pushed' \ pushed : row[r] \notin {"none", "pending"} /\ reason[r] # "entitlement"
  PROVE  Inv'
<1>1. \A o \in Executors : job'[o] = IF o = e THEN f ELSE job[o]
  BY DEF Inv, JobsFit, Goto
<1>2. job' = [o \in Executors |-> job'[o]]
  BY DEF Inv, JobsFit, Goto
<1>3. JobType' = JobType
  BY DEF JobType, Runs, Last, Mappings, Target
<1>4. (\A o \in Executors : JobFits(job[o]))'
  BY <1>1 DEF Inv, JobsFit, JobFits, Runs, Mappings, Last, Target
<1>5. JobsFit'
  BY <1>1, <1>2, <1>3, <1>4 DEF Inv, JobsFit
<1>6. RunsFit'
  BY DEF Inv, RunsFit, Runs
<1>7. RowsTyped'
  BY DEF Inv, RowsTyped, Runs
<1> QED BY <1>5, <1>6, <1>7 DEF Inv

\* A change of the row of one run, to a verdict or out of pending; only a
\* pending run is turned away.
RowChanges(r, s, w) ==
  /\ row' = [row EXCEPT ![r] = s]
  /\ reason' = [reason EXCEPT ![r] = w]
  /\ s # "none"
  /\ s = "pending" => row[r] = "none"
  /\ w = "entitlement" => s = "failed" /\ row[r] = "pending"

\* A job that fitted the rows fits them still.
LEMMA FitsStay ==
  ASSUME Inv, NEW r \in Runs, NEW s \in Status, NEW w \in {"none", "entitlement", "failure"},
         RowChanges(r, s, w), scene' = scene, NEW j \in JobType, JobFits(j)
  PROVE  JobFits(j)'
<1>1. \A x \in Runs : /\ row'[x] = (IF x = r THEN s ELSE row[x])
                       /\ reason'[x] = (IF x = r THEN w ELSE reason[x])
  BY DEF Inv, RowsTyped, RowChanges
<1>2. j.list \subseteq Runs
  BY DEF JobType
<1> QED BY <1>1, <1>2 DEF RowChanges, JobFits, Executing, Trying, Mappings, Last, Target, Runs

LEMMA RowMove ==
  ASSUME Inv, NEW r \in Runs, NEW s \in Status, NEW w \in {"none", "entitlement", "failure"},
         RowChanges(r, s, w), UNCHANGED <<scene, pushed>>, RestTyped',
         NEW e \in Executors, NEW f \in JobType, JobFits(f)', Goto(e, f)
  PROVE  Inv'
<1>1. \A x \in Runs : /\ row'[x] = (IF x = r THEN s ELSE row[x])
                       /\ reason'[x] = (IF x = r THEN w ELSE reason[x])
  BY DEF Inv, RowsTyped, RowChanges
<1>2. RowsTyped'
  BY DEF Inv, RowsTyped, RowChanges, Runs
<1>3. RunsFit'
  BY <1>1 DEF Inv, RunsFit, RowChanges, Runs
<1>4. \A o \in Executors : job'[o] = IF o = e THEN f ELSE job[o]
  BY DEF Inv, JobsFit, Goto
<1>5. job' = [o \in Executors |-> job'[o]]
  BY DEF Inv, JobsFit, Goto
<1>6. JobType' = JobType
  BY DEF JobType, Runs, Last, Mappings, Target
<1>7. ASSUME NEW o \in Executors PROVE job'[o] \in JobType /\ JobFits(job[o])'
  <2>1. CASE o = e
    <3>1. job'[o] = f BY <1>4, <2>1
    <3> QED BY <3>1 DEF JobFits
  <2>2. CASE o # e
    <3>1. job'[o] = job[o] BY <1>4, <2>2
    <3>2. job[o] \in JobType /\ JobFits(job[o]) BY DEF Inv, JobsFit
    <3>3. \A j \in JobType : JobFits(j) => JobFits(j)' BY FitsStay
    <3> QED BY <3>1, <3>2, <3>3 DEF JobFits
  <2> QED BY <2>1, <2>2
<1>8. JobsFit'
  BY <1>5, <1>6, <1>7 DEF JobsFit
<1> QED BY <1>2, <1>3, <1>8 DEF Inv

-----------------------------------------------------------------------------

\* The executor enters the try block; the others learn of the overlap.
LEMMA BeginFits ==
  ASSUME Inv, NEW e \in Executors, Begin(e), scene' = scene,
         job[e].run \in Runs, job[e].pc \notin {"idle", "pick"},
         \A j \in JobType : JobFits(j) => JobFits(j)',
         row'[job[e].run] \notin {"none", "pending"},
         reason'[job[e].run] # "entitlement"
  PROVE  JobsFit' /\ shared' \subseteq Runs
<1>1. JobType' = JobType
  BY DEF JobType, Runs, Last, Mappings, Target
<1>2. job' = [o \in Executors |-> job'[o]]
  BY DEF Begin
<1>3. ASSUME NEW o \in Executors PROVE job'[o] \in JobType /\ JobFits(job[o])'
  <2>0. job[o] \in JobType /\ JobFits(job[o])
    BY DEF Inv, JobsFit
  <2>1. CASE o = e
    <3>1. job'[o] = [job[e] EXCEPT !.pc = "read", !.m = 1,
                       !.alone = ({x \in Executors \ {e} : job[x].pc \in Executing} = {})]
      BY <2>1 DEF Begin
    <3>2. 1 \in Mappings /\ 1 \in 0..Last
      BY SceneTyped DEF Inv, RowsTyped, Mappings
    <3>3. job'[o] \in JobType
      BY <2>0, <2>1, <3>1, <3>2 DEF JobType, Executing, Trying
    <3>4. JobFits(job[e])'
      BY <2>0, <2>1, <3>1, <3>2 DEF JobFits, JobType, Executing, Trying, Runs, Mappings, Last, Target
    <3> QED BY <2>1, <3>3, <3>4
  <2>2. CASE o # e
    <3>1. job'[o] = job[o] \/ job'[o] = [job[o] EXCEPT !.alone = FALSE]
      BY <2>2 DEF Begin
    <3>2. [job[o] EXCEPT !.alone = FALSE] \in JobType /\ JobFits([job[o] EXCEPT !.alone = FALSE])
      BY <2>0 DEF JobType, JobFits
    <3>3. job'[o] \in JobType /\ JobFits(job'[o])
      BY <2>0, <3>1, <3>2
    <3> QED BY <3>3 DEF JobFits
  <2> QED BY <2>1, <2>2
<1>4. JobsFit'
  BY <1>1, <1>2, <1>3 DEF JobsFit
<1>5. shared' \subseteq Runs
  BY DEF Inv, RestTyped, Begin
<1> QED BY <1>4, <1>5

-----------------------------------------------------------------------------

\* Before the first call no run exists and every executor is idle.
LEMMA InvInit == Init => Inv
<1> SUFFICES ASSUME Init PROVE Inv
  OBVIOUS
<1>1. scene \in Scenes
  BY DEF Init
<1>2. Idle \in JobType /\ JobFits(Idle)
  BY <1>1, IdleFits
<1>3. JobsFit
  BY <1>2 DEF Init, JobsFit
<1>4. Empty \in Remote
  BY NoValuesTyped
<1>5. scene.vault \in [Mappings -> Snapshot]
  BY <1>1, SceneTyped
<1>6. RestTyped
  <2>1. remote \in [Targets -> Remote]
    BY <1>4 DEF Init
  <2>2. source \in [Mappings -> Snapshot]
    BY <1>5 DEF Init
  <2>3. entitled \in BOOLEAN /\ shared \subseteq Runs /\ lost \subseteq Runs
    BY DEF Init
  <2>4. changes \in 0..MaxChanges /\ faults \in 0..MaxFaults
    BY SyncAssumption DEF Init
  <2> QED BY <2>1, <2>2, <2>3, <2>4 DEF RestTyped
<1>7. RowsTyped /\ RunsFit
  BY <1>1 DEF Init, RowsTyped, RunsFit, Status
<1> QED BY <1>3, <1>6, <1>7 DEF Inv

\* What a faulty step does to the count of faults.
LEMMA FaultTyped ==
  ASSUME Inv, \/ UNCHANGED faults
              \/ \E k \in {"throw", "reply", "list", "db", "crash"} : Fault(k)
  PROVE  faults' \in 0..MaxFaults
BY SyncAssumption DEF Inv, RestTyped, Fault

\* The steps that take no row: from one label to another.
LEMMA MovesKeep ==
  ASSUME Inv, NEW e \in Executors,
         StartPass(e) \/ PickRun(e) \/ QueryFails(e) \/ Request(e) \/ Tell(e) \/ Throw(e)
         \/ CatchFails(e) \/ Crash(e)
  PROVE  Inv'
<1>0. job[e] \in JobType /\ JobFits(job[e])
  BY DEF Inv, JobsFit
<1>1. Idle \in JobType /\ JobFits(Idle)
  BY IdleFits DEF Inv, RowsTyped
<1>2. Left(e) \in JobType /\ JobFits(Left(e))
  BY LeftFits
<1>3. CASE StartPass(e)
  <2> DEFINE f == [Idle EXCEPT !.pc = "pick", !.list = {r \in Runs : row[r] = "pending"}]
  <2>1. f \in JobType /\ JobFits(f)
    BY <1>1 DEF JobType, JobFits, Executing, Trying, Idle
  <2>2. RestTyped' /\ UNCHANGED pushed
    BY <1>3 DEF Inv, RestTyped, StartPass, Snapshot, Remote, Mappings, Targets, Last, Target, Runs
  <2> QED BY <1>3, <2>1, <2>2, Move DEF StartPass, Inv, RowsTyped
<1>4. CASE PickRun(e)
  <2>1. PICK r \in job[e].list :
          Goto(e, [job[e] EXCEPT !.pc = IF entitled THEN "claim" ELSE "refuse",
                                 !.run = r, !.list = @ \ {r}])
    BY <1>4 DEF PickRun
  <2> DEFINE f == [job[e] EXCEPT !.pc = IF entitled THEN "claim" ELSE "refuse",
                                 !.run = r, !.list = @ \ {r}]
  <2>2. r \in Runs /\ r \in Nat
    BY <1>0, SceneTyped DEF JobType, Runs, Inv, RowsTyped
  <2>3. f \in JobType
    BY <1>0, <2>2 DEF JobType
  <2>4. JobFits(f)
    BY <1>0, <2>1, <2>2 DEF JobType, JobFits, Executing, Trying
  <2>5. RestTyped' /\ UNCHANGED pushed
    BY <1>4 DEF Inv, RestTyped, PickRun, Snapshot, Remote, Mappings, Targets, Last, Target, Runs
  <2> HIDE DEF f
  <2>6. Goto(e, f)
    BY <2>1 DEF f
  <2> QED BY <1>4, <2>3, <2>4, <2>5, <2>6, Move DEF PickRun, Inv, RowsTyped
<1>5. CASE QueryFails(e)
  <2>1. RestTyped' /\ UNCHANGED pushed
    BY <1>5, FaultTyped DEF Inv, RestTyped, QueryFails, Snapshot, Remote, Mappings, Targets, Last, Target, Runs
  <2> QED BY <1>1, <1>5, <2>1, Move DEF QueryFails, Inv, RowsTyped
<1>6. CASE Request(e)
  <2> DEFINE f == [job[e] EXCEPT !.pc = "claim"]
  <2>1. f \in JobType /\ JobFits(f)
    BY <1>0, <1>6 DEF JobType, JobFits, Executing, Trying, Request
  <2>2. RestTyped' /\ UNCHANGED pushed
    BY <1>6, FaultTyped DEF Inv, RestTyped, Request, Snapshot, Remote, Mappings, Targets, Last, Target, Runs
  <2>3. Goto(e, f) \/ Goto(e, Idle)
    BY <1>6 DEF Request
  <2> HIDE DEF f
  <2> QED BY <1>1, <1>6, <2>1, <2>2, <2>3, Move DEF Request, Inv, RowsTyped
<1>7. CASE Tell(e)
  <2>1. RestTyped' /\ UNCHANGED pushed
    BY <1>7 DEF Inv, RestTyped, Tell, Snapshot, Remote, Mappings, Targets, Last, Target, Runs
  <2> QED BY <1>2, <1>7, <2>1, Move DEF Tell, Inv, RowsTyped
<1>8. CASE Throw(e)
  <2> DEFINE f == [job[e] EXCEPT !.pc = "catch"]
  <2>1. f \in JobType /\ JobFits(f)
    BY <1>0, <1>8 DEF JobType, JobFits, Executing, Trying, Throw
  <2>2. RestTyped' /\ UNCHANGED pushed
    BY <1>8 DEF Inv, RestTyped, Throw, Snapshot, Remote, Mappings, Targets, Last, Target, Runs
  <2> QED BY <1>8, <2>1, <2>2, Move DEF Throw, Inv, RowsTyped
<1>9. CASE CatchFails(e)
  <2>1. job[e].run \in Runs
    BY <1>0, <1>9 DEF JobFits, CatchFails
  <2>2. RestTyped' /\ UNCHANGED pushed
    BY <1>9, <2>1, FaultTyped DEF Inv, RestTyped, CatchFails, Snapshot, Remote, Mappings, Targets, Last, Target, Runs
  <2> QED BY <1>1, <1>9, <2>2, Move DEF CatchFails, Inv, RowsTyped
<1>10. CASE Crash(e)
  <2>1. job[e].pc \in Executing => job[e].run \in Runs
    BY <1>0 DEF JobFits, Executing, Trying
  <2>2. RestTyped' /\ UNCHANGED pushed
    BY <1>10, <2>1, FaultTyped DEF Inv, RestTyped, Crash, Snapshot, Remote, Mappings, Targets, Last, Target, Runs
  <2> QED BY <1>1, <1>10, <2>2, Move DEF Crash, Inv, RowsTyped
<1> QED BY <1>3, <1>4, <1>5, <1>6, <1>7, <1>8, <1>9, <1>10

\* What is read from the vault and what is written to the provider.
LEMMA SnapshotsTyped ==
  ASSUME Inv, NEW m \in Mappings
  PROVE  /\ source[m] \in Snapshot /\ Target[m] \in Targets /\ remote[Target[m]] \in Remote
         /\ \A dropped \in SUBSET Keys :
              [k \in Keys |-> IF k \in dropped THEN Absent ELSE source[m][k]] \in Snapshot
         /\ \A k \in Keys : Name(m, k) \in Names
         /\ \A s, t \in Remote : Overlay(s, t) \in Remote
<1>1. source[m] \in Snapshot
  BY DEF Inv, RestTyped
<1>2. Target[m] \in Targets
  BY SceneTyped DEF Inv, RowsTyped
<1>3. remote[Target[m]] \in Remote
  BY <1>2 DEF Inv, RestTyped
<1>4. \A dropped \in SUBSET Keys :
        [k \in Keys |-> IF k \in dropped THEN Absent ELSE source[m][k]] \in Snapshot
  BY <1>1 DEF Snapshot
<1>5. \A s, t \in Remote : Overlay(s, t) \in Remote
  BY DEF Remote, Overlay
<1>6. \A k \in Keys : Name(m, k) \in Names
  BY SceneTyped DEF Inv, RowsTyped
<1> QED BY <1>1, <1>2, <1>3, <1>4, <1>5, <1>6

\* What a call with all items of a mapping may leave, and which of them it dropped.
LEMMA SetTyped ==
  ASSUME Inv, NEW m \in Mappings, NEW t, ~Itemwise, NEW old \in Remote, NEW fetched \in Remote,
         NEW items, NEW new \in Named(m, items), NEW set \in SetOf(t, old, fetched, new)
  PROVE  set \in Remote /\ new \in Remote /\ Missing(m, items, new, set) \subseteq Mappings \X Keys
<1>1. new \in Remote BY DEF Named
<1>2. scene.style \in {"patch", "graphql", "replace", "group", "spec"}
  BY SceneTyped DEF Itemwise, Inv, RowsTyped
<1>3. Overlay(old, new) \in Remote /\ Overlay(fetched, new) \in Remote
  BY <1>1, SnapshotsTyped
<1>4. set \in {Overlay(old, new), Overlay(fetched, new), old, fetched, new}
  BY <1>2 DEF SetOf
<1>5. Missing(m, items, new, set) \subseteq Mappings \X Keys BY DEF Missing, Present
<1> QED BY <1>1, <1>3, <1>4, <1>5

\* A job in its mapping goes on to the next one, or concludes.
LEMMA AfterMappingFits ==
  ASSUME Inv, NEW e \in Executors, job[e].pc \in {"read", "get", "push"}, NEW f \in JobType,
         f.run = job[e].run, f.list = job[e].list, f.m = job[e].m
  PROVE  /\ AfterMapping(f) \in JobType /\ JobFits(AfterMapping(f))
         /\ \A k \in Keys : AfterItem(f, k) \in JobType
         /\ f.pc \in {"read", "get", "push"} => \A k \in Keys : JobFits(AfterItem(f, k))
<1>0. job[e] \in JobType /\ JobFits(job[e])
  BY DEF Inv, JobsFit
<1>1. f.m \in Mappings /\ f.m \in Nat /\ Last \in Nat
  BY <1>0, SceneTyped DEF JobFits, Inv, RowsTyped, Mappings
<1>2. ASSUME NEW g \in JobType, g.run = job[e].run, g.list = job[e].list, g.m = job[e].m
      PROVE  AfterMapping(g) \in JobType /\ JobFits(AfterMapping(g))
  <2>1. CASE g.m < Last
    <3>1. AfterMapping(g) = [g EXCEPT !.pc = "read", !.m = g.m + 1]
      BY <2>1 DEF AfterMapping
    <3>2. g.m + 1 \in Mappings /\ g.m + 1 \in 0..Last
      BY <1>1, <1>2, <2>1 DEF Mappings
    <3>3. AfterMapping(g) \in JobType
      BY <1>2, <3>1, <3>2 DEF JobType, Executing, Trying
    <3>4. JobFits(AfterMapping(g))
      BY <1>0, <1>2, <3>1, <3>2 DEF JobType, JobFits, Executing, Trying
    <3> QED BY <3>3, <3>4
  <2>2. CASE ~(g.m < Last)
    <3>1. AfterMapping(g) = [g EXCEPT !.pc = "conclude"]
      BY <2>2 DEF AfterMapping
    <3> QED BY <1>0, <1>2, <3>1 DEF JobType, JobFits, Executing, Trying
  <2> QED BY <2>1, <2>2
<1>3. ASSUME NEW k \in Keys
      PROVE  /\ AfterItem(f, k) \in JobType
             /\ f.pc \in {"read", "get", "push"} => JobFits(AfterItem(f, k))
  <2>1. CASE f.left = {k}
    <3> DEFINE g == [f EXCEPT !.left = {}]
    <3>1. g \in JobType /\ g.run = job[e].run /\ g.list = job[e].list /\ g.m = job[e].m
      BY DEF JobType
    <3>2. AfterItem(f, k) = AfterMapping(g)
      BY <2>1 DEF AfterItem
    <3> QED BY <1>2, <3>1, <3>2
  <2>2. CASE f.left # {k}
    <3>1. AfterItem(f, k) = [f EXCEPT !.left = f.left \ {k}]
      BY <2>2 DEF AfterItem
    <3> QED BY <1>0, <1>1, <3>1 DEF JobType, JobFits, Executing, Trying
  <2> QED BY <2>1, <2>2
<1> QED BY <1>2, <1>3

\* The scene is fixed, and with it what is counted by it.
LEMMA SceneFixed ==
  ASSUME scene' = scene
  PROVE  Runs' = Runs /\ Mappings' = Mappings /\ Targets' = Targets /\ Last' = Last
BY DEF Runs, Mappings, Targets, Last, Target

\* The steps that read the vault and write to the provider: for runs that
\* have left pending and were not turned away.
LEMMA PushKeeps ==
  ASSUME Inv, NEW e \in Executors, Read(e) \/ Get(e) \/ PushItem(e) \/ PushSet(e)
  PROVE  Inv'
<1>0. job[e] \in JobType /\ JobFits(job[e])
  BY DEF Inv, JobsFit
<1>1. job[e].pc \in {"read", "get", "push"}
  BY DEF Read, Get, PushItem, PushSet
<1>2. /\ job[e].m \in Mappings /\ job[e].run \in Runs
      /\ row[job[e].run] \notin {"none", "pending"} /\ reason[job[e].run] # "entitlement"
  BY <1>0, <1>1 DEF JobFits, Executing, Trying
<1>3. /\ pushed \cup {job[e].run} \subseteq Runs
      /\ \A r \in (pushed \cup {job[e].run}) \ pushed :
           row[r] \notin {"none", "pending"} /\ reason[r] # "entitlement"
  BY <1>2 DEF Inv, RowsTyped
<1>4. [job[e] EXCEPT !.pc = "catch"] \in JobType /\ JobFits([job[e] EXCEPT !.pc = "catch"])
  BY <1>0, <1>1 DEF JobType, JobFits, Executing, Trying
<1>5. CASE Read(e)
  <2>1. PICK dropped \in SUBSET Present(source[job[e].m]) :
          LET found == [k \in Keys |-> IF k \in dropped THEN Absent ELSE source[job[e].m][k]]
              j == [job[e] EXCEPT !.items[job[e].m] = found, !.left = Present(found)]
          IN /\ IF dropped = {} THEN UNCHANGED faults ELSE Fault("list")
             /\ Goto(e, IF Itemwise /\ j.left = {} THEN AfterMapping(j)
                        ELSE [j EXCEPT !.pc = IF scene.style \in {"group", "spec"} THEN "get" ELSE "push"])
    BY <1>5 DEF Read
  <2> DEFINE found == [k \in Keys |-> IF k \in dropped THEN Absent ELSE source[job[e].m][k]]
             j == [job[e] EXCEPT !.items[job[e].m] = found, !.left = Present(found)]
  <2>2. found \in Snapshot
    BY <1>2, SnapshotsTyped DEF Present
  <2>3. /\ j \in JobType /\ j.run = job[e].run /\ j.list = job[e].list /\ j.m = job[e].m
    <3> HIDE DEF found
    <3> QED BY <1>0, <1>2, <2>2 DEF JobType, Present
  <2> HIDE DEF j
  <2>4. AfterMapping(j) \in JobType /\ JobFits(AfterMapping(j))
    BY <1>1, <2>3, AfterMappingFits
  <2>5. \A l \in {"get", "push"} : [j EXCEPT !.pc = l] \in JobType /\ JobFits([j EXCEPT !.pc = l])
    BY <1>0, <1>1, <2>3 DEF JobType, JobFits, Executing, Trying
  <2>6. RestTyped'
    <3>1. faults' \in 0..MaxFaults
      BY <2>1, FaultTyped
    <3>2. UNCHANGED <<scene, entitled, source, remote, shared, lost, changes>>
      BY <1>5 DEF Read
    <3>3. Mappings' = Mappings /\ Targets' = Targets /\ Snapshot' = Snapshot /\ Remote' = Remote /\ Runs' = Runs
      BY <3>2 DEF Mappings, Last, Targets, Target, Snapshot, Remote, Runs
    <3> QED BY <3>1, <3>2, <3>3 DEF Inv, RestTyped
  <2>7. Goto(e, AfterMapping(j)) \/ \E l \in {"get", "push"} : Goto(e, [j EXCEPT !.pc = l])
    BY <2>1 DEF j
  <2>8. UNCHANGED <<row, reason, scene, pushed>> /\ pushed \subseteq Runs
    BY <1>5 DEF Read, Inv, RowsTyped
  <2> QED BY <2>4, <2>5, <2>6, <2>7, <2>8, Move
<1>6. CASE Get(e)
  <2> DEFINE f == [job[e] EXCEPT !.pc = "push", !.group = remote[Target[job[e].m]]]
  <2>1. remote[Target[job[e].m]] \in Remote
    BY <1>2, SnapshotsTyped
  <2>2. f \in JobType /\ JobFits(f)
    BY <1>0, <1>1, <2>1 DEF JobType, JobFits, Executing, Trying
  <2>3. RestTyped' /\ UNCHANGED pushed
    BY <1>6 DEF Inv, RestTyped, Get, Snapshot, Remote, Mappings, Targets, Last, Target, Runs
  <2> QED BY <1>6, <2>2, <2>3, Move DEF Get, Inv, RowsTyped
<1>7. CASE PushItem(e)
  <2> DEFINE m == job[e].m
             t == Target[m]
  <2>0. PICK k \in job[e].left : \E v \in WriteOf(remote[t][Name(m, k)], job[e].items[m][k]) :
          /\ remote' = [remote EXCEPT ![t][Name(m, k)] = v]
          /\ Answered(e, AfterItem([job[e] EXCEPT !.ignored =
                IF v = job[e].items[m][k] THEN @ ELSE @ \cup {<<m, k>>}], k))
    BY <1>7 DEF PushItem
  <2>1. PICK v \in WriteOf(remote[t][Name(m, k)], job[e].items[m][k]) :
          /\ remote' = [remote EXCEPT ![t][Name(m, k)] = v]
          /\ Answered(e, AfterItem([job[e] EXCEPT !.ignored =
                IF v = job[e].items[m][k] THEN @ ELSE @ \cup {<<m, k>>}], k))
    BY <2>0
  <2> DEFINE f == [job[e] EXCEPT !.ignored =
                     IF v = job[e].items[m][k] THEN @ ELSE @ \cup {<<m, k>>}]
  <2>2. k \in Keys
    BY <1>0 DEF JobType
  <2>3. /\ f \in JobType /\ f.run = job[e].run /\ f.list = job[e].list /\ f.m = job[e].m
        /\ f.pc = job[e].pc
    BY <1>0, <1>2, <2>2 DEF JobType
  <2>4. /\ job[e].items[m][k] \in Values \cup {Absent} /\ Name(m, k) \in Names
        /\ remote[t][Name(m, k)] \in Values \cup {Absent}
    BY <1>0, <1>2, <2>2, SnapshotsTyped DEF JobType, Snapshot, Remote
  <2>5. v \in Values \cup {Absent}
    BY <1>7, <2>1, <2>4 DEF PushItem, Itemwise, WriteOf, Upsert, PutOrMissing, CreateOnly
  <2>6. remote' \in [Targets -> Remote]
    <3>1. PICK n \in Names : n = Name(m, k) BY <2>4
    <3>2. remote' = [remote EXCEPT ![t] = [remote[t] EXCEPT ![n] = v]] BY <2>1, <3>1
    <3>3. remote[t] \in Remote /\ t \in Targets /\ remote \in [Targets -> Remote]
      BY <1>2, SnapshotsTyped DEF Inv, RestTyped
    <3>4. [remote[t] EXCEPT ![n] = v] \in Remote BY <2>5, <3>3 DEF Remote
    <3> QED BY <3>2, <3>3, <3>4
  <2> DEFINE g == AfterItem(f, k)
  <2>7. g \in JobType /\ JobFits(g)
    <3> HIDE DEF f
    <3> QED BY <1>1, <2>2, <2>3, AfterMappingFits
  <2>8. UNCHANGED faults \/ Fault("reply")
    BY <2>1 DEF Answered
  <2>9. RestTyped'
    <3>1. UNCHANGED <<entitled, source, scene, shared, lost, changes>>
      BY <1>7 DEF PushItem
    <3>2. Runs' = Runs /\ Mappings' = Mappings /\ Targets' = Targets
      BY <3>1, SceneFixed
    <3>3. faults' \in 0..MaxFaults
      BY <2>8, FaultTyped
    <3> QED BY <2>6, <3>1, <3>2, <3>3 DEF Inv, RestTyped
  <2>10. Goto(e, g) \/ Goto(e, [job[e] EXCEPT !.pc = "catch"])
    BY <2>1 DEF Answered
  <2>11. UNCHANGED <<row, reason, scene>> /\ pushed' = pushed \cup {job[e].run}
    BY <1>7 DEF PushItem
  <2> HIDE DEF g
  <2> QED BY <1>3, <1>4, <2>7, <2>9, <2>10, <2>11, Move
<1>8. CASE PushSet(e)
  <2> DEFINE m == job[e].m
             t == Target[m]
  <2>1. PICK new \in Named(m, job[e].items[m]) :
          \E set \in SetOf(t, remote[t], job[e].group, new) :
            /\ remote' = [remote EXCEPT ![t] = set]
            /\ Answered(e, AfterMapping([job[e] EXCEPT !.left = {}, !.group = Empty,
                               !.ignored = @ \cup Missing(m, job[e].items[m], new, set)]))
    BY <1>8 DEF PushSet
  <2>2. PICK set \in SetOf(t, remote[t], job[e].group, new) :
            /\ remote' = [remote EXCEPT ![t] = set]
            /\ Answered(e, AfterMapping([job[e] EXCEPT !.left = {}, !.group = Empty,
                               !.ignored = @ \cup Missing(m, job[e].items[m], new, set)]))
    BY <2>1
  <2>3. remote[t] \in Remote /\ t \in Targets /\ job[e].group \in Remote /\ ~Itemwise
    BY <1>0, <1>2, <1>8, SnapshotsTyped DEF JobType, PushSet
  <2>4. set \in Remote /\ Missing(m, job[e].items[m], new, set) \subseteq Mappings \X Keys
    BY <1>2, <2>3, SetTyped
  <2>5. PICK f \in JobType : /\ Answered(e, AfterMapping(f)) /\ f.run = job[e].run
                             /\ f.list = job[e].list /\ f.m = job[e].m
    <3>1. PICK more \in SUBSET (Mappings \X Keys) :
            more = job[e].ignored \cup Missing(m, job[e].items[m], new, set)
      BY <1>0, <2>4 DEF JobType
    <3>2. LET f == [job[e] EXCEPT !.left = {}, !.group = Empty, !.ignored = more] IN
          f \in JobType /\ f.run = job[e].run /\ f.list = job[e].list /\ f.m = job[e].m
      BY <1>0, NoValuesTyped DEF JobType
    <3> QED BY <2>2, <3>1, <3>2
  <2>5a. AfterMapping(f) \in JobType /\ JobFits(AfterMapping(f))
    BY <1>1, <2>5, AfterMappingFits
  <2>6. remote' \in [Targets -> Remote]
    BY <2>2, <2>3, <2>4 DEF Inv, RestTyped
  <2>7. UNCHANGED faults \/ Fault("reply")
    BY <2>2 DEF Answered
  <2>8. RestTyped'
    <3>1. UNCHANGED <<entitled, source, scene, shared, lost, changes>>
      BY <1>8 DEF PushSet
    <3>2. Runs' = Runs /\ Mappings' = Mappings /\ Targets' = Targets
      BY <3>1, SceneFixed
    <3>3. faults' \in 0..MaxFaults
      BY <2>7, FaultTyped
    <3> QED BY <2>6, <3>1, <3>2, <3>3 DEF Inv, RestTyped
  <2>9. Goto(e, AfterMapping(f)) \/ Goto(e, [job[e] EXCEPT !.pc = "catch"])
    BY <2>5 DEF Answered
  <2>10. UNCHANGED <<row, reason, scene>> /\ pushed' = pushed \cup {job[e].run}
    BY <1>8 DEF PushSet
  <2> QED BY <1>3, <1>4, <2>5a, <2>8, <2>9, <2>10, Move
<1> QED BY <1>5, <1>6, <1>7, <1>8

-----------------------------------------------------------------------------

\* The steps that write the row of a run, and the claim that finds it taken.
LEMMA RowStepsKeep ==
  ASSUME Inv, NEW e \in Executors,
         Refuse(e) \/ Call(e) \/ Claim(e) \/ Look(e) \/ Conclude(e) \/ Catch(e)
  PROVE  Inv'
<1>0. job[e] \in JobType /\ JobFits(job[e])
  BY DEF Inv, JobsFit
<1>1. Idle \in JobType /\ JobFits(Idle) /\ Left(e) \in JobType /\ JobFits(Left(e))
  BY IdleFits, LeftFits DEF Inv, RowsTyped
<1>2. scene' = scene
  BY DEF Refuse, Call, Claim, Look, Conclude, Catch
<1>3. Runs' = Runs /\ Mappings' = Mappings /\ Targets' = Targets /\ JobType' = JobType
  BY <1>2, SceneFixed DEF JobType
<1>4. faults' \in 0..MaxFaults
  BY FaultTyped DEF Refuse, Call, Claim, Look, Conclude, Catch
<1>5. UNCHANGED <<entitled, source, remote, changes>> /\ lost' \subseteq Runs
  <2>1. UNCHANGED <<entitled, source, remote, changes>>
    BY DEF Refuse, Call, Claim, Look, Conclude, Catch
  <2>2. lost' = lost \/ (job[e].pc = "claim" /\ lost' = lost \cup {job[e].run})
    BY DEF Refuse, Call, Claim, Look, Conclude, Catch
  <2>3. job[e].pc = "claim" => job[e].run \in Runs BY <1>0 DEF JobFits
  <2> QED BY <2>1, <2>2, <2>3 DEF Inv, RestTyped
<1>6. shared' \subseteq Runs => RestTyped'
  BY <1>3, <1>4, <1>5 DEF Inv, RestTyped
<1>7. ASSUME job[e].pc \notin {"idle", "pick"}
      PROVE  job[e].run \in Runs /\ row[job[e].run] \in Status \ {"none"}
  BY <1>0, <1>7 DEF JobFits, Inv, RowsTyped
<1>8. CASE Refuse(e)
  <2>1. RestTyped' /\ UNCHANGED <<scene, pushed>>
    BY <1>6, <1>8 DEF Refuse, Inv, RestTyped
  <2>2. Goto(e, Left(e)) \/ Goto(e, Idle)
    BY <1>8 DEF Refuse
  <2>3. job[e].run \in Runs
    BY <1>7, <1>8 DEF Refuse
  <2>4. CASE row[job[e].run] = "pending"
    <3>1. RowChanges(job[e].run, "failed", "entitlement")
      BY <1>8, <2>4 DEF Refuse, RowChanges
    <3>2. \A j \in JobType : JobFits(j) => JobFits(j)'
      BY <1>2, <2>3, <3>1, FitsStay DEF Status
    <3>3. PICK f \in JobType : JobFits(f) /\ Goto(e, f)
      BY <1>1, <2>2
    <3>4. JobFits(f)'
      BY <3>2, <3>3
    <3> QED BY <2>1, <2>3, <3>1, <3>3, <3>4, RowMove DEF Status
  <2>5. CASE row[job[e].run] # "pending"
    <3>1. UNCHANGED <<row, reason>>
      BY <1>8, <2>5 DEF Refuse
    <3> QED BY <1>1, <2>1, <2>2, <3>1, Move DEF Inv, RowsTyped
  <2> QED BY <2>4, <2>5
<1>9. CASE Call(e)
  <2>1. PICK r \in Runs : /\ row[r] = "none"
                          /\ row' = [row EXCEPT ![r] = "pending"]
                          /\ Goto(e, [Idle EXCEPT !.pc = "request", !.run = r])
    BY <1>9 DEF Call
  <2>2. RestTyped' /\ UNCHANGED <<scene, pushed, reason>>
    BY <1>6, <1>9 DEF Call, Inv, RestTyped
  <2>3. reason[r] \in {"none", "failure"}
    BY <2>1 DEF Inv, RowsTyped, RunsFit
  <2>4. RowChanges(r, "pending", reason[r])
    BY <2>1, <2>2, <2>3 DEF RowChanges, Inv, RowsTyped
  <2>5. [Idle EXCEPT !.pc = "request", !.run = r] \in JobType
    <3>1. r \in Nat
      BY SceneTyped DEF Inv, RowsTyped, Runs
    <3> QED BY <1>1, <3>1 DEF JobType
  <2>6. PICK f \in JobType : f.pc = "request" /\ f.run = r /\ f.list = {} /\ Goto(e, f)
    BY <2>1, <2>5 DEF Idle
  <2>7. row'[r] = "pending"
    BY <2>1 DEF Inv, RowsTyped
  <2>8. JobFits(f)'
    BY <1>3, <2>6, <2>7 DEF JobFits, Executing, Trying
  <2>9. PICK w \in {"none", "entitlement", "failure"} : RowChanges(r, "pending", w)
    BY <2>3, <2>4
  <2> QED BY <2>2, <2>6, <2>8, <2>9, RowMove DEF Status
<1>10. CASE Claim(e)
  <2>1. job[e].run \in Runs /\ row[job[e].run] # "none" /\ job[e].pc = "claim"
    BY <1>7, <1>10 DEF Claim
  <2>2. CASE row[job[e].run] = "pending" /\ Begin(e)
    <3>1. RowChanges(job[e].run, "running", "none") /\ Begin(e)
      BY <1>10, <2>2 DEF Claim, RowChanges
    <3>2. \A j \in JobType : JobFits(j) => JobFits(j)'
      BY <1>2, <2>1, <3>1, FitsStay DEF Status
    <3>3. row'[job[e].run] = "running" /\ reason'[job[e].run] = "none"
      BY <2>1, <3>1 DEF RowChanges, Inv, RowsTyped
    <3>4. JobsFit' /\ shared' \subseteq Runs
      BY <1>2, <2>1, <3>1, <3>2, <3>3, BeginFits
    <3>5. RowsTyped' /\ UNCHANGED pushed
      BY <1>2, <1>3, <1>10, <3>1 DEF Claim, RowChanges, Inv, RowsTyped, Status
    <3>6. RunsFit'
      BY <1>3, <2>1, <2>2, <3>1, <3>5 DEF RowChanges, Inv, RowsTyped, RunsFit
    <3> QED BY <1>6, <3>4, <3>5, <3>6 DEF Inv
  <2>2a. CASE row[job[e].run] = "pending" /\ ~Begin(e)
    <3>0. /\ row' = [row EXCEPT ![job[e].run] = "running"]
          /\ reason' = [reason EXCEPT ![job[e].run] = "none"]
          /\ Goto(e, Idle) /\ UNCHANGED <<scene, pushed, shared>>
      BY <1>10, <2>2a DEF Claim
    <3>1. RowChanges(job[e].run, "running", "none")
      BY <3>0 DEF RowChanges
    <3>2. \A j \in JobType : JobFits(j) => JobFits(j)'
      BY <1>2, <2>1, <3>1, FitsStay DEF Status
    <3>3. PICK f \in JobType : JobFits(f) /\ Goto(e, f)
      BY <1>1, <3>0
    <3>4. JobFits(f)' BY <3>2, <3>3
    <3>5. RestTyped'
      BY <1>6, <3>0 DEF Inv, RestTyped
    <3> QED BY <2>1, <3>0, <3>1, <3>3, <3>4, <3>5, RowMove DEF Status
  <2>3. CASE row[job[e].run] # "pending"
    <3> DEFINE f == [job[e] EXCEPT !.pc = "look"]
    <3>1. Goto(e, f) /\ UNCHANGED <<row, reason, shared, pushed>>
      BY <1>10, <2>3 DEF Claim
    <3>2. f \in JobType /\ JobFits(f)
      BY <1>0, <2>1, <2>3 DEF JobType, JobFits, Executing, Trying
    <3>3. RestTyped'
      BY <1>6, <3>1 DEF Inv, RestTyped
    <3> QED BY <1>2, <3>1, <3>2, <3>3, Move DEF Inv, RowsTyped
  <2> QED BY <2>2, <2>2a, <2>3
<1>11. CASE Look(e)
  <2>1. job[e].pc = "look" /\ job[e].run \in Runs /\ row[job[e].run] \notin {"none", "pending"}
    BY <1>0, <1>11 DEF Look, JobFits
  <2>2. UNCHANGED <<row, reason, scene, pushed>>
    BY <1>11 DEF Look
  <2>3. CASE row[job[e].run] \in Finished
    <3>1. Goto(e, Left(e)) /\ UNCHANGED shared
      BY <1>11, <2>3 DEF Look
    <3>2. RestTyped'
      BY <1>6, <3>1 DEF Inv, RestTyped
    <3> QED BY <1>1, <2>2, <3>1, <3>2, Move DEF Inv, RowsTyped
  <2>4. CASE row[job[e].run] \notin Finished
    <3>1. Begin(e)
      BY <1>11, <2>4 DEF Look
    <3>2. reason[job[e].run] # "entitlement"
      BY <2>1, <2>4 DEF Inv, RunsFit, Finished
    <3>3. \A j \in JobType : JobFits(j) => JobFits(j)'
      BY <1>3, <2>2 DEF JobFits
    <3>4. JobsFit' /\ shared' \subseteq Runs
      BY <2>1, <2>2, <3>1, <3>2, <3>3, BeginFits
    <3>5. RowsTyped' /\ RunsFit'
      BY <1>3, <2>2 DEF Inv, RowsTyped, RunsFit
    <3> QED BY <1>6, <3>4, <3>5 DEF Inv
  <2> QED BY <2>3, <2>4
<1>12. CASE Conclude(e)
  <2>1. /\ RowChanges(job[e].run, "succeeded", "none")
        /\ Goto(e, [job[e] EXCEPT !.pc = "tell"])
    BY <1>12 DEF Conclude, RowChanges
  <2>2. job[e].pc = "conclude" /\ job[e].run \in Runs
    BY <1>7, <1>12 DEF Conclude
  <2>3. [job[e] EXCEPT !.pc = "tell"] \in JobType /\ JobFits([job[e] EXCEPT !.pc = "tell"])
    BY <1>0, <2>2 DEF JobType, JobFits, Executing, Trying
  <2>4. RestTyped' /\ UNCHANGED <<scene, pushed>>
    BY <1>6, <1>12 DEF Conclude, Inv, RestTyped
  <2>5. PICK f \in JobType : JobFits(f) /\ Goto(e, f)
    BY <2>1, <2>3
  <2>6. \A j \in JobType : JobFits(j) => JobFits(j)'
    BY <1>2, <2>1, <2>2, FitsStay DEF Status
  <2>7. JobFits(f)'
    BY <2>5, <2>6
  <2> QED BY <2>1, <2>2, <2>4, <2>5, <2>7, RowMove DEF Status
<1>13. CASE Catch(e)
  <2>1. RowChanges(job[e].run, "failed", "failure")
    BY <1>13 DEF Catch, RowChanges
  <2>2. PICK f \in JobType : JobFits(f) /\ Goto(e, f)
    BY <1>1, <1>13 DEF Catch
  <2>3. job[e].run \in Runs
    BY <1>7, <1>13 DEF Catch
  <2>4. RestTyped' /\ UNCHANGED <<scene, pushed>>
    BY <1>6, <1>13 DEF Catch, Inv, RestTyped
  <2>5. \A j \in JobType : JobFits(j) => JobFits(j)'
    BY <1>2, <2>1, <2>3, FitsStay DEF Status
  <2>6. JobFits(f)'
    BY <2>2, <2>5
  <2> QED BY <2>1, <2>2, <2>3, <2>4, <2>6, RowMove DEF Status
<1> QED BY <1>8, <1>9, <1>10, <1>11, <1>12, <1>13

\* Nobody at work: the vault or the entitlement changes.
LEMMA WorldKeeps ==
  ASSUME Inv, ChangeVault \/ ChangeEntitlement \/ UNCHANGED vars
  PROVE  Inv'
<1>1. UNCHANGED <<row, reason, remote, scene, job, pushed, shared, lost>>
  BY DEF ChangeVault, ChangeEntitlement, vars
<1>2. Runs' = Runs /\ Mappings' = Mappings /\ Targets' = Targets /\ JobType' = JobType
  BY <1>1, SceneFixed DEF JobType
<1>3. source' \in [Mappings -> Snapshot]
  <2>1. CASE ChangeVault
    <3>1. PICK m \in Mappings, k \in scene.keys, v \in Values \cup {Absent} :
            source' = [source EXCEPT ![m][k] = v]
      BY <2>1 DEF ChangeVault
    <3>2. k \in Keys BY SceneTyped DEF Inv, RowsTyped
    <3> QED BY <3>1, <3>2 DEF Inv, RestTyped, Snapshot
  <2>2. CASE ChangeEntitlement \/ UNCHANGED vars
    BY <2>2 DEF Inv, RestTyped, ChangeEntitlement, vars
  <2> QED BY <2>1, <2>2
<1>4. entitled' \in BOOLEAN
  BY DEF Inv, RestTyped, ChangeVault, ChangeEntitlement, vars
<1>5. changes' \in 0..MaxChanges /\ faults' \in 0..MaxFaults
  BY SyncAssumption DEF Inv, RestTyped, ChangeVault, ChangeEntitlement, vars
<1>6. RestTyped'
  BY <1>1, <1>2, <1>3, <1>4, <1>5 DEF Inv, RestTyped
<1>7. RowsTyped' /\ RunsFit'
  BY <1>1, <1>2 DEF Inv, RowsTyped, RunsFit
<1>8. JobsFit'
  BY <1>1, <1>2 DEF Inv, JobsFit, JobFits
<1> QED BY <1>6, <1>7, <1>8 DEF Inv

\* Every step keeps the invariant.
LEMMA InvNext == Inv /\ [Next]_vars => Inv'
<1> SUFFICES ASSUME Inv, [Next]_vars PROVE Inv'
  OBVIOUS
<1>1. ASSUME NEW e \in Executors, Advance(e) PROVE Inv'
  BY <1>1, MovesKeep, PushKeeps, RowStepsKeep DEF Advance
<1>2. ASSUME NEW e \in Executors,
             Call(e) \/ Throw(e) \/ QueryFails(e) \/ CatchFails(e) \/ Crash(e)
      PROVE  Inv'
  BY <1>2, MovesKeep, RowStepsKeep
<1> QED BY <1>1, <1>2, WorldKeeps DEF Next

\* The invariant holds of every behaviour.
LEMMA InvAlways == Spec => []Inv
BY InvInit, InvNext, PTL DEF Spec

\* Types: whatever the number of executors, runs and mappings, a job works on
\* a mapping that exists and for a run that was created.
THEOREM TypeCorrect == Spec => []TypeOK
<1>1. Inv => TypeOK
  <2> SUFFICES ASSUME Inv, NEW e \in Executors
               PROVE  /\ job[e].pc \in {"idle", "pick", "refuse", "request", "claim", "look"} \cup Executing
                      /\ job[e].list \subseteq Runs /\ job[e].left \subseteq Keys
                      /\ job[e].m \in 0..Last
                      /\ job[e].items \in [Mappings -> Snapshot] /\ job[e].group \in Remote
                      /\ job[e].pc \notin {"idle", "pick"} => row[job[e].run] # "none"
    BY DEF Inv, RowsTyped, RestTyped, TypeOK
  <2> QED BY DEF Inv, JobsFit, JobType, JobFits
<1> QED BY InvAlways, <1>1, PTL

\* A run that a pass turned away for want of the entitlement has written
\* nothing at the provider, however passes, calls, failures and crashes
\* interleave with it.
THEOREM RefusedWritesNothingAlways == Spec => []RefusedWritesNothing
<1>1. Inv => RefusedWritesNothing
  BY DEF Inv, RunsFit, JobsFit, JobFits, RefusedWritesNothing
<1> QED BY InvAlways, <1>1, PTL
-----------------------------------------------------------------------------
(* Verdicts. A run that two executors never executed at one time is        *)
(* running while it is executed, and an execution that no other overlapped *)
(* knows what the provider has.                                            *)

\* Nothing has been read yet.
Fresh(j) == j.items = [m \in Mappings |-> NoValues] /\ j.ignored = {}

\* How far a job is: nothing is read before the try block, and of the mapping
\* at hand only after "read"; the items left to write were read; the plan
\* ends after the last mapping.
Progress(j) ==
  /\ j.pc \notin Executing => Fresh(j)
  /\ j.pc \in {"read", "get", "push"} =>
       \A n \in Mappings : n > j.m \/ (n = j.m /\ j.pc = "read") => j.items[n] = NoValues
  /\ j.pc = "get" => scene.style \in {"group", "spec"}
  /\ j.pc = "push" /\ Itemwise => j.left \subseteq Present(j.items[j.m])
  /\ j.pc = "conclude" => j.m = Last

\* A later mapping of the same target has the name, or replaces the target.
Covered(j, n, k) ==
  \E l \in (n + 1)..Last :
    /\ Target[l] = Target[n]
    /\ (\E y \in Keys : j.items[l][y] # Absent /\ Name(l, y) = Name(n, k)) \/ scene.style = "replace"

\* The provider, having rem, has under the name of key k of mapping n what job j
\* read for a key of that name.
Has(j, rem, n, k) ==
  \E y \in Keys : /\ j.items[n][y] # Absent /\ Name(n, y) = Name(n, k)
                  /\ rem[Target[n]][Name(n, k)] = j.items[n][y]

\* The provider does not have it, and its answer did not tell.
Dropped(j, rem, n, k) ==
  /\ <<n, k>> \in j.ignored /\ MayDrop(Target[n])
  /\ scene.style = "create" => rem[Target[n]][Name(n, k)] # Absent

Delivered(j, rem, n, k) == Has(j, rem, n, k) \/ Covered(j, n, k) \/ Dropped(j, rem, n, k)

\* Every key read for the mappings up to n, but those in left of n itself.
AllDelivered(j, rem, n, left) ==
  \A l \in Mappings, k \in Keys :
    j.items[l][k] # Absent /\ (l < n \/ (l = n /\ k \notin left)) => Delivered(j, rem, l, k)

\* What a job that nobody overlapped knows of the provider.
InForce(j, rem) ==
  j.alone =>
    /\ j.pc \in {"read", "get", "push"} => AllDelivered(j, rem, j.m, Keys)
    /\ j.pc = "push" /\ Itemwise => AllDelivered(j, rem, j.m, j.left)
    /\ j.pc = "push" /\ scene.style \in {"group", "spec"} => j.group = rem[Target[j.m]]
    /\ j.pc = "conclude" => AllDelivered(j, rem, j.m, {})

JobsInForce == \A e \in Executors : Progress(job[e]) /\ InForce(job[e], remote)

AloneIsAlone ==
  \A e, o \in Executors :
    e # o /\ job[e].pc \in Executing /\ job[o].pc \in Executing => ~job[e].alone

\* A run that is executed by one executor only is running until its verdict.
VerdictFits(e) ==
  job[e].pc \in Executing /\ job[e].run \notin shared =>
    /\ \A o \in Executors : o # e /\ job[o].pc \in Executing => job[o].run # job[e].run
    /\ job[e].pc \in {"read", "get", "push", "conclude"} => row[job[e].run] = "running"
    /\ job[e].pc = "tell" => row[job[e].run] = "succeeded"
    /\ job[e].pc = "catch" => row[job[e].run] \in {"running", "succeeded"}

VerdictsFit == \A e \in Executors : VerdictFits(e)

StrongInv == Inv /\ AloneIsAlone /\ JobsInForce /\ VerdictsFit

\* An executor goes on with record f, or leaves its execution.
LEMMA AloneStays ==
  ASSUME StrongInv, NEW e \in Executors, NEW f \in JobType, Goto(e, f),
         f.pc \in Executing => job[e].pc \in Executing /\ f.alone = job[e].alone
  PROVE  AloneIsAlone'
<1>1. \A o \in Executors : job'[o] = IF o = e THEN f ELSE job[o]
  BY DEF StrongInv, Inv, JobsFit, Goto
<1> QED BY <1>1 DEF StrongInv, AloneIsAlone

\* Executions that overlap a new one are not alone, nor is it.
LEMMA AloneBegins ==
  ASSUME StrongInv, NEW e \in Executors, Begin(e), job[e].pc \notin Executing
  PROVE  AloneIsAlone'
<1> DEFINE others == {o \in Executors \ {e} : job[o].pc \in Executing}
<1>1. /\ job'[e] = [job[e] EXCEPT !.pc = "read", !.m = 1, !.alone = (others = {})]
      /\ \A o \in others : job'[o] = [job[o] EXCEPT !.alone = FALSE]
      /\ \A o \in Executors : o # e /\ o \notin others => job'[o] = job[o]
  BY DEF Begin
<1>2. \A o \in Executors : job[o] \in JobType BY DEF StrongInv, Inv, JobsFit
<1>a. \A j \in JobType : [j EXCEPT !.alone = FALSE].alone = FALSE BY DEF JobType
<1>3. \A o \in others : job'[o].alone = FALSE
  <2> SUFFICES ASSUME NEW o \in others PROVE job'[o].alone = FALSE OBVIOUS
  <2>1. job'[o] = [job[o] EXCEPT !.alone = FALSE] /\ job[o] \in JobType BY <1>1, <1>2
  <2> HIDE DEF others
  <2> QED BY <2>1, <1>a
<1>4. others # {} => job'[e].alone = FALSE BY <1>1, <1>2 DEF JobType
<1>5. \A o \in Executors : o # e /\ job'[o].pc \in Executing => o \in others
  BY <1>1
<1>6. \A o \in Executors : o # e /\ job'[o].pc \in Executing => job'[o].alone = FALSE
  BY <1>3, <1>5
<1>7. \A o \in Executors : o # e /\ job'[o].pc \in Executing => job'[e].alone = FALSE
  BY <1>4, <1>5
<1> HIDE DEF others
<1> QED BY <1>6, <1>7 DEF AloneIsAlone

\* While the scene stays, what is said of a job means the same.
LEMMA ForceFixed ==
  ASSUME scene' = scene
  PROVE  /\ \A j \in JobType : Progress(j) => Progress(j)'
         /\ \A j \in JobType, rem \in [Targets -> Remote] : InForce(j, rem) => InForce(j, rem)'
<1>1. Mappings' = Mappings /\ Last' = Last /\ Target' = Target /\ Itemwise' = Itemwise
  BY SceneFixed DEF Target, Itemwise
<1>2. \A j \in JobType : Progress(j) => Progress(j)'
  BY <1>1 DEF Progress, Fresh, Present
<1>3. ASSUME NEW j \in JobType, NEW rem \in [Targets -> Remote], InForce(j, rem)
      PROVE  InForce(j, rem)'
  <2>1. ASSUME NEW n, NEW k PROVE Delivered(j, rem, n, k)' <=> Delivered(j, rem, n, k)
    BY <1>1 DEF Delivered, Covered, Has, Dropped, MayDrop, Name
  <2>2. ASSUME NEW n, NEW left PROVE AllDelivered(j, rem, n, left)' <=> AllDelivered(j, rem, n, left)
    BY <1>1, <2>1 DEF AllDelivered
  <2>3. InForce(j, rem)' <=> InForce(j, rem)
    BY <1>1, <2>2 DEF InForce
  <2> QED BY <1>3, <2>3
<1> QED BY <1>2, <1>3

\* What is known of the record an executor has next is known of the executor.
LEMMA ForceNext ==
  ASSUME NEW o \in Executors, NEW j, NEW rem, j = job'[o], rem = remote',
         Progress(j)', InForce(j, rem)'
  PROVE  (Progress(job[o]) /\ InForce(job[o], remote))'
<1>1. Progress(job[o])' BY DEF Progress, Fresh
<1>2. ASSUME NEW n, NEW k PROVE Delivered(j, rem, n, k)' => Delivered(job[o], remote, n, k)'
  <2>1. Has(j, rem, n, k)' => Has(job[o], remote, n, k)' BY DEF Has, Name
  <2>2. Covered(j, n, k)' => Covered(job[o], n, k)' BY DEF Covered, Name
  <2>3. Dropped(j, rem, n, k)' => Dropped(job[o], remote, n, k)' BY DEF Dropped, MayDrop
  <2> QED BY <2>1, <2>2, <2>3 DEF Delivered
<1>3. ASSUME NEW n, NEW left PROVE AllDelivered(j, rem, n, left)' => AllDelivered(job[o], remote, n, left)'
  BY <1>2 DEF AllDelivered
<1>4. InForce(job[o], remote)' BY <1>3 DEF InForce
<1> QED BY <1>1, <1>4

\* Executor e goes on with record f; when the provider changes, e was executing.
LEMMA ForceStays ==
  ASSUME StrongInv, NEW e \in Executors, NEW f \in JobType, Goto(e, f), scene' = scene,
         NEW rem \in [Targets -> Remote], rem = remote', Progress(f), InForce(f, rem),
         remote' = remote \/ job[e].pc \in Executing
  PROVE  JobsInForce'
<1>1. \A o \in Executors : job'[o] = IF o = e THEN f ELSE job[o]
  BY DEF StrongInv, Inv, JobsFit, Goto
<1>2. \A o \in Executors : job[o] \in JobType BY DEF StrongInv, Inv, JobsFit
<1>3. ASSUME NEW o \in Executors PROVE Progress(job'[o]) /\ InForce(job'[o], rem) /\ job'[o] \in JobType
  <2>1. CASE o = e BY <1>1, <2>1
  <2>2. CASE o # e
    <3>1. job'[o] = job[o] /\ Progress(job[o]) /\ InForce(job[o], remote) /\ job[o] \in JobType
      BY <1>1, <1>2, <2>2 DEF StrongInv, JobsInForce
    <3>2. CASE remote' = remote BY <3>1, <3>2
    <3>3. CASE job[e].pc \in Executing
      <4>1. job[o].pc \notin Executing \/ ~job[o].alone BY <2>2, <3>3 DEF StrongInv, AloneIsAlone
      <4> QED BY <3>1, <4>1 DEF InForce, Executing, Trying
    <3> QED BY <3>1, <3>2, <3>3
  <2> QED BY <2>1, <2>2
<1>4. ASSUME NEW o \in Executors PROVE (Progress(job[o]) /\ InForce(job[o], remote))'
  <2>1. PICK j \in JobType : j = job'[o] BY <1>3
  <2>2. Progress(j)' /\ InForce(j, rem)' BY <1>3, <2>1, ForceFixed
  <2> QED BY <2>1, <2>2, ForceNext
<1> QED BY <1>4 DEF JobsInForce

-----------------------------------------------------------------------------
\* After reading, fetching or writing, a job is in its plan, or caught.
Advances(e) ==
  \E f \in JobType : /\ Goto(e, f) /\ f.run = job[e].run
                     /\ f.pc \in {"read", "get", "push", "conclude", "catch"}

\* Jobs that have read and were refused the same have delivered the same.
LEMMA DeliveredSame ==
  ASSUME NEW f \in JobType, NEW g \in JobType, NEW rem, g.items = f.items, g.ignored = f.ignored
  PROVE  \A n, left : AllDelivered(f, rem, n, left) => AllDelivered(g, rem, n, left)
BY DEF AllDelivered, Delivered, Covered, Has, Dropped

\* Job f of executor e has delivered its mapping, and goes on.
LEMMA AfterMappingForce ==
  ASSUME StrongInv, NEW e \in Executors, job[e].pc \in {"read", "get", "push"}, NEW f \in JobType,
         f.run = job[e].run, f.list = job[e].list, f.m = job[e].m, f.alone = job[e].alone,
         \A n \in Mappings : n > f.m => f.items[n] = NoValues,
         NEW rem, f.alone => AllDelivered(f, rem, f.m, {})
  PROVE  LET g == AfterMapping(f) IN
         /\ g \in JobType /\ Progress(g) /\ InForce(g, rem)
         /\ g.pc \in {"read", "conclude"} /\ g.alone = f.alone /\ g.run = f.run
<1> DEFINE g == AfterMapping(f)
<1>0. job[e] \in JobType /\ JobFits(job[e]) /\ scene \in Scenes
  BY DEF StrongInv, Inv, JobsFit, RowsTyped
<1>1. f.m \in Nat /\ \A n \in Mappings : n \in Nat
  <2>1. f.m \in Mappings /\ Last \in Nat BY <1>0, SceneTyped DEF JobFits
  <2> QED BY <2>1 DEF Mappings
<1>2. g \in JobType
  BY AfterMappingFits DEF StrongInv
<1>3. CASE f.m < Last
  <2>1. g = [f EXCEPT !.pc = "read", !.m = f.m + 1] BY <1>3 DEF AfterMapping
  <2>2. /\ g.pc = "read" /\ g.m = f.m + 1 /\ g.alone = f.alone /\ g.run = f.run
        /\ g.items = f.items /\ g.ignored = f.ignored
    BY <2>1 DEF JobType
  <2>3. Progress(g)
    <3> HIDE DEF g
    <3>1. \A n \in Mappings : n > g.m \/ n = g.m => n > f.m BY <1>1, <2>2
    <3> QED BY <2>2, <3>1 DEF Progress, Executing, Trying
  <2>4. f.alone => AllDelivered(g, rem, g.m, Keys)
    <3>1. f.alone => AllDelivered(g, rem, f.m, {}) BY <1>2, <2>2, DeliveredSame
    <3> HIDE DEF g
    <3>2. \A l \in Mappings : l < g.m => l < f.m \/ l = f.m BY <1>1, <2>2
    <3> QED BY <3>1, <3>2 DEF AllDelivered
  <2>5. InForce(g, rem)
    BY <2>2, <2>4 DEF InForce
  <2> QED BY <1>2, <2>2, <2>3, <2>5
<1>4. CASE ~(f.m < Last)
  <2>1. g = [f EXCEPT !.pc = "conclude"] BY <1>4 DEF AfterMapping
  <2>2. /\ g.pc = "conclude" /\ g.m = f.m /\ g.alone = f.alone /\ g.run = f.run
        /\ g.items = f.items /\ g.ignored = f.ignored
    BY <2>1 DEF JobType
  <2>3. g.m = Last
    <3>1. f.m \in Mappings /\ Last \in Nat BY <1>0, SceneTyped DEF JobFits
    <3> QED BY <3>1, <1>4, <2>2 DEF Mappings
  <2>4. Progress(g)
    BY <2>2, <2>3 DEF Progress, Executing, Trying
  <2>5. f.alone => AllDelivered(g, rem, g.m, {}) BY <1>2, <2>2, DeliveredSame
  <2>6. InForce(g, rem) BY <2>2, <2>5 DEF InForce
  <2> QED BY <1>2, <2>2, <2>4, <2>6
<1> QED BY <1>3, <1>4

\* An idle executor claims nothing of the provider.
LEMMA IdleForce ==
  ASSUME NEW rem
  PROVE  Progress(Idle) /\ InForce(Idle, rem)
BY DEF Idle, Progress, Fresh, InForce, Executing, Trying

\* Nor does a pass between two runs.
LEMMA LeftForce ==
  ASSUME Inv, NEW e \in Executors, NEW rem
  PROVE  Progress(Left(e)) /\ InForce(Left(e), rem) /\ Left(e).pc \in {"idle", "pick"}
<1>1. CASE job[e].list # {}
  <2>1. Left(e) = [Idle EXCEPT !.pc = "pick", !.list = job[e].list]
    BY <1>1 DEF Left
  <2>2. Left(e).pc = "pick" /\ Left(e).items = Idle.items /\ Left(e).ignored = {}
    BY <2>1 DEF Idle
  <2>3. Left(e).items = [m \in Mappings |-> NoValues]
    BY <2>2 DEF Idle
  <2> QED BY <2>2, <2>3 DEF Progress, Fresh, InForce, Executing, Trying
<1>2. CASE job[e].list = {}
  BY <1>2, IdleForce DEF Left, Idle
<1> QED BY <1>1, <1>2

\* What one executor does to its own record outside the mappings: it waits
\* for its try block, or it has left the mappings.
LEMMA QuietForce ==
  ASSUME StrongInv, NEW e \in Executors, UNCHANGED <<remote, scene>>,
         NEW f \in JobType, Goto(e, f), f.pc \notin {"read", "get", "push", "conclude"},
         f.pc \in Executing => job[e].pc \in Executing /\ f.alone = job[e].alone,
         f.pc \notin Executing => Fresh(f)
  PROVE  AloneIsAlone' /\ JobsInForce'
<1>1. InForce(f, remote) /\ Progress(f)
  BY DEF InForce, Progress, Executing, Trying
<1>2. remote \in [Targets -> Remote] BY DEF StrongInv, Inv, RestTyped
<1>3. PICK rem \in [Targets -> Remote] : rem = remote BY <1>2
<1>4. JobsInForce' BY <1>1, <1>3, ForceStays
<1> QED BY <1>4, AloneStays

LEMMA QuietStepsForce ==
  ASSUME StrongInv, NEW e \in Executors,
         StartPass(e) \/ PickRun(e) \/ QueryFails(e) \/ Refuse(e) \/ Call(e) \/ Request(e) \/ Conclude(e)
         \/ Tell(e) \/ Throw(e) \/ Catch(e) \/ CatchFails(e) \/ Crash(e)
         \/ (Claim(e) /\ (row[job[e].run] # "pending" \/ Goto(e, Idle))) \/ (Look(e) /\ row[job[e].run] \in Finished)
  PROVE  AloneIsAlone' /\ JobsInForce'
<1>0. job[e] \in JobType /\ Progress(job[e]) /\ JobFits(job[e]) /\ Inv /\ scene \in Scenes
  BY DEF StrongInv, Inv, JobsFit, JobsInForce, RowsTyped
<1>1. UNCHANGED <<remote, scene>>
  BY DEF StartPass, PickRun, QueryFails, Refuse, Call, Request, Conclude, Tell, Throw, Catch, CatchFails,
         Crash, Claim, Look
<1>2. Idle \in JobType /\ Idle.pc = "idle" /\ Fresh(Idle)
  BY <1>0, IdleFits DEF Idle, Fresh
<1>3. Left(e) \in JobType /\ Left(e).pc \in {"idle", "pick"} /\ Fresh(Left(e))
  BY <1>0, LeftFits, LeftForce DEF Progress, Executing, Trying
<1>4. CASE Goto(e, Idle) \/ Goto(e, Left(e))
  <2>1. PICK f \in JobType : f.pc \in {"idle", "pick"} /\ Fresh(f) /\ Goto(e, f)
    BY <1>2, <1>3, <1>4
  <2> QED BY <1>1, <2>1, QuietForce DEF Executing, Trying
<1>5. CASE \E label \in {"claim", "look"} : Goto(e, [job[e] EXCEPT !.pc = label]) /\ job[e].pc \notin Executing
  <2>1. PICK label \in {"claim", "look"} : Goto(e, [job[e] EXCEPT !.pc = label]) BY <1>5
  <2> DEFINE f == [job[e] EXCEPT !.pc = label]
  <2>2. f \in JobType /\ f.pc = label /\ f.items = job[e].items /\ f.ignored = job[e].ignored
    BY <1>0 DEF JobType
  <2>3. Fresh(f) BY <1>0, <1>5, <2>2 DEF Progress, Fresh
  <2> HIDE DEF f
  <2>4. Goto(e, f) BY <2>1 DEF f
  <2> QED BY <1>1, <2>2, <2>3, <2>4, QuietForce DEF Executing, Trying
<1>6. CASE \E label \in {"tell", "catch"} : Goto(e, [job[e] EXCEPT !.pc = label]) /\ job[e].pc \in Executing
  <2>1. PICK label \in {"tell", "catch"} : Goto(e, [job[e] EXCEPT !.pc = label]) BY <1>6
  <2> DEFINE f == [job[e] EXCEPT !.pc = label]
  <2>2. f \in JobType /\ f.pc = label /\ f.alone = job[e].alone
    BY <1>0 DEF JobType, Executing, Trying
  <2> HIDE DEF f
  <2>4. Goto(e, f) BY <2>1 DEF f
  <2> QED BY <1>1, <1>6, <2>2, <2>4, QuietForce DEF Executing, Trying
<1>7. CASE StartPass(e)
  <2> DEFINE f == [Idle EXCEPT !.pc = "pick", !.list = {r \in Runs : row[r] = "pending"}]
  <2>1. f \in JobType /\ f.pc = "pick" /\ Fresh(f)
    BY <1>2 DEF JobType, Fresh, Idle
  <2>2. Goto(e, f) BY <1>7 DEF StartPass
  <2> HIDE DEF f
  <2> QED BY <1>1, <2>1, <2>2, QuietForce DEF Executing, Trying
<1>8. CASE PickRun(e)
  <2>1. PICK r \in job[e].list :
          Goto(e, [job[e] EXCEPT !.pc = IF entitled THEN "claim" ELSE "refuse",
                                 !.run = r, !.list = @ \ {r}])
    BY <1>8 DEF PickRun
  <2> DEFINE f == [job[e] EXCEPT !.pc = IF entitled THEN "claim" ELSE "refuse",
                                 !.run = r, !.list = @ \ {r}]
  <2>2. r \in Nat /\ job[e].pc = "pick"
    <3>1. r \in Runs /\ scene.runs \in Nat BY <1>0, SceneTyped DEF JobType
    <3>2. r \in Nat BY <3>1 DEF Runs
    <3>3. job[e].pc = "pick" BY <1>8 DEF PickRun
    <3> QED BY <3>2, <3>3
  <2>3. /\ f \in JobType /\ f.pc \in {"claim", "refuse"}
        /\ f.items = job[e].items /\ f.ignored = job[e].ignored
    BY <1>0, <2>2 DEF JobType
  <2>4. Fresh(f) BY <1>0, <2>2, <2>3 DEF Progress, Fresh, Executing, Trying
  <2>5. Goto(e, f) BY <2>1 DEF f
  <2> HIDE DEF f
  <2> QED BY <1>1, <2>3, <2>4, <2>5, QuietForce DEF Executing, Trying
<1>9. CASE Call(e)
  <2>1. PICK r \in Runs : Goto(e, [Idle EXCEPT !.pc = "request", !.run = r])
    BY <1>9 DEF Call
  <2> DEFINE f == [Idle EXCEPT !.pc = "request", !.run = r]
  <2>2. r \in Nat BY <1>0, SceneTyped DEF Runs
  <2>3. f \in JobType /\ f.pc = "request" /\ Fresh(f) BY <1>2, <2>2 DEF JobType, Fresh, Idle
  <2>4. Goto(e, f) BY <2>1
  <2> HIDE DEF f
  <2> QED BY <1>1, <2>3, <2>4, QuietForce DEF Executing, Trying
<1> QED
  BY <1>4, <1>5, <1>6, <1>7, <1>8, <1>9
     DEF QueryFails, Refuse, Request, Conclude, Tell, Throw, Catch, CatchFails,
         Crash, Claim, Look, Executing, Trying

\* The executor that enters the try block has read nothing and written nothing.
LEMMA BeginForce ==
  ASSUME StrongInv, NEW e \in Executors, Begin(e), UNCHANGED <<remote, scene>>,
         job[e].pc \in {"claim", "look"}
  PROVE  AloneIsAlone' /\ JobsInForce'
<1>0. job[e] \in JobType /\ Progress(job[e]) /\ scene \in Scenes /\ job[e].pc \notin Executing
  BY DEF StrongInv, Inv, JobsFit, JobsInForce, RowsTyped, Executing, Trying
<1>1. AloneIsAlone' BY <1>0, AloneBegins
<1>2. 1 \in Mappings /\ 1 \in 0..Last /\ Mappings \subseteq Nat /\ Last \in Nat
  BY <1>0, SceneTyped DEF Mappings
<1>3. Fresh(job[e]) BY <1>0 DEF Progress
<1>4. ASSUME NEW o \in Executors
      PROVE  job'[o] \in JobType /\ Progress(job'[o]) /\ InForce(job'[o], remote)
  <2>0. job[o] \in JobType /\ Progress(job[o]) /\ InForce(job[o], remote)
    BY DEF StrongInv, Inv, JobsFit, JobsInForce
  <2>1. CASE o = e
    <3>1. job'[o] = [job[e] EXCEPT !.pc = "read", !.m = 1,
                       !.alone = ({x \in Executors \ {e} : job[x].pc \in Executing} = {})]
      BY <2>1 DEF Begin
    <3>2. \A b \in BOOLEAN :
            LET g == [job[e] EXCEPT !.pc = "read", !.m = 1, !.alone = b] IN
            g \in JobType /\ g.pc = "read" /\ g.m = 1 /\ g.items = job[e].items
      BY <1>0, <1>2 DEF JobType, Executing, Trying
    <3>3. PICK g \in JobType : g = job'[o] /\ g.pc = "read" /\ g.m = 1 /\ g.items = job[e].items
      BY <3>1, <3>2
    <3>4. \A n \in Mappings : g.items[n] = NoValues BY <1>3, <3>3 DEF Fresh
    <3>5. \A n \in Mappings, k \in Keys : g.items[n][k] = Absent BY <3>4 DEF NoValues
    <3>6. Progress(g) BY <3>3, <3>4 DEF Progress, Executing, Trying
    <3>7. AllDelivered(g, remote, g.m, Keys) BY <3>5 DEF AllDelivered
    <3>8. InForce(g, remote) BY <3>3, <3>7 DEF InForce
    <3> QED BY <3>3, <3>6, <3>8
  <2>2. CASE o # e
    <3>1. job'[o] = job[o] \/ job'[o] = [job[o] EXCEPT !.alone = FALSE]
      BY <2>2 DEF Begin
    <3>2. LET g == [job[o] EXCEPT !.alone = FALSE] IN
          /\ g \in JobType /\ ~g.alone /\ g.pc = job[o].pc /\ g.items = job[o].items
          /\ g.ignored = job[o].ignored /\ g.m = job[o].m /\ g.left = job[o].left
      BY <2>0 DEF JobType
    <3>3. CASE job'[o] = job[o] BY <2>0, <3>3
    <3>4. CASE job'[o] = [job[o] EXCEPT !.alone = FALSE]
      <4>1. PICK g \in JobType : /\ g = job'[o] /\ ~g.alone /\ g.pc = job[o].pc /\ g.items = job[o].items
                                 /\ g.ignored = job[o].ignored /\ g.m = job[o].m /\ g.left = job[o].left
        BY <3>2, <3>4
      <4>2. Progress(g) BY <2>0, <4>1 DEF Progress, Fresh
      <4> QED BY <4>1, <4>2 DEF InForce
    <3> QED BY <3>1, <3>3, <3>4
  <2> QED BY <2>1, <2>2
<1>5. ASSUME NEW o \in Executors PROVE (Progress(job[o]) /\ InForce(job[o], remote))'
  <2>1. PICK j \in JobType : j = job'[o] BY <1>4
  <2>2. PICK rem \in [Targets -> Remote] : rem = remote BY DEF StrongInv, Inv, RestTyped
  <2>3. Progress(j)' /\ InForce(j, rem)' BY <1>4, <2>1, <2>2, ForceFixed
  <2>4. rem = remote' BY <2>2
  <2> QED BY <2>1, <2>3, <2>4, ForceNext
<1> QED BY <1>1, <1>5 DEF JobsInForce

-----------------------------------------------------------------------------
\* A record whose earlier readings and refusals f keeps, when no key of them
\* changes at the provider but for what f covers.
LEMMA DeliveryStays ==
  ASSUME NEW j \in JobType, NEW f \in JobType, NEW rem, NEW now, NEW n, NEW left,
         AllDelivered(j, rem, n, left), j.ignored \subseteq f.ignored,
         \A l \in Mappings, k \in Keys :
           l < n \/ (l = n /\ k \notin left) =>
             /\ f.items[l] = j.items[l]
             /\ now[Target[l]][Name(l, k)] = rem[Target[l]][Name(l, k)] \/ Delivered(f, now, l, k),
         \A l \in Mappings, k \in Keys : j.items[l][k] # Absent => f.items[l][k] # Absent,
         \A l \in Mappings : \A q \in (l + 1)..Last : q \in Mappings
  PROVE  AllDelivered(f, now, n, left)
<1> SUFFICES ASSUME NEW l \in Mappings, NEW k \in Keys, f.items[l][k] # Absent,
                    l < n \/ (l = n /\ k \notin left)
             PROVE  Delivered(f, now, l, k)
  BY DEF AllDelivered
<1>1. f.items[l] = j.items[l] BY SMT
<1>2. Delivered(j, rem, l, k) BY <1>1 DEF AllDelivered
<1>3. CASE Covered(j, l, k)
  <2>1. Covered(f, l, k)
    <3>1. PICK q \in (l + 1)..Last :
            /\ Target[q] = Target[l]
            /\ (\E y \in Keys : j.items[q][y] # Absent /\ Name(q, y) = Name(l, k)) \/ scene.style = "replace"
      BY <1>3 DEF Covered
    <3>2. q \in Mappings OBVIOUS
    <3>3. (\E y \in Keys : f.items[q][y] # Absent /\ Name(q, y) = Name(l, k)) \/ scene.style = "replace"
      BY <3>1, <3>2
    <3> QED BY <3>1, <3>3 DEF Covered
  <2> QED BY <2>1 DEF Delivered
<1>4. CASE now[Target[l]][Name(l, k)] = rem[Target[l]][Name(l, k)] /\ ~Covered(j, l, k)
  BY <1>1, <1>2, <1>4 DEF Delivered, Has, Dropped
<1> QED BY <1>3, <1>4

\* Mappings are counted from one to the last.
LEMMA MappingsCounted ==
  ASSUME scene \in Scenes
  PROVE  /\ Last \in Nat \ {0} /\ \A l \in Mappings : l \in Nat
         /\ \A l \in Mappings : \A q \in (l + 1)..Last : q \in Mappings
         /\ \A l, n \in Mappings : l < n => n \in (l + 1)..Last
<1>1. Last \in Nat \ {0} BY SceneTyped
<1> QED BY <1>1 DEF Mappings

\* Reading the values of a mapping.
LEMMA ReadForce ==
  ASSUME StrongInv, NEW e \in Executors, Read(e)
  PROVE  AloneIsAlone' /\ JobsInForce' /\ Advances(e)
<1> DEFINE m == job[e].m
<1>0. /\ job[e] \in JobType /\ JobFits(job[e]) /\ Progress(job[e]) /\ InForce(job[e], remote)
      /\ Inv /\ scene \in Scenes /\ job[e].pc = "read" /\ job[e].pc \in Executing
      /\ UNCHANGED <<scene, remote>> /\ remote \in [Targets -> Remote]
  BY DEF StrongInv, Inv, JobsFit, JobsInForce, RowsTyped, RestTyped, Read, Executing, Trying
<1>1. m \in Mappings BY <1>0 DEF JobFits
<1>2. PICK dropped \in SUBSET Present(source[m]) :
        LET found == [k \in Keys |-> IF k \in dropped THEN Absent ELSE source[m][k]]
            j == [job[e] EXCEPT !.items[m] = found, !.left = Present(found)]
        IN Goto(e, IF Itemwise /\ j.left = {} THEN AfterMapping(j)
                   ELSE [j EXCEPT !.pc = IF scene.style \in {"group", "spec"} THEN "get" ELSE "push"])
  BY DEF Read
<1> DEFINE found == [k \in Keys |-> IF k \in dropped THEN Absent ELSE source[m][k]]
           h == [job[e] EXCEPT !.items[m] = found, !.left = Present(found)]
<1>3. found \in Snapshot BY <1>0, <1>1, SnapshotsTyped DEF Present
<1>4. PICK fd \in Snapshot : fd = found BY <1>3
<1>5. /\ h \in JobType /\ h.run = job[e].run /\ h.list = job[e].list /\ h.m = m /\ h.pc = "read"
      /\ h.alone = job[e].alone /\ h.ignored = job[e].ignored /\ h.left = Present(fd)
      /\ h.items[m] = fd /\ \A n \in Mappings : n # m => h.items[n] = job[e].items[n]
  <2>1. h = [job[e] EXCEPT !.items[m] = fd, !.left = Present(fd)] BY <1>4
  <2>2. Present(fd) \subseteq Keys BY DEF Present
  <2> HIDE DEF found, h
  <2> QED BY <1>0, <1>1, <2>1, <2>2 DEF JobType
<1>6. PICK j \in JobType : j = h BY <1>5
<1>6a. Goto(e, IF Itemwise /\ j.left = {} THEN AfterMapping(j)
              ELSE [j EXCEPT !.pc = IF scene.style \in {"group", "spec"} THEN "get" ELSE "push"])
  BY <1>2, <1>6
<1>7. /\ j.run = job[e].run /\ j.list = job[e].list /\ j.m = m /\ j.pc = "read"
      /\ j.alone = job[e].alone /\ j.ignored = job[e].ignored /\ j.left = Present(j.items[m])
      /\ \A n \in Mappings : n # m => j.items[n] = job[e].items[n]
  BY <1>5, <1>6
<1> HIDE DEF found, h
<1>8. PICK rem \in [Targets -> Remote] : rem = remote BY <1>0
<1>8a. rem = remote' BY <1>0, <1>8
<1>9. \A n \in Mappings : n >= m => job[e].items[n] = NoValues
  <2>1. \A n \in Mappings : n >= m => n > m \/ n = m BY <1>0, <1>1, MappingsCounted
  <2> QED BY <1>0, <2>1 DEF Progress
<1>10. \A n \in Mappings : n > m => j.items[n] = NoValues /\ n # m
  BY <1>0, <1>1, <1>7, <1>9, MappingsCounted
<1>11. \A l \in Mappings, k \in Keys : job[e].items[l][k] # Absent => l < m
  <2>1. \A l \in Mappings : ~(l < m) => l >= m BY <1>0, <1>1, MappingsCounted
  <2> QED BY <1>9, <2>1 DEF NoValues
<1>12. j.alone => AllDelivered(j, rem, m, Keys)
  <2> SUFFICES ASSUME j.alone PROVE AllDelivered(j, rem, m, Keys) OBVIOUS
  <2>1. PICK g \in JobType : g = job[e] BY <1>0
  <2>2. AllDelivered(g, rem, m, Keys) BY <1>0, <1>7, <1>8, <2>1 DEF InForce
  <2>3. \A l \in Mappings, k \in Keys : g.items[l][k] # Absent => j.items[l][k] # Absent
    <3>1. \A l \in Mappings : l < m => l # m BY <1>0, <1>1, MappingsCounted
    <3> QED BY <1>7, <1>11, <2>1, <3>1
  <2>4. \A l \in Mappings, k \in Keys : l < m \/ (l = m /\ k \notin Keys) =>
          j.items[l] = g.items[l] /\ rem[Target[l]][Name(l, k)] = rem[Target[l]][Name(l, k)]
    <3>1. \A l \in Mappings : l < m => l # m BY <1>0, <1>1, MappingsCounted
    <3> QED BY <1>7, <2>1, <3>1
  <2>5. \A l \in Mappings : \A q \in (l + 1)..Last : q \in Mappings BY <1>0, MappingsCounted
  <2>6. g.ignored \subseteq j.ignored BY <1>7, <2>1
  <2> QED BY <2>2, <2>3, <2>4, <2>5, <2>6, DeliveryStays
<1>13. CASE Itemwise /\ j.left = {}
  <2>1. Goto(e, AfterMapping(j)) BY <1>6a, <1>13
  <2>2. \A k \in Keys : j.items[m][k] = Absent BY <1>7, <1>13 DEF Present
  <2>3. j.alone => AllDelivered(j, rem, j.m, {})
    BY <1>7, <1>12, <2>2 DEF AllDelivered
  <2>4. /\ AfterMapping(j) \in JobType /\ Progress(AfterMapping(j)) /\ InForce(AfterMapping(j), rem)
        /\ AfterMapping(j).alone = job[e].alone /\ AfterMapping(j).run = job[e].run
        /\ AfterMapping(j).pc \in {"read", "conclude"}
    BY <1>0, <1>7, <1>10, <2>3, AfterMappingForce
  <2>5. PICK f \in JobType : /\ Goto(e, f) /\ Progress(f) /\ InForce(f, rem) /\ f.alone = job[e].alone
                             /\ f.run = job[e].run /\ f.pc \in {"read", "conclude"}
    BY <2>1, <2>4
  <2> QED BY <1>0, <1>8, <1>8a, <2>5, ForceStays, AloneStays DEF Advances
<1>14. CASE ~(Itemwise /\ j.left = {})
  <2>1. PICK label \in {"get", "push"} :
          /\ Goto(e, [j EXCEPT !.pc = label])
          /\ label = "get" <=> scene.style \in {"group", "spec"}
    BY <1>6a, <1>14
  <2>2a. LET f == [j EXCEPT !.pc = label] IN
         /\ f \in JobType /\ f.pc = label /\ f.items = j.items /\ f.ignored = j.ignored
         /\ f.alone = j.alone /\ f.m = m /\ f.left = j.left /\ f.run = j.run
    BY <1>7 DEF JobType, Executing, Trying
  <2>2. PICK f \in JobType :
          /\ f = [j EXCEPT !.pc = label] /\ f.pc = label /\ f.items = j.items /\ f.ignored = j.ignored
          /\ f.alone = j.alone /\ f.m = m /\ f.left = j.left /\ f.run = j.run
    BY <2>2a
  <2>3. Progress(f)
    <3>1. \A n \in Mappings : n > f.m => f.items[n] = NoValues BY <1>10, <2>2
    <3> QED BY <1>7, <2>1, <2>2, <3>1 DEF Progress, Executing, Trying
  <2>4. f.alone => AllDelivered(f, rem, f.m, Keys) BY <1>12, <2>2, DeliveredSame
  <2>5. f.alone /\ f.pc = "push" => AllDelivered(f, rem, f.m, f.left)
    <3>1. \A k \in Keys : f.items[m][k] # Absent => k \in f.left BY <1>7, <2>2 DEF Present
    <3> QED BY <2>2, <2>4, <3>1 DEF AllDelivered
  <2>6. InForce(f, rem) BY <2>1, <2>2, <2>4, <2>5 DEF InForce
  <2>7. Goto(e, f) BY <2>1, <2>2
  <2> QED BY <1>0, <1>7, <1>8, <1>8a, <2>2, <2>3, <2>6, <2>7, ForceStays, AloneStays DEF Advances
<1> QED BY <1>13, <1>14

-----------------------------------------------------------------------------
\* Fetching the remote set.
LEMMA GetForce ==
  ASSUME StrongInv, NEW e \in Executors, Get(e)
  PROVE  AloneIsAlone' /\ JobsInForce' /\ Advances(e)
<1>0. /\ job[e] \in JobType /\ JobFits(job[e]) /\ Progress(job[e]) /\ InForce(job[e], remote)
      /\ Inv /\ scene \in Scenes /\ job[e].pc = "get" /\ job[e].pc \in Executing
      /\ UNCHANGED <<scene, remote>> /\ remote \in [Targets -> Remote]
      /\ Goto(e, [job[e] EXCEPT !.pc = "push", !.group = remote[Target[job[e].m]]])
  BY DEF StrongInv, Inv, JobsFit, JobsInForce, RowsTyped, RestTyped, Get, Executing, Trying
<1>1. job[e].m \in Mappings BY <1>0 DEF JobFits
<1>2. PICK set \in Remote : set = remote[Target[job[e].m]] BY <1>0, <1>1, SnapshotsTyped
<1>3. PICK j \in JobType : j = job[e] BY <1>0
<1>4. PICK rem \in [Targets -> Remote] : rem = remote BY <1>0
<1>5. LET f == [j EXCEPT !.pc = "push", !.group = set] IN
      /\ f \in JobType /\ f.pc = "push" /\ f.items = j.items /\ f.ignored = j.ignored
      /\ f.alone = j.alone /\ f.m = j.m /\ f.left = j.left /\ f.group = set /\ f.run = j.run
  BY DEF JobType, Executing, Trying
<1>6. PICK f \in JobType :
      /\ Goto(e, f) /\ f.pc = "push" /\ f.items = j.items /\ f.ignored = j.ignored
      /\ f.alone = j.alone /\ f.m = j.m /\ f.left = j.left /\ f.group = set /\ f.run = j.run
  BY <1>0, <1>2, <1>3, <1>5
<1>7. ~Itemwise
  BY <1>0 DEF Progress, Itemwise
<1>8. Progress(f) BY <1>0, <1>3, <1>6, <1>7 DEF Progress, Executing, Trying
<1>9. f.alone => AllDelivered(f, rem, f.m, Keys)
  BY <1>0, <1>3, <1>4, <1>6, DeliveredSame DEF InForce
<1>10. InForce(f, rem) BY <1>2, <1>3, <1>4, <1>6, <1>7, <1>9 DEF InForce
<1> QED BY <1>0, <1>3, <1>4, <1>6, <1>8, <1>10, ForceStays, AloneStays DEF Advances

\* Writing one item: it is delivered, or the refusal was taken for success;
\* an earlier mapping of the same target is covered.
LEMMA PushItemForce ==
  ASSUME StrongInv, NEW e \in Executors, PushItem(e)
  PROVE  AloneIsAlone' /\ JobsInForce' /\ Advances(e)
<1> DEFINE m == job[e].m
           t == Target[m]
<1>0. /\ job[e] \in JobType /\ JobFits(job[e]) /\ Progress(job[e]) /\ InForce(job[e], remote)
      /\ Inv /\ scene \in Scenes /\ job[e].pc = "push" /\ job[e].pc \in Executing /\ Itemwise
      /\ scene' = scene /\ remote \in [Targets -> Remote]
  BY DEF StrongInv, Inv, JobsFit, JobsInForce, RowsTyped, RestTyped, PushItem, Executing, Trying
<1>1. m \in Mappings BY <1>0 DEF JobFits
<1>2. PICK k \in job[e].left : \E v \in WriteOf(remote[t][Name(m, k)], job[e].items[m][k]) :
        /\ remote' = [remote EXCEPT ![t][Name(m, k)] = v]
        /\ Answered(e, AfterItem([job[e] EXCEPT !.ignored =
              IF v = job[e].items[m][k] THEN @ ELSE @ \cup {<<m, k>>}], k))
  BY DEF PushItem
<1>3. PICK v \in WriteOf(remote[t][Name(m, k)], job[e].items[m][k]) :
        /\ remote' = [remote EXCEPT ![t][Name(m, k)] = v]
        /\ Answered(e, AfterItem([job[e] EXCEPT !.ignored =
              IF v = job[e].items[m][k] THEN @ ELSE @ \cup {<<m, k>>}], k))
  BY <1>2
<1>4. PICK j \in JobType : j = job[e] BY <1>0
<1>5. PICK old \in [Targets -> Remote] : old = remote BY <1>0
<1>5a. k \in Keys /\ k \in j.left BY <1>4, <1>2 DEF JobType
<1>5b. PICK name \in Names : name = Name(m, k) BY <1>0, <1>1, <1>5a, SceneTyped
<1>6. /\ k \in Keys /\ k \in j.left /\ j.items[m][k] # Absent /\ t \in Targets
      /\ j.items[m][k] \in Values \cup {Absent} /\ old[t][name] \in Values \cup {Absent}
      /\ j.left \subseteq Present(j.items[m])
  <2>2. j.left \subseteq Present(j.items[m]) BY <1>0, <1>4 DEF Progress
  <2>3. t \in Targets /\ j.items[m] \in Snapshot /\ old[t] \in Remote
    BY <1>0, <1>1, <1>4, <1>5, SnapshotsTyped DEF JobType
  <2> QED BY <1>5a, <2>2, <2>3 DEF Present, Snapshot, Remote
<1>7. /\ v \in Values \cup {Absent}
      /\ v = j.items[m][k] \/ (/\ scene.style \in {"lenient", "create"} /\ v = old[t][name]
                               /\ scene.style = "create" => v # Absent)
  <2>1. v \in WriteOf(old[t][name], j.items[m][k]) BY <1>3, <1>4, <1>5, <1>5b
  <2> QED BY <1>0, <1>6, <2>1 DEF Itemwise, WriteOf, Upsert, PutOrMissing, CreateOnly
<1>8. PICK now \in [Targets -> Remote] :
        /\ now = remote' /\ now[t][name] = v
        /\ \A x \in Targets, y \in Names : x # t \/ y # name => now[x][y] = old[x][y]
  <2> DEFINE n == [old EXCEPT ![t][name] = v]
  <2>1. old[t] \in Remote BY <1>6
  <2>2. [old[t] EXCEPT ![name] = v] \in Remote BY <1>7, <2>1 DEF Remote
  <2>3. n = [old EXCEPT ![t] = [old[t] EXCEPT ![name] = v]] OBVIOUS
  <2>4. n \in [Targets -> Remote] BY <1>6, <2>2, <2>3
  <2>5. n[t] = [old[t] EXCEPT ![name] = v] /\ \A x \in Targets : x # t => n[x] = old[x]
    BY <1>6, <2>3
  <2>6. n[t][name] = v /\ \A y \in Names : y # name => n[t][y] = old[t][y]
    BY <1>6, <2>1, <2>5 DEF Remote
  <2>7. \A x \in Targets, y \in Names : x # t \/ y # name => n[x][y] = old[x][y] BY <2>5, <2>6
  <2>8. n = remote' BY <1>3, <1>5, <1>5b
  <2> HIDE DEF n
  <2> QED BY <2>4, <2>6, <2>7, <2>8
<1>9a. /\ j.ignored \in SUBSET (Mappings \X Keys)
       /\ j.ignored \cup {<<m, k>>} \in SUBSET (Mappings \X Keys)
  BY <1>1, <1>6 DEF JobType
<1>9. PICK more \in SUBSET (Mappings \X Keys) :
        /\ more = IF v = j.items[m][k] THEN j.ignored ELSE j.ignored \cup {<<m, k>>}
        /\ j.ignored \subseteq more /\ (v # j.items[m][k] => <<m, k>> \in more)
  BY <1>9a
<1>10. LET f == [j EXCEPT !.ignored = more] IN
       /\ f \in JobType /\ f.pc = "push" /\ f.items = j.items /\ f.ignored = more /\ f.run = j.run
       /\ f.alone = j.alone /\ f.m = m /\ f.left = j.left /\ f.list = j.list
  BY <1>0, <1>4 DEF JobType
<1>11. PICK f \in JobType :
         /\ Answered(e, AfterItem(f, k)) /\ f.pc = "push" /\ f.items = j.items /\ f.ignored = more
         /\ f.run = j.run /\ f.alone = j.alone /\ f.m = m /\ f.left = j.left /\ f.list = j.list
  BY <1>3, <1>4, <1>9, <1>10
<1>12. f.alone => AllDelivered(f, now, m, f.left \ {k})
  <2> SUFFICES ASSUME f.alone, NEW l \in Mappings, NEW y \in Keys, f.items[l][y] # Absent,
                      l < m \/ (l = m /\ y \notin f.left \ {k})
               PROVE  Delivered(f, now, l, y)
    BY DEF AllDelivered
  <2>0. Target[l] \in Targets /\ Name(l, y) \in Names BY <1>0, SceneTyped
  <2>1. CASE Target[l] = t /\ Name(l, y) = name /\ l < m
    <3>1. m \in (l + 1)..Last BY <1>0, <1>1, <2>1, MappingsCounted
    <3>2. Covered(f, l, y) BY <1>5b, <1>6, <1>11, <2>1, <3>1 DEF Covered
    <3> QED BY <3>2 DEF Delivered
  <2>2. CASE l = m /\ Name(m, y) = name /\ v = j.items[m][k]
    <3>1. now[Target[l]][Name(l, y)] = f.items[l][k] BY <1>8, <1>11, <2>2
    <3>2. Has(f, now, l, y) BY <1>5b, <1>6, <1>11, <2>2, <3>1 DEF Has
    <3> QED BY <3>2 DEF Delivered
  <2>3. CASE l = m /\ y = k /\ v # j.items[m][k]
    <3>1. now[Target[l]][Name(l, y)] = v BY <1>5b, <1>8, <2>3
    <3>2. <<l, y>> \in f.ignored BY <1>9, <1>11, <2>3
    <3>3. Dropped(f, now, l, y) BY <1>7, <2>3, <3>1, <3>2 DEF Dropped, MayDrop
    <3> QED BY <3>3 DEF Delivered
  <2>4. CASE /\ Target[l] # t \/ Name(l, y) # name \/ v = old[t][name]
             /\ l < m \/ (l = m /\ y \notin f.left)
    <3>1. AllDelivered(j, old, m, j.left) BY <1>0, <1>4, <1>5, <1>11 DEF InForce
    <3>2. Delivered(j, old, l, y) BY <1>11, <2>4, <3>1 DEF AllDelivered
    <3>4. now[Target[l]][Name(l, y)] = old[Target[l]][Name(l, y)] BY <1>8, <2>0, <2>4
    <3>5. CASE Has(j, old, l, y)
      <4>1. Has(f, now, l, y) BY <1>11, <3>4, <3>5 DEF Has
      <4> QED BY <4>1 DEF Delivered
    <3>6. CASE Covered(j, l, y)
      <4>1. Covered(f, l, y) BY <1>11, <3>6 DEF Covered
      <4> QED BY <4>1 DEF Delivered
    <3>7. CASE Dropped(j, old, l, y)
      <4>1. Dropped(f, now, l, y) BY <1>9, <1>11, <3>4, <3>7 DEF Dropped
      <4> QED BY <4>1 DEF Delivered
    <3> QED BY <3>2, <3>5, <3>6, <3>7 DEF Delivered
  <2>5. l = m => Target[l] = t /\ Name(l, y) = Name(m, y) OBVIOUS
  <2>6. y = k => Name(m, y) = name BY <1>5b
  <2> QED BY <1>7, <2>1, <2>2, <2>3, <2>4, <2>5, <2>6
<1>13. ASSUME Goto(e, [job[e] EXCEPT !.pc = "catch"]) PROVE AloneIsAlone' /\ JobsInForce' /\ Advances(e)
  <2>1. LET g == [j EXCEPT !.pc = "catch"] IN
       /\ g \in JobType /\ g.pc = "catch" /\ g.alone = j.alone /\ g.run = j.run
    BY DEF JobType, Executing, Trying
  <2>2. PICK g \in JobType : Goto(e, g) /\ g.pc = "catch" /\ g.alone = job[e].alone /\ g.run = job[e].run
    BY <1>4, <1>13, <2>1
  <2>3. Progress(g) /\ InForce(g, now) BY <2>2 DEF Progress, InForce, Executing, Trying
  <2> QED BY <1>0, <1>8, <2>2, <2>3, ForceStays, AloneStays DEF Advances
<1>14. ASSUME Goto(e, AfterItem(f, k)) PROVE AloneIsAlone' /\ JobsInForce' /\ Advances(e)
  <2>1. CASE f.left = {k}
    <3>1. AfterItem(f, k) = AfterMapping([f EXCEPT !.left = {}]) BY <2>1 DEF AfterItem
    <3>2. LET g == [f EXCEPT !.left = {}] IN
          /\ g \in JobType /\ g.items = f.items /\ g.ignored = f.ignored /\ g.run = f.run
          /\ g.alone = f.alone /\ g.m = m /\ g.list = f.list
      BY <1>11 DEF JobType
    <3>3. PICK g \in JobType :
          /\ AfterItem(f, k) = AfterMapping(g) /\ g.items = f.items /\ g.ignored = f.ignored
          /\ g.run = f.run /\ g.alone = f.alone /\ g.m = m /\ g.list = f.list
      BY <3>1, <3>2
    <3>4. f.left \ {k} = {} BY <2>1
    <3>5. g.alone => AllDelivered(g, now, g.m, {})
      <4>1. f.alone => AllDelivered(f, now, m, {}) BY <1>12, <3>4
      <4>2. AllDelivered(f, now, m, {}) => AllDelivered(g, now, m, {}) BY <3>3, DeliveredSame
      <4> QED BY <3>3, <4>1, <4>2
    <3>6. \A n \in Mappings : n > g.m => g.items[n] = NoValues
      BY <1>0, <1>4, <1>11, <3>3 DEF Progress
    <3>7. /\ AfterMapping(g) \in JobType /\ Progress(AfterMapping(g)) /\ InForce(AfterMapping(g), now)
          /\ AfterMapping(g).alone = job[e].alone /\ AfterMapping(g).run = job[e].run
          /\ AfterMapping(g).pc \in {"read", "conclude"}
      BY <1>0, <1>4, <1>11, <3>3, <3>5, <3>6, AfterMappingForce
    <3>8. PICK x \in JobType : /\ Goto(e, x) /\ Progress(x) /\ InForce(x, now) /\ x.alone = job[e].alone
                               /\ x.run = job[e].run /\ x.pc \in {"read", "conclude"}
      BY <1>14, <3>3, <3>7
    <3> QED BY <1>0, <1>8, <3>8, ForceStays, AloneStays DEF Advances
  <2>2. CASE f.left # {k}
    <3>1. AfterItem(f, k) = [f EXCEPT !.left = f.left \ {k}] BY <2>2 DEF AfterItem
    <3>2. LET g == [f EXCEPT !.left = f.left \ {k}] IN
          /\ g \in JobType /\ g.items = f.items /\ g.ignored = f.ignored /\ g.pc = "push"
          /\ g.alone = f.alone /\ g.m = m /\ g.left = f.left \ {k} /\ g.run = f.run
      BY <1>11 DEF JobType
    <3>3. PICK g \in JobType :
          /\ Goto(e, g) /\ g.items = f.items /\ g.ignored = f.ignored /\ g.pc = "push"
          /\ g.alone = f.alone /\ g.m = m /\ g.left = f.left \ {k} /\ g.run = f.run
      BY <1>14, <3>1, <3>2
    <3>4. g.alone => AllDelivered(g, now, g.m, g.left) BY <1>12, <3>3, DeliveredSame
    <3>5. AllDelivered(g, now, g.m, g.left) => AllDelivered(g, now, g.m, Keys) BY DEF AllDelivered
    <3>6. Progress(g) BY <1>0, <1>4, <1>6, <1>11, <3>3 DEF Progress, Executing, Trying
    <3>7. scene.style \notin {"group", "spec"} BY <1>0 DEF Itemwise
    <3>8. InForce(g, now) BY <3>3, <3>4, <3>5, <3>7 DEF InForce
    <3> QED BY <1>0, <1>4, <1>8, <1>11, <3>3, <3>6, <3>8, ForceStays, AloneStays DEF Advances
  <2> QED BY <2>1, <2>2
<1> QED BY <1>11, <1>13, <1>14 DEF Answered

\* What one call with all items leaves: under a name of theirs the value of an item
\* of that name, unless it was dropped; under the others what was there.
SetSound(m, t, old, items, new, set) ==
  /\ \A k \in Present(items) : set[Name(m, k)] = new[Name(m, k)] =>
       \E y \in Present(items) : Name(m, y) = Name(m, k) /\ set[Name(m, k)] = items[y]
  /\ \A k \in Present(items) : set[Name(m, k)] # new[Name(m, k)] =>
       MayDrop(t) /\ scene.style # "create"
  /\ \A n \in Names : (\A y \in Present(items) : Name(m, y) # n) /\ scene.style # "replace" =>
       set[n] = old[n]

LEMMA SetForce ==
  ASSUME Inv, NEW m \in Mappings, NEW t, ~Itemwise, NEW old \in Remote, NEW fetched \in Remote,
         NEW items \in Snapshot, NEW new \in Named(m, items), NEW set \in SetOf(t, old, fetched, new),
         scene.style \in {"group", "spec"} => fetched = old
  PROVE  SetSound(m, t, old, items, new, set)
<1> USE DEF SetSound
<1>0. new \in Remote BY DEF Named
<1>1. scene.style \in {"patch", "graphql", "replace", "group", "spec"}
  BY SceneTyped DEF Itemwise, Inv, RowsTyped
<1>2. ASSUME NEW k \in Present(items)
      PROVE  /\ Name(m, k) \in Names
             /\ \E y \in Present(items) : Name(m, y) = Name(m, k) /\ new[Name(m, k)] = items[y]
             /\ new[Name(m, k)] # Absent
  <2>1. PICK n \in Names : n = Name(m, k) BY SceneTyped DEF Present, Inv, RowsTyped
  <2>2. PICK y \in {y \in Present(items) : Name(m, y) = n} : new[n] = items[y]
    BY <2>1 DEF Named
  <2>3. items[y] # Absent BY <2>2 DEF Present
  <2> QED BY <2>1, <2>2, <2>3
<1>3. ASSUME NEW n \in Names, \A y \in Present(items) : Name(m, y) # n
      PROVE  new[n] = Absent
  BY <1>3 DEF Named
<1>4. \A x \in Remote, n \in Names : Overlay(x, new)[n] = IF new[n] # Absent THEN new[n] ELSE x[n]
  BY DEF Overlay
<1>5. CASE scene.style \in {"patch", "group"} \/ (scene.style = "spec" /\ t \notin scene.bare)
  <2>1. PICK x \in Remote : set = Overlay(x, new) /\ (x = old)
    BY <1>5 DEF SetOf
  <2> QED BY <1>2, <1>3, <1>4, <2>1
<1>6. CASE scene.style = "replace"
  <2>1. set = new BY <1>6 DEF SetOf
  <2> QED BY <1>2, <1>6, <2>1
<1>7. CASE scene.style = "graphql" \/ (scene.style = "spec" /\ t \in scene.bare)
  <2>1. set = Overlay(old, new) \/ set = old BY <1>7 DEF SetOf
  <2>2. MayDrop(t) BY <1>7 DEF MayDrop
  <2>3. CASE set = Overlay(old, new) BY <1>2, <1>3, <1>4, <1>7, <2>2, <2>3
  <2>4. CASE set = old BY <1>2, <1>7, <2>2, <2>4
  <2> QED BY <2>1, <2>3, <2>4
<1> QED BY <1>1, <1>5, <1>6, <1>7

\* Writing all items of a mapping by one call.
LEMMA PushSetForce ==
  ASSUME StrongInv, NEW e \in Executors, PushSet(e)
  PROVE  AloneIsAlone' /\ JobsInForce' /\ Advances(e)
<1> DEFINE m == job[e].m
           t == Target[m]
<1>0. /\ job[e] \in JobType /\ JobFits(job[e]) /\ Progress(job[e]) /\ InForce(job[e], remote)
      /\ Inv /\ scene \in Scenes /\ job[e].pc = "push" /\ job[e].pc \in Executing /\ ~Itemwise
      /\ scene' = scene /\ remote \in [Targets -> Remote]
      /\ \E new \in Named(m, job[e].items[m]) :
           \E set \in SetOf(t, remote[t], job[e].group, new) :
             /\ remote' = [remote EXCEPT ![t] = set]
             /\ Answered(e, AfterMapping([job[e] EXCEPT !.left = {}, !.group = Empty,
                                !.ignored = @ \cup Missing(m, job[e].items[m], new, set)]))
  BY DEF StrongInv, Inv, JobsFit, JobsInForce, RowsTyped, RestTyped, PushSet, Executing, Trying
<1>1. m \in Mappings /\ t \in Targets BY <1>0, SnapshotsTyped DEF JobFits
<1>2. PICK j \in JobType : j = job[e] BY <1>0
<1>3. PICK old \in [Targets -> Remote] : old = remote BY <1>0
<1>4. old[t] \in Remote /\ j.group \in Remote /\ j.items[m] \in Snapshot
  BY <1>1 DEF JobType
<1>5. PICK new \in Named(m, j.items[m]) :
        \E set \in SetOf(t, old[t], j.group, new) :
          /\ remote' = [remote EXCEPT ![t] = set]
          /\ Answered(e, AfterMapping([j EXCEPT !.left = {}, !.group = Empty,
                             !.ignored = @ \cup Missing(m, j.items[m], new, set)]))
  BY <1>0, <1>2, <1>3
<1>5a. PICK set \in SetOf(t, old[t], j.group, new) :
          /\ remote' = [remote EXCEPT ![t] = set]
          /\ Answered(e, AfterMapping([j EXCEPT !.left = {}, !.group = Empty,
                             !.ignored = @ \cup Missing(m, j.items[m], new, set)]))
  BY <1>5
<1>5b. set \in Remote /\ Missing(m, j.items[m], new, set) \subseteq Mappings \X Keys
  BY <1>0, <1>1, <1>4, SetTyped
<1>6. PICK now \in [Targets -> Remote] :
        now = remote' /\ now[t] = set /\ \A x \in Targets : x # t => now[x] = old[x]
  <2>1. [old EXCEPT ![t] = set] \in [Targets -> Remote] BY <1>5b
  <2>2. [old EXCEPT ![t] = set] = remote' BY <1>3, <1>5a
  <2> QED BY <1>1, <2>1, <2>2
<1>7. PICK more \in SUBSET (Mappings \X Keys) : more = j.ignored \cup Missing(m, j.items[m], new, set)
  BY <1>5b DEF JobType
<1>7a. LET f == [j EXCEPT !.left = {}, !.group = Empty, !.ignored = more] IN
      /\ f \in JobType /\ f.items = j.items /\ f.ignored = more /\ f.run = j.run
      /\ f.alone = j.alone /\ f.m = m /\ f.list = j.list
  BY <1>2, NoValuesTyped DEF JobType
<1>8. PICK f \in JobType :
        /\ Answered(e, AfterMapping(f)) /\ f.items = j.items /\ f.ignored = more
        /\ f.run = j.run /\ f.alone = j.alone /\ f.m = m /\ f.list = j.list
  BY <1>5a, <1>7, <1>7a
<1>9. f.alone => AllDelivered(f, now, m, {})
  <2> SUFFICES ASSUME f.alone, NEW l \in Mappings, NEW y \in Keys, f.items[l][y] # Absent, l < m \/ l = m
               PROVE  Delivered(f, now, l, y)
    BY DEF AllDelivered
  <2>0. AllDelivered(j, old, m, Keys) /\ (scene.style \in {"group", "spec"} => j.group = old[t])
    BY <1>0, <1>2, <1>3, <1>8 DEF InForce
  <2>0a. Target[l] \in Targets /\ Name(l, y) \in Names BY <1>0, SceneTyped
  <2>0b. /\ \A k \in Present(j.items[m]) : set[Name(m, k)] = new[Name(m, k)] =>
              \E z \in Present(j.items[m]) : Name(m, z) = Name(m, k) /\ set[Name(m, k)] = j.items[m][z]
         /\ \A k \in Present(j.items[m]) : set[Name(m, k)] # new[Name(m, k)] =>
              MayDrop(t) /\ scene.style # "create"
         /\ \A n \in Names :
              (\A z \in Present(j.items[m]) : Name(m, z) # n) /\ scene.style # "replace" => set[n] = old[t][n]
    <3>1. scene.style \in {"group", "spec"} => j.group = old[t] BY <2>0
    <3>2. SetSound(m, t, old[t], j.items[m], new, set) BY <1>0, <1>1, <1>4, <3>1, SetForce
    <3> QED BY <3>2 DEF SetSound
  <2>1. CASE l = m
    <3>1. y \in Present(j.items[m]) BY <1>8, <2>1 DEF Present
    <3>2. CASE set[Name(m, y)] = new[Name(m, y)]
      <4>1. PICK z \in Present(j.items[m]) : Name(m, z) = Name(m, y) /\ set[Name(m, y)] = j.items[m][z]
        BY <2>0b, <3>1, <3>2
      <4>2. z \in Keys /\ j.items[m][z] # Absent BY DEF Present
      <4>3. now[Target[l]][Name(l, y)] = f.items[l][z] BY <1>6, <1>8, <2>1, <4>1
      <4>4. f.items[l][z] # Absent /\ Name(l, z) = Name(l, y) BY <1>6, <1>8, <2>1, <4>1, <4>2
      <4>5. Has(f, now, l, y) BY <4>2, <4>3, <4>4 DEF Has
      <4> QED BY <4>5 DEF Delivered
    <3>3. CASE set[Name(m, y)] # new[Name(m, y)]
      <4>1. <<l, y>> \in f.ignored BY <1>7, <1>8, <2>1, <3>1, <3>3 DEF Missing
      <4>2. Dropped(f, now, l, y) BY <2>0b, <2>1, <3>1, <3>3, <4>1 DEF Dropped
      <4> QED BY <4>2 DEF Delivered
    <3> QED BY <3>2, <3>3
  <2>2. CASE l < m /\ Target[l] # t
    <3>1. Delivered(j, old, l, y) BY <1>8, <2>0, <2>2 DEF AllDelivered
    <3>3. now[Target[l]] = old[Target[l]] BY <1>6, <2>0a, <2>2
    <3> QED BY <1>7, <1>8, <3>1, <3>3 DEF Delivered, Covered, Has, Dropped
  <2>3. CASE l < m /\ Target[l] = t
    <3>1. m \in (l + 1)..Last BY <1>0, <1>1, <2>3, MappingsCounted
    <3>2. CASE scene.style = "replace" \/ \E z \in Present(j.items[m]) : Name(m, z) = Name(l, y)
      <4>1. scene.style = "replace" \/ \E z \in Keys : f.items[m][z] # Absent /\ Name(m, z) = Name(l, y)
        BY <1>8, <3>2 DEF Present
      <4>2. Covered(f, l, y) BY <2>3, <3>1, <4>1 DEF Covered
      <4> QED BY <4>2 DEF Delivered
    <3>3. CASE scene.style # "replace" /\ \A z \in Present(j.items[m]) : Name(m, z) # Name(l, y)
      <4>1. Delivered(j, old, l, y) BY <1>8, <2>0, <2>3 DEF AllDelivered
      <4>2. set[Name(l, y)] = old[t][Name(l, y)] BY <2>0a, <2>0b, <3>3
      <4>3. now[Target[l]][Name(l, y)] = old[Target[l]][Name(l, y)] BY <1>6, <2>3, <4>2
      <4> QED BY <1>7, <1>8, <4>1, <4>3 DEF Delivered, Covered, Has, Dropped
    <3> QED BY <3>2, <3>3
  <2> QED BY <2>1, <2>2, <2>3
<1>10. ASSUME Goto(e, [job[e] EXCEPT !.pc = "catch"]) PROVE AloneIsAlone' /\ JobsInForce' /\ Advances(e)
  <2>1. LET g == [j EXCEPT !.pc = "catch"] IN
       /\ g \in JobType /\ g.pc = "catch" /\ g.alone = j.alone /\ g.run = j.run
    BY DEF JobType, Executing, Trying
  <2>2. PICK g \in JobType : Goto(e, g) /\ g.pc = "catch" /\ g.alone = job[e].alone /\ g.run = job[e].run
    BY <1>2, <1>10, <2>1
  <2>3. Progress(g) /\ InForce(g, now) BY <2>2 DEF Progress, InForce, Executing, Trying
  <2> QED BY <1>0, <1>6, <2>2, <2>3, ForceStays, AloneStays DEF Advances
<1>11. ASSUME Goto(e, AfterMapping(f)) PROVE AloneIsAlone' /\ JobsInForce' /\ Advances(e)
  <2>1. \A n \in Mappings : n > f.m => f.items[n] = NoValues BY <1>0, <1>2, <1>8 DEF Progress
  <2>2. f.alone => AllDelivered(f, now, f.m, {}) BY <1>8, <1>9
  <2>3. /\ AfterMapping(f) \in JobType /\ Progress(AfterMapping(f)) /\ InForce(AfterMapping(f), now)
        /\ AfterMapping(f).alone = job[e].alone /\ AfterMapping(f).run = job[e].run
        /\ AfterMapping(f).pc \in {"read", "conclude"}
    BY <1>0, <1>2, <1>8, <2>1, <2>2, AfterMappingForce
  <2>4. PICK x \in JobType : /\ Goto(e, x) /\ Progress(x) /\ InForce(x, now) /\ x.alone = job[e].alone
                             /\ x.run = job[e].run /\ x.pc \in {"read", "conclude"}
    BY <1>11, <2>3
  <2> QED BY <1>0, <1>6, <2>4, ForceStays, AloneStays DEF Advances
<1> QED BY <1>8, <1>10, <1>11 DEF Answered

-----------------------------------------------------------------------------
\* What the row of a run that one executor executes says at label pc.
Says(status, pc) ==
  /\ pc \in {"read", "get", "push", "conclude"} => status = "running"
  /\ pc = "tell" => status = "succeeded"
  /\ pc = "catch" => status \in {"running", "succeeded"}

\* Executor e goes on with record f; the rows others execute stay.
LEMMA VerdictStays ==
  ASSUME StrongInv, NEW e \in Executors, NEW f \in JobType, Goto(e, f), shared' = shared,
         f.pc \in Executing =>
           /\ job[e].pc \in Executing /\ f.run = job[e].run
           /\ f.run \notin shared => Says(row'[f.run], f.pc),
         \A o \in Executors : o # e /\ job[o].pc \in Executing /\ job[o].run \notin shared =>
           row'[job[o].run] = row[job[o].run]
  PROVE  VerdictsFit'
<1>1. \A o \in Executors : job'[o] = IF o = e THEN f ELSE job[o]
  BY DEF StrongInv, Inv, JobsFit, Goto
<1>2. SUFFICES ASSUME NEW o \in Executors, job'[o].pc \in Executing, job'[o].run \notin shared
               PROVE  /\ \A x \in Executors : x # o /\ job'[x].pc \in Executing => job'[x].run # job'[o].run
                      /\ Says(row'[job'[o].run], job'[o].pc)
  BY DEF VerdictsFit, VerdictFits, Says
<1>3. \A x \in Executors : job'[x].pc \in Executing => job[x].pc \in Executing /\ job'[x].run = job[x].run
  BY <1>1
<1>4. VerdictFits(o) /\ job[o].pc \in Executing /\ job[o].run \notin shared
  BY <1>2, <1>3 DEF StrongInv, VerdictsFit
<1>5. \A x \in Executors : x # o /\ job'[x].pc \in Executing => job'[x].run # job'[o].run
  BY <1>2, <1>3, <1>4 DEF VerdictFits
<1>6. CASE o = e BY <1>1, <1>2, <1>5, <1>6
<1>7. CASE o # e
  <2>1. job'[o] = job[o] BY <1>1, <1>7
  <2>2. Says(row[job[o].run], job[o].pc) BY <1>4 DEF VerdictFits, Says
  <2> QED BY <1>4, <1>5, <1>7, <2>1, <2>2
<1> QED BY <1>6, <1>7

\* Executor e enters the try block with a run that is running.
LEMMA VerdictBegins ==
  ASSUME StrongInv, NEW e \in Executors, Begin(e), job[e].pc \in {"claim", "look"},
         row'[job[e].run] = "running" \/ \E o \in Executors \ {e} : job[o].pc \in Executing /\ job[o].run = job[e].run,
         \A o \in Executors : o # e /\ job[o].pc \in Executing => row'[job[o].run] = row[job[o].run]
  PROVE  VerdictsFit'
<1> DEFINE others == {o \in Executors \ {e} : job[o].pc \in Executing}
<1>1. job[e].pc \notin Executing /\ \A o \in Executors : job[o] \in JobType
  BY DEF StrongInv, Inv, JobsFit, Executing, Trying
<1>2. \A j \in JobType : \A b \in BOOLEAN :
        /\ LET g == [j EXCEPT !.pc = "read", !.m = 1, !.alone = b] IN g.pc = "read" /\ g.run = j.run
        /\ LET g == [j EXCEPT !.alone = FALSE] IN g.pc = j.pc /\ g.run = j.run
  BY DEF JobType
<1>3. job'[e].pc = "read" /\ job'[e].run = job[e].run
  <2>1. job'[e] = [job[e] EXCEPT !.pc = "read", !.m = 1, !.alone = (others = {})] BY DEF Begin
  <2> HIDE DEF others
  <2> QED BY <1>1, <1>2, <2>1
<1>4. \A o \in Executors : o # e => job'[o].pc = job[o].pc /\ job'[o].run = job[o].run
  <2> SUFFICES ASSUME NEW o \in Executors, o # e PROVE job'[o].pc = job[o].pc /\ job'[o].run = job[o].run
    OBVIOUS
  <2>1. job'[o] = job[o] \/ job'[o] = [job[o] EXCEPT !.alone = FALSE] BY DEF Begin
  <2> QED BY <1>1, <1>2, <2>1
<1>5. shared \subseteq shared' /\ ((\E o \in others : job[o].run = job[e].run) => job[e].run \in shared')
  BY DEF Begin
<1>6. SUFFICES ASSUME NEW o \in Executors, job'[o].pc \in Executing, job'[o].run \notin shared'
               PROVE  /\ \A x \in Executors : x # o /\ job'[x].pc \in Executing => job'[x].run # job'[o].run
                      /\ Says(row'[job'[o].run], job'[o].pc)
  BY DEF VerdictsFit, VerdictFits, Says
<1>7. CASE o = e
  <2>1. \A x \in Executors : x # e /\ job[x].pc \in Executing => job[x].run # job[e].run
    BY <1>3, <1>5, <1>6, <1>7
  <2>2. row'[job[e].run] = "running" BY <2>1
  <2> QED BY <1>3, <1>4, <1>7, <2>1, <2>2 DEF Says
<1>8. CASE o # e
  <2>1. job[o].pc \in Executing /\ job[o].run \notin shared /\ job[o].run # job[e].run
    BY <1>4, <1>5, <1>6, <1>8
  <2>2. VerdictFits(o) BY DEF StrongInv, VerdictsFit
  <2>3. Says(row'[job[o].run], job[o].pc) BY <1>8, <2>1, <2>2 DEF VerdictFits, Says
  <2>4. \A x \in Executors : x # o /\ job'[x].pc \in Executing => job'[x].run # job[o].run
    BY <1>3, <1>4, <2>1, <2>2 DEF VerdictFits
  <2> QED BY <1>4, <1>8, <2>3, <2>4
<1> QED BY <1>7, <1>8

\* The steps of an executor that do not begin an execution.
LEMMA VerdictsStay ==
  ASSUME StrongInv, NEW e \in Executors,
         StartPass(e) \/ PickRun(e) \/ QueryFails(e) \/ Refuse(e) \/ Call(e) \/ Request(e)
         \/ (Claim(e) /\ (row[job[e].run] # "pending" \/ Goto(e, Idle))) \/ (Look(e) /\ row[job[e].run] \in Finished)
         \/ Read(e) \/ Get(e) \/ PushItem(e) \/ PushSet(e)
         \/ Conclude(e) \/ Tell(e) \/ Throw(e) \/ Catch(e) \/ CatchFails(e) \/ Crash(e)
  PROVE  VerdictsFit'
<1>0. /\ Inv /\ job[e] \in JobType /\ JobFits(job[e]) /\ VerdictFits(e) /\ row \in [Runs -> Status]
      /\ scene \in Scenes
  BY DEF StrongInv, Inv, JobsFit, VerdictsFit, RowsTyped
<1>1. \A o \in Executors : job[o].pc \in Executing =>
        job[o].run \in Runs /\ row[job[o].run] \notin {"none", "pending"}
  BY DEF StrongInv, Inv, JobsFit, JobFits, Executing, Trying
<1>2. Idle \in JobType /\ Idle.pc = "idle" /\ Left(e) \in JobType /\ Left(e).pc \in {"idle", "pick"}
  BY <1>0, IdleFits, LeftFits, LeftForce DEF Idle
<1>3. ASSUME NEW f \in JobType, Goto(e, f), f.pc \notin Executing, shared' = shared,
             \A o \in Executors : o # e /\ job[o].pc \in Executing /\ job[o].run \notin shared =>
               row'[job[o].run] = row[job[o].run]
      PROVE  VerdictsFit'
  BY <1>3, VerdictStays
<1>4. CASE QueryFails(e) \/ Tell(e) \/ CatchFails(e) \/ Crash(e) \/ (Look(e) /\ row[job[e].run] \in Finished)
  <2>1. PICK f \in JobType : Goto(e, f) /\ f.pc \notin Executing
    BY <1>2, <1>4 DEF QueryFails, Tell, CatchFails, Crash, Look, Executing, Trying
  <2>2. shared' = shared /\ row' = row
    BY <1>4 DEF QueryFails, Tell, CatchFails, Crash, Look
  <2> QED BY <1>3, <2>1, <2>2
<1>5. CASE StartPass(e)
  <2>1. [Idle EXCEPT !.pc = "pick", !.list = {r \in Runs : row[r] = "pending"}] \in JobType
    BY <1>2 DEF JobType
  <2>2. PICK f \in JobType : Goto(e, f) /\ f.pc = "pick"
    BY <1>5, <2>1 DEF StartPass, Idle
  <2> QED BY <1>3, <1>5, <2>2 DEF StartPass, Executing, Trying
<1>6. CASE PickRun(e)
  <2>1. PICK r \in job[e].list :
          Goto(e, [job[e] EXCEPT !.pc = IF entitled THEN "claim" ELSE "refuse",
                                 !.run = r, !.list = @ \ {r}])
    BY <1>6 DEF PickRun
  <2>2. r \in Nat
    <3>1. r \in Runs /\ scene.runs \in Nat BY <1>0, SceneTyped DEF JobType
    <3> QED BY <3>1 DEF Runs
  <2>3. \A label \in {"claim", "refuse"} :
          LET f == [job[e] EXCEPT !.pc = label, !.run = r, !.list = @ \ {r}] IN
          f \in JobType /\ f.pc = label
    BY <1>0, <2>2 DEF JobType
  <2>4. PICK f \in JobType : Goto(e, f) /\ f.pc \in {"claim", "refuse"} BY <2>1, <2>3
  <2>5. row' = row /\ shared' = shared BY <1>6 DEF PickRun
  <2> QED BY <1>3, <2>4, <2>5 DEF Executing, Trying
<1>7. CASE Request(e) \/ (Claim(e) /\ row[job[e].run] # "pending")
  <2>1. \A label \in {"claim", "look"} :
          [job[e] EXCEPT !.pc = label] \in JobType /\ [job[e] EXCEPT !.pc = label].pc = label
    BY <1>0 DEF JobType
  <2>2. PICK f \in JobType : Goto(e, f) /\ f.pc \in {"claim", "look", "idle"}
    BY <1>2, <1>7, <2>1 DEF Request, Claim
  <2>3. row' = row /\ shared' = shared BY <1>7 DEF Request, Claim
  <2> QED BY <1>3, <2>2, <2>3 DEF Executing, Trying
<1>8. CASE Call(e)
  <2>1. PICK r \in Runs : /\ row[r] = "none" /\ row' = [row EXCEPT ![r] = "pending"]
                          /\ Goto(e, [Idle EXCEPT !.pc = "request", !.run = r])
    BY <1>8 DEF Call
  <2>2. r \in Nat
    <3>1. scene.runs \in Nat BY <1>0, SceneTyped
    <3> QED BY <3>1 DEF Runs
  <2>3. [Idle EXCEPT !.pc = "request", !.run = r] \in JobType BY <1>2, <2>2 DEF JobType
  <2>4. PICK f \in JobType : Goto(e, f) /\ f.pc = "request" BY <2>1, <2>3 DEF Idle
  <2>5. \A x \in Runs : x # r => row'[x] = row[x] BY <1>0, <2>1
  <2>6. shared' = shared BY <1>8 DEF Call
  <2> QED BY <1>1, <1>3, <2>1, <2>4, <2>5, <2>6 DEF Executing, Trying
<1>9. CASE Refuse(e) \/ (Claim(e) /\ row[job[e].run] = "pending" /\ Goto(e, Idle))
  <2>1. PICK f \in JobType : Goto(e, f) /\ f.pc \notin Executing
    BY <1>2, <1>9 DEF Refuse, Executing, Trying
  <2>2. shared' = shared /\ \A x \in Runs : row[x] # "pending" => row'[x] = row[x]
    <3>1. CASE Refuse(e) BY <1>0, <3>1 DEF Refuse
    <3>2. CASE Claim(e) /\ row[job[e].run] = "pending" /\ Goto(e, Idle)
      <4>1. ~Begin(e)
        <5>1. job'[e].pc = "idle" BY <1>2, <3>2 DEF Goto, StrongInv, Inv, JobsFit
        <5>2. Begin(e) => job'[e].pc = "read" BY <1>0 DEF Begin, JobType
        <5> QED BY <5>1, <5>2
      <4>2. shared' = shared BY <3>2, <4>1 DEF Claim
      <4>3. row' = [row EXCEPT ![job[e].run] = "running"] BY <3>2 DEF Claim
      <4> QED BY <1>0, <3>2, <4>2, <4>3
    <3> QED BY <1>9, <3>1, <3>2
  <2> QED BY <1>1, <1>3, <2>1, <2>2
<1>10. CASE Catch(e)
  <2>1. PICK f \in JobType : Goto(e, f) /\ f.pc \notin Executing
    BY <1>2, <1>10 DEF Catch, Executing, Trying
  <2>2. shared' = shared /\ job[e].pc \in Executing BY <1>10 DEF Catch, Executing
  <2>3. \A x \in Runs : x # job[e].run => row'[x] = row[x] BY <1>0, <1>10 DEF Catch
  <2>4. \A o \in Executors : o # e /\ job[o].pc \in Executing /\ job[o].run \notin shared => job[o].run # job[e].run
    BY <2>2 DEF StrongInv, VerdictsFit, VerdictFits
  <2> QED BY <1>1, <1>3, <2>1, <2>2, <2>3, <2>4
<1>11. CASE Conclude(e)
  <2>1. LET f == [job[e] EXCEPT !.pc = "tell"] IN f \in JobType /\ f.pc = "tell" /\ f.run = job[e].run
    BY <1>0 DEF JobType, Executing, Trying
  <2>2. PICK f \in JobType : Goto(e, f) /\ f.pc = "tell" /\ f.run = job[e].run
    BY <1>11, <2>1 DEF Conclude
  <2>3. shared' = shared /\ job[e].pc \in Executing BY <1>11 DEF Conclude, Executing, Trying
  <2>4. job[e].run \in Runs BY <1>1, <2>3
  <2>5. row'[job[e].run] = "succeeded" /\ \A x \in Runs : x # job[e].run => row'[x] = row[x]
    BY <1>0, <1>11, <2>4 DEF Conclude
  <2>6. \A o \in Executors : o # e /\ job[o].pc \in Executing /\ job[o].run \notin shared => job[o].run # job[e].run
    BY <2>3 DEF StrongInv, VerdictsFit, VerdictFits
  <2> QED BY <1>1, <2>2, <2>3, <2>5, <2>6, VerdictStays DEF Says
<1>12. ASSUME row' = row, shared' = shared, NEW f \in JobType, Goto(e, f), f.run = job[e].run,
              \/ job[e].pc \in Trying /\ f.pc = "catch"
              \/ /\ job[e].pc \in {"read", "get", "push"}
                 /\ f.pc \in {"read", "get", "push", "conclude"}
       PROVE  VerdictsFit'
  <2>1. job[e].pc \in Executing BY <1>12 DEF Executing, Trying
  <2>2. f.run \notin shared => Says(row'[f.run], f.pc)
    BY <1>0, <1>12, <2>1 DEF VerdictFits, Says, Trying
  <2> QED BY <1>12, <2>1, <2>2, VerdictStays
<1>13. LET f == [job[e] EXCEPT !.pc = "catch"] IN f \in JobType /\ f.pc = "catch" /\ f.run = job[e].run
  BY <1>0 DEF JobType, Executing, Trying
<1>14. CASE Throw(e)
  <2>1. PICK f \in JobType : Goto(e, f) /\ f.pc = "catch" /\ f.run = job[e].run
    BY <1>13, <1>14 DEF Throw
  <2>2. row' = row /\ shared' = shared /\ job[e].pc \in Trying BY <1>14 DEF Throw
  <2> QED BY <1>12, <2>1, <2>2
<1>15. CASE Read(e) \/ Get(e) \/ PushItem(e) \/ PushSet(e)
  <2>1. row' = row /\ shared' = shared /\ job[e].pc \in {"read", "get", "push"} /\ job[e].pc \in Trying
    BY <1>15 DEF Read, Get, PushItem, PushSet, Trying
  <2>2. PICK f \in JobType : /\ Goto(e, f) /\ f.run = job[e].run
                             /\ f.pc \in {"read", "get", "push", "conclude", "catch"}
    BY <1>15, ReadForce, GetForce, PushItemForce, PushSetForce DEF Advances
  <2> QED BY <1>12, <2>1, <2>2
<1> QED BY <1>4, <1>5, <1>6, <1>7, <1>8, <1>9, <1>10, <1>11, <1>14, <1>15

\* A run that is begun is claimed, or running already.
LEMMA BeginsVerdict ==
  ASSUME StrongInv, NEW e \in Executors,
         \/ Claim(e) /\ row[job[e].run] = "pending" /\ Begin(e)
         \/ Look(e) /\ row[job[e].run] \notin Finished
  PROVE  AloneIsAlone' /\ JobsInForce' /\ VerdictsFit'
<1>0. job[e] \in JobType /\ JobFits(job[e]) /\ row \in [Runs -> Status]
  BY DEF StrongInv, Inv, JobsFit, RowsTyped
<1>1. Begin(e) /\ UNCHANGED <<remote, scene>> /\ job[e].pc \in {"claim", "look"}
  BY DEF Claim, Look
<1>2. job[e].run \in Runs BY <1>0, <1>1 DEF JobFits
<1>3. row'[job[e].run] = "running" /\ \A x \in Runs : row[x] # "pending" => row'[x] = row[x]
  <2>1. CASE Claim(e) /\ row[job[e].run] = "pending" /\ Begin(e) BY <1>0, <1>2, <2>1 DEF Claim
  <2>2. CASE Look(e) /\ row[job[e].run] \notin Finished
    <3>1. row[job[e].run] \notin {"none", "pending"} BY <1>0, <2>2 DEF Look, JobFits
    <3>2. row' = row BY <2>2 DEF Look
    <3> QED BY <1>0, <1>2, <2>2, <3>1, <3>2 DEF Status, Finished
  <2> QED BY <2>1, <2>2
<1>4. \A o \in Executors : job[o].pc \in Executing => job[o].run \in Runs /\ row[job[o].run] # "pending"
  BY DEF StrongInv, Inv, JobsFit, JobFits, Executing, Trying
<1>5. VerdictsFit' BY <1>1, <1>3, <1>4, VerdictBegins
<1> QED BY <1>1, <1>5, BeginForce

-----------------------------------------------------------------------------

\* The strong invariant holds at first.
LEMMA StrongInit == Init => StrongInv
<1> SUFFICES ASSUME Init PROVE StrongInv OBVIOUS
<1>1. \A e \in Executors : job[e] = Idle BY DEF Init
<1>2. JobsInForce BY <1>1, IdleForce DEF JobsInForce
<1>3. AloneIsAlone /\ VerdictsFit
  BY <1>1 DEF AloneIsAlone, VerdictsFit, VerdictFits, Idle, Executing, Trying
<1> QED BY <1>2, <1>3, InvInit DEF StrongInv

\* Every step of an executor keeps it.
LEMMA StrongStep ==
  ASSUME StrongInv, NEW e \in Executors,
         Advance(e) \/ Call(e) \/ Throw(e) \/ QueryFails(e) \/ CatchFails(e) \/ Crash(e)
  PROVE  AloneIsAlone' /\ JobsInForce' /\ VerdictsFit'
<1>1. CASE Claim(e) \/ Look(e)
  <2>1. Claim(e) => \/ row[job[e].run] # "pending" \/ Goto(e, Idle)
                    \/ row[job[e].run] = "pending" /\ Begin(e)
    BY DEF Claim
  <2> QED BY <1>1, <2>1, BeginsVerdict, QuietStepsForce, VerdictsStay
<1>2. CASE Read(e) \/ Get(e) \/ PushItem(e) \/ PushSet(e)
  BY <1>2, ReadForce, GetForce, PushItemForce, PushSetForce, VerdictsStay
<1>3. CASE StartPass(e) \/ PickRun(e) \/ QueryFails(e) \/ Refuse(e) \/ Call(e) \/ Request(e)
           \/ Conclude(e) \/ Tell(e) \/ Throw(e) \/ Catch(e) \/ CatchFails(e) \/ Crash(e)
  BY <1>3, QuietStepsForce, VerdictsStay
<1> QED BY <1>1, <1>2, <1>3 DEF Advance

\* And so do the changes of the world, and stuttering.
LEMMA StrongWorld ==
  ASSUME StrongInv, ChangeVault \/ ChangeEntitlement \/ UNCHANGED vars
  PROVE  AloneIsAlone' /\ JobsInForce' /\ VerdictsFit'
<1>1. UNCHANGED <<row, remote, scene, job, shared>>
  BY DEF ChangeVault, ChangeEntitlement, vars
<1>3. AloneIsAlone' /\ VerdictsFit'
  BY <1>1 DEF StrongInv, AloneIsAlone, VerdictsFit, VerdictFits
<1>4. ASSUME NEW o \in Executors PROVE (Progress(job[o]) /\ InForce(job[o], remote))'
  <2>1. PICK j \in JobType : j = job[o] BY DEF StrongInv, Inv, JobsFit
  <2>2. PICK rem \in [Targets -> Remote] : rem = remote BY DEF StrongInv, Inv, RestTyped
  <2>3. Progress(j) /\ InForce(j, rem) BY <2>1, <2>2 DEF StrongInv, JobsInForce
  <2>4. Progress(j)' /\ InForce(j, rem)' BY <1>1, <2>3, ForceFixed
  <2>5. j = job'[o] /\ rem = remote' BY <1>1, <2>1, <2>2
  <2> QED BY <2>4, <2>5, ForceNext
<1> QED BY <1>3, <1>4 DEF JobsInForce

LEMMA StrongAlways == Spec => []StrongInv
<1>1. StrongInv /\ [Next]_vars => StrongInv'
  <2> SUFFICES ASSUME StrongInv, [Next]_vars PROVE AloneIsAlone' /\ JobsInForce' /\ VerdictsFit' /\ Inv'
    BY DEF StrongInv
  <2>1. Inv' BY InvNext DEF StrongInv
  <2>2. AloneIsAlone' /\ JobsInForce' /\ VerdictsFit' BY StrongStep, StrongWorld DEF Next
  <2> QED BY <2>1, <2>2
<1> QED BY StrongInit, <1>1, PTL DEF Spec

\* Whatever overlaps, fails or dies: a verdict changes only when two executors
\* had executed the run at one time, or when the audit event of a success
\* could not be written.
THEOREM VerdictStandsAlways == Spec => VerdictStands
<1> DEFINE A == \A r \in Runs : row[r] \in Finished /\ row'[r] # row[r] =>
                  \/ r \in shared
                  \/ \E e \in Executors : job[e].run = r /\ job[e].pc = "catch"
                                          /\ row[r] = "succeeded" /\ row'[r] = "failed"
<1>1. StrongInv /\ [Next]_vars => [A]_vars
  <2> SUFFICES ASSUME StrongInv, [Next]_vars, NEW r \in Runs, row[r] \in Finished, row'[r] # row[r],
                      r \notin shared
               PROVE  \E e \in Executors : job[e].run = r /\ job[e].pc = "catch"
                                           /\ row[r] = "succeeded" /\ row'[r] = "failed"
    OBVIOUS
  <2>0. row \in [Runs -> Status] BY DEF StrongInv, Inv, RowsTyped
  <2>1. row' # row OBVIOUS
  <2>2. PICK e \in Executors : Refuse(e) \/ Call(e) \/ Claim(e) \/ Conclude(e) \/ Catch(e)
    BY <2>1 DEF Next, Advance, vars, StartPass, PickRun, QueryFails, Request, Look, Read, Get, PushItem,
              PushSet, Tell, Throw, CatchFails, Crash, ChangeVault, ChangeEntitlement
  <2>3. VerdictFits(e) BY DEF StrongInv, VerdictsFit
  <2>4. CASE Refuse(e) BY <2>0, <2>4 DEF Refuse, Finished
  <2>5. CASE Call(e)
    <3>1. PICK x \in Runs : row[x] = "none" /\ row' = [row EXCEPT ![x] = "pending"] BY <2>5 DEF Call
    <3> QED BY <2>0, <3>1 DEF Finished
  <2>6. CASE Claim(e) BY <2>0, <2>6 DEF Claim, Finished
  <2>7. CASE Conclude(e)
    <3>1. job[e].run = r BY <2>0, <2>7 DEF Conclude
    <3>2. row[r] = "running" BY <2>3, <2>7, <3>1 DEF Conclude, VerdictFits, Executing, Trying
    <3> QED BY <3>2 DEF Finished
  <2>8. CASE Catch(e)
    <3>1. job[e].run = r /\ row'[r] = "failed" BY <2>0, <2>8 DEF Catch
    <3>2. row[r] = "succeeded" BY <2>3, <2>8, <3>1 DEF Catch, VerdictFits, Executing, Finished
    <3> QED BY <2>8, <3>1, <3>2 DEF Catch
  <2> QED BY <2>2, <2>4, <2>5, <2>6, <2>7, <2>8
<1> QED BY StrongAlways, <1>1, PTL DEF Spec, VerdictStands

\* An execution that no other overlapped reports success only for what the
\* provider then has, whatever style its API takes values in, however many
\* mappings share a target, and whatever failed before.
THEOREM SuccessIsInForceAlways == Spec => SuccessIsInForce
<1> DEFINE A == \A e \in Executors :
       job[e].pc = "conclude" /\ job'[e].pc = "tell" /\ job[e].alone =>
         \A m \in Mappings : \A k \in Present(job[e].items[m]) :
           \/ \E y \in Present(job[e].items[m]) :
                Name(m, y) = Name(m, k) /\ remote[Target[m]][Name(m, k)] = job[e].items[m][y]
           \/ Shadowed(e, m, k)
           \/ /\ <<m, k>> \in job[e].ignored /\ MayDrop(Target[m])
              /\ scene.style = "create" => remote[Target[m]][Name(m, k)] # Absent
<1>1. StrongInv => A
  <2> SUFFICES ASSUME StrongInv, NEW e \in Executors, job[e].pc = "conclude", job[e].alone,
                      NEW m \in Mappings, NEW k \in Present(job[e].items[m])
               PROVE  \/ \E y \in Present(job[e].items[m]) :
                           Name(m, y) = Name(m, k) /\ remote[Target[m]][Name(m, k)] = job[e].items[m][y]
                      \/ Shadowed(e, m, k)
                      \/ /\ <<m, k>> \in job[e].ignored /\ MayDrop(Target[m])
                         /\ scene.style = "create" => remote[Target[m]][Name(m, k)] # Absent
    OBVIOUS
  <2>1. InForce(job[e], remote) /\ Progress(job[e]) /\ scene \in Scenes
    BY DEF StrongInv, JobsInForce, Inv, RowsTyped
  <2>2. AllDelivered(job[e], remote, job[e].m, {}) /\ job[e].m = Last BY <2>1 DEF InForce, Progress
  <2>3. m < Last \/ m = Last
    <3>1. Last \in Nat BY <2>1, SceneTyped
    <3> QED BY <3>1 DEF Mappings
  <2>4. Delivered(job[e], remote, m, k) BY <2>2, <2>3 DEF AllDelivered, Present
  <2>5. CASE Has(job[e], remote, m, k) BY <2>5 DEF Has, Present
  <2>6. CASE Covered(job[e], m, k) BY <2>6 DEF Covered, Shadowed, Present
  <2>7. CASE Dropped(job[e], remote, m, k) BY <2>7 DEF Dropped
  <2> QED BY <2>4, <2>5, <2>6, <2>7 DEF Delivered
<1> QED BY StrongAlways, <1>1, PTL DEF SuccessIsInForce
=============================================================================
