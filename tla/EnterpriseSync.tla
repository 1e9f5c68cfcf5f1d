---------------------------- MODULE EnterpriseSync ----------------------------
(* Sync runs of one organization and one provider: rows of sync_run that push  *)
(* the variables and secrets of env-type mappings to a provider's targets.     *)
(* enterprise-sync.service.ts runs them (a worker pass every 30 seconds in     *)
(* every API process, and the manual call), enterprise-provider-sync.service.ts*)
(* does the pushing. An executor is one thread of control: a worker pass or a  *)
(* manual call; two passes at once are passes of two processes.                *)
EXTENDS Naturals, Sequences, FiniteSetsExt

CONSTANTS Executors,   \* worker passes and manual calls that may overlap
          Keys,        \* variables and secrets of an environment type
          Values,
          Names,       \* what the provider calls them
          Absent,      \* no value
          Scenes,      \* set of [style, target, name, bare, vault, keys, runs]: how the
                       \* provider's API takes values (see WriteOf and SetOf); per
                       \* env-type mapping, in order, its remote project or group, its
                       \* keys' remote names and the values at first; the targets that
                       \* are apps without a service; the bounds on the keys that are
                       \* changed, and on sync runs
          Faults,      \* subset of {"throw", "reply", "list", "db", "crash"}
          MaxFaults, MaxChanges   \* bounds: failures, changes of the vault

ASSUME SyncAssumption ==
  /\ Absent \notin Values /\ Values # {}
  /\ MaxFaults \in Nat /\ MaxChanges \in Nat
  /\ \A s \in Scenes :
       /\ s.style \in {"each", "lenient", "create",
                       "patch", "graphql", "replace", "group", "spec"}
       /\ Len(s.target) \in Nat \ {0} /\ s.runs \in Nat
       /\ s.name \in [1..Len(s.target) -> [Keys -> Names]]
       /\ s.vault \in [1..Len(s.target) -> [Keys -> Values \cup {Absent}]]
       /\ s.keys \subseteq Keys

VARIABLES
  row,       \* status of each run, "none" before it is created
  reason,    \* its error_message: "none", "entitlement" or "failure"
  entitled,  \* the organization has the feature "integrations"
  source,    \* the vault: per mapping, the values of its environment type
  remote,    \* the provider: per target, the values it has under each name
  scene,     \* fixed: one of Scenes
  job,       \* what each executor is doing
  pushed,    \* auxiliary: the runs for which the provider was written to
  shared,    \* auxiliary: the runs two executors were executing at one time
  lost,      \* auxiliary: the runs an executor dropped without a verdict
  changes, faults

vars == <<row, reason, entitled, source, remote, scene, job, pushed, shared, lost, changes, faults>>

Runs == 1..scene.runs
Target == scene.target
Last == Len(Target)
Mappings == 1..Last
Targets == {Target[m] : m \in Mappings}
Itemwise == scene.style \in {"each", "lenient", "create"}
Snapshot == [Keys -> Values \cup {Absent}]
NoValues == [k \in Keys |-> Absent]
Present(s) == {k \in Keys : s[k] # Absent}

\* buildRemoteKey and sanitizeSecretKey: a prefix, one character for all that are not
\* allowed, and capitals. Two keys may come to one name.
Name(m, k) == scene.name[m][k]
Remote == [Names -> Values \cup {Absent}]
Empty == [n \in Names |-> Absent]
Overlay(s, t) == [n \in Names |-> IF t[n] # Absent THEN t[n] ELSE s[n]]

\* The items of mapping m under their remote names. Of the keys with one name the
\* last one listed counts; the order of the list is left open.
Named(m, items) ==
  {s \in Remote : \A n \in Names :
     LET ks == {k \in Present(items) : Name(m, k) = n}
     IN IF ks = {} THEN s[n] = Absent ELSE \E k \in ks : s[n] = items[k]}
Status == {"none", "pending", "running", "succeeded", "failed"}
Finished == {"succeeded", "failed"}

\* run: the run at work on; list: runs the pass selected and has not reached;
\* m: the mapping at work on; items: what was read for each mapping; left: its
\* items not written yet; group: the remote set that was fetched to be changed;
\* alone, ignored (auxiliary): no other execution overlapped this one; the items
\* that did not arrive though the call counted as a success.
Idle == [pc |-> "idle", list |-> {}, run |-> 0, m |-> 0,
         items |-> [m \in Mappings |-> NoValues], left |-> {}, group |-> Empty,
         alone |-> TRUE, ignored |-> {}]

\* the try block of executeRun, and its catch block
Trying == {"read", "get", "push", "conclude", "tell"}
Executing == Trying \cup {"catch"}

Goto(e, j) == job' = [job EXCEPT ![e] = j]

\* A fault of kind f happens: the bound on faults is used up by one. ("throw" ends
\* an execution and needs no bound.)
Fault(f) == f \in Faults /\ faults < MaxFaults /\ faults' = faults + 1

\* executeRun is over: the pass takes its next run, the manual call answers.
\* A pass with no run left is over.
Left(e) == IF job[e].list # {} THEN [Idle EXCEPT !.pc = "pick", !.list = job[e].list]
                               ELSE Idle

-----------------------------------------------------------------------------
\* A worker pass starts: it selects the pending runs (at most ten; fewer exist here).
StartPass(e) ==
  /\ job[e].pc = "idle"
  /\ \E r \in Runs : row[r] = "pending"
  /\ Goto(e, [Idle EXCEPT !.pc = "pick", !.list = {r \in Runs : row[r] = "pending"}])
  /\ UNCHANGED <<row, reason, entitled, source, remote, scene, pushed, shared, lost, changes, faults>>

\* The pass takes the oldest run it selected and asks for the entitlement.
PickRun(e) ==
  /\ job[e].pc = "pick"
  /\ \E r \in job[e].list :
       /\ \A s \in job[e].list : r <= s
       /\ Goto(e, [job[e] EXCEPT !.pc = IF entitled THEN "claim" ELSE "refuse",
                                 !.run = r, !.list = @ \ {r}])
  /\ UNCHANGED <<row, reason, entitled, source, remote, scene, pushed, shared, lost, changes, faults>>

\* A query outside the try block fails: the entitlement's, or the UPDATE or SELECT of
\* the row. The error ends the pass, or the call.
QueryFails(e) ==
  /\ job[e].pc \in {"pick", "refuse", "claim", "look"}
  /\ Fault("db")
  /\ Goto(e, Idle)
  /\ UNCHANGED <<row, reason, entitled, source, remote, scene, pushed, shared, lost, changes>>

\* Faulty variant of Refuse: the UPDATE does not ask for pending.
RefuseAnything(e) ==
  /\ job[e].pc = "refuse"
  /\ row' = [row EXCEPT ![job[e].run] = "failed"]
  /\ reason' = [reason EXCEPT ![job[e].run] = "entitlement"]
  /\ Goto(e, Left(e))
  /\ UNCHANGED <<entitled, source, remote, scene, pushed, shared, lost, changes, faults>>

\* Faulty variant of Refuse: the run is skipped and stays as it is.
RefuseSilently(e) ==
  /\ job[e].pc = "refuse"
  /\ Goto(e, Left(e))
  /\ UNCHANGED <<row, reason, entitled, source, remote, scene, pushed, shared, lost, changes, faults>>

\* failUnentitledRun: a conditional UPDATE; if its audit event then cannot be
\* written, the error ends the pass.
Refuse(e) ==
  /\ job[e].pc = "refuse"
  /\ IF row[job[e].run] = "pending"
     THEN /\ row' = [row EXCEPT ![job[e].run] = "failed"]
          /\ reason' = [reason EXCEPT ![job[e].run] = "entitlement"]
     ELSE UNCHANGED <<row, reason>>
  /\ \/ Goto(e, Left(e)) /\ UNCHANGED faults
     \/ Fault("db") /\ Goto(e, Idle)
  /\ UNCHANGED <<entitled, source, remote, scene, pushed, shared, lost, changes>>

-----------------------------------------------------------------------------
\* createManualSyncRun, past the guards of its route: a pending row is inserted.
Call(e) ==
  /\ job[e].pc = "idle"
  /\ entitled
  /\ \E r \in Runs : /\ row[r] = "none"
                     /\ \A s \in 1..(r - 1) : row[s] # "none"
                     /\ row' = [row EXCEPT ![r] = "pending"]
                     /\ Goto(e, [Idle EXCEPT !.pc = "request", !.run = r])
  /\ UNCHANGED <<reason, entitled, source, remote, scene, pushed, shared, lost, changes, faults>>

\* Its audit event is written; when that fails, the caller gets an error and the
\* row stays pending, for the next pass.
Request(e) ==
  /\ job[e].pc = "request"
  /\ \/ Goto(e, [job[e] EXCEPT !.pc = "claim"]) /\ UNCHANGED faults
     \/ Fault("db") /\ Goto(e, Idle)
  /\ UNCHANGED <<row, reason, entitled, source, remote, scene, pushed, shared, lost, changes>>

-----------------------------------------------------------------------------
\* The executor enters the try block of executeRun. runExecutionPlan loads the
\* bindings, mappings, environment types and connections and takes the first mapping.
Begin(e) ==
  LET others == {o \in Executors \ {e} : job[o].pc \in Executing}
  IN /\ job' = [o \in Executors |->
                 IF o = e THEN [job[e] EXCEPT !.pc = "read", !.m = 1, !.alone = others = {}]
                 ELSE IF o \in others THEN [job[o] EXCEPT !.alone = FALSE] ELSE job[o]]
     /\ shared' = IF \E o \in others : job[o].run = job[e].run
                  THEN shared \cup {job[e].run} ELSE shared

\* Faulty variant of Claim: the UPDATE does not ask for pending.
ClaimAnything(e) ==
  /\ job[e].pc = "claim"
  /\ row' = [row EXCEPT ![job[e].run] = "running"]
  /\ reason' = [reason EXCEPT ![job[e].run] = "none"]
  /\ Begin(e)
  /\ UNCHANGED <<entitled, source, remote, scene, pushed, lost, changes, faults>>

\* UPDATE ... WHERE pending; a run that somebody else has taken is read next. When
\* the UPDATE takes effect and its reply is lost, the error ends the pass or the call:
\* the run is running and nobody executes it.
Claim(e) ==
  /\ job[e].pc = "claim"
  /\ \/ /\ row[job[e].run] = "pending"
        /\ row' = [row EXCEPT ![job[e].run] = "running"]
        /\ reason' = [reason EXCEPT ![job[e].run] = "none"]
        /\ \/ Begin(e) /\ UNCHANGED <<lost, faults>>
           \/ /\ Fault("reply")
              /\ Goto(e, Idle)
              /\ lost' = lost \cup {job[e].run}
              /\ UNCHANGED shared
     \/ /\ row[job[e].run] # "pending"
        /\ Goto(e, [job[e] EXCEPT !.pc = "look"])
        /\ UNCHANGED <<row, reason, shared, lost, faults>>
  /\ UNCHANGED <<entitled, source, remote, scene, pushed, changes>>

\* The row is finished: nothing to do. A row that is running is executed, also
\* when its claimant is still at work.
Look(e) ==
  /\ job[e].pc = "look"
  /\ IF row[job[e].run] \in Finished
     THEN Goto(e, Left(e)) /\ UNCHANGED shared
     ELSE Begin(e)
  /\ UNCHANGED <<row, reason, entitled, source, remote, scene, pushed, lost, changes, faults>>

\* Faulty variant of AfterMapping: one mapping too many.
AfterMappingOneMore(j) ==
  IF j.m <= Last THEN [j EXCEPT !.pc = "read", !.m = @ + 1] ELSE [j EXCEPT !.pc = "conclude"]

\* The job j has written the last item of its mapping: the next mapping, or the end.
AfterMapping(j) ==
  IF j.m < Last THEN [j EXCEPT !.pc = "read", !.m = @ + 1] ELSE [j EXCEPT !.pc = "conclude"]

\* The job j without item k.
AfterItem(j, k) ==
  IF j.left = {k} THEN AfterMapping([j EXCEPT !.left = {}]) ELSE [j EXCEPT !.left = @ \ {k}]

\* getAllEnv and getAllSecret of one mapping. The vault list drops the entries
\* it cannot read.
Read(e) ==
  LET m == job[e].m
  IN /\ job[e].pc = "read"
     /\ \E dropped \in SUBSET Present(source[m]) :
          LET found == [k \in Keys |-> IF k \in dropped THEN Absent ELSE source[m][k]]
              j == [job[e] EXCEPT !.items[m] = found, !.left = Present(found)]
          IN /\ IF dropped = {} THEN UNCHANGED faults ELSE Fault("list")
             /\ Goto(e, IF Itemwise /\ j.left = {} THEN AfterMapping(j)
                        ELSE [j EXCEPT !.pc = IF scene.style \in {"group", "spec"}
                                              THEN "get" ELSE "push"])
     /\ UNCHANGED <<row, reason, entitled, source, remote, scene, pushed, shared, lost, changes>>

\* Azure DevOps and DigitalOcean: the remote set is fetched to be changed.
Get(e) ==
  /\ job[e].pc = "get"
  /\ Goto(e, [job[e] EXCEPT !.pc = "push", !.group = remote[Target[job[e].m]]])
  /\ UNCHANGED <<row, reason, entitled, source, remote, scene, pushed, shared, lost, changes, faults>>

\* What an item's write that counts as a success may leave at the provider.
\* "each": an item is put or upserted (GitHub, GitLab, Vercel, AWS, Google ...).
Upsert(old, new) == {new}
\* "lenient": a PUT whose 404 counts as success (CircleCI).
PutOrMissing(old, new) == {new, old}
\* "create": a POST whose 409 or 422 counts as success (Jenkins, Bitbucket, Render ...).
CreateOnly(old, new) == {IF old = Absent THEN new ELSE old}

\* Faulty variant of WriteOf: the answer to an item's write is not looked at.
WriteOfUnchecked(old, new) ==
  IF scene.style = "create" THEN CreateOnly(old, new) ELSE PutOrMissing(old, new)

WriteOf(old, new) ==
  CASE scene.style = "each"    -> Upsert(old, new)
    [] scene.style = "lenient" -> PutOrMissing(old, new)
    [] scene.style = "create"  -> CreateOnly(old, new)

\* What one call with all items of a mapping, new, may leave at target t, where old
\* was. They are added ("patch": Fly.io, Heroku, Deno, Hasura), or an error reported
\* under status 200 is taken for success ("graphql": Railway); they replace the set
\* ("replace": Netlify, Azure App Service); the set fetched before is sent back changed
\* ("group": Azure DevOps); or each service of the app's specification is changed, and
\* an app without one gets back what was fetched ("spec": DigitalOcean).
SetOf(t, old, fetched, new) ==
  CASE scene.style = "patch"   -> {Overlay(old, new)}
    [] scene.style = "graphql" -> {Overlay(old, new), old}
    [] scene.style = "replace" -> {new}
    [] scene.style = "group"   -> {Overlay(fetched, new)}
    [] scene.style = "spec"    -> {IF t \in scene.bare THEN fetched ELSE Overlay(fetched, new)}

\* A provider call takes effect and answers, or takes effect and the answer is lost.
Answered(e, j) ==
  \/ Goto(e, j) /\ UNCHANGED faults
  \/ Fault("reply") /\ Goto(e, [job[e] EXCEPT !.pc = "catch"])

PushItem(e) ==
  LET m == job[e].m
      t == Target[m]
  IN /\ job[e].pc = "push"
     /\ Itemwise
     /\ \E k \in job[e].left : \E v \in WriteOf(remote[t][Name(m, k)], job[e].items[m][k]) :
          /\ remote' = [remote EXCEPT ![t][Name(m, k)] = v]
          /\ Answered(e, AfterItem([job[e] EXCEPT !.ignored =
                IF v = job[e].items[m][k] THEN @ ELSE @ \cup {<<m, k>>}], k))
     /\ pushed' = pushed \cup {job[e].run}
     /\ UNCHANGED <<row, reason, entitled, source, scene, shared, lost, changes>>

\* The items of mapping m whose value in new the set does not have.
Missing(m, items, new, set) ==
  {<<m, k>> : k \in {k \in Present(items) : set[Name(m, k)] # new[Name(m, k)]}}

PushSet(e) ==
  LET m == job[e].m
      t == Target[m]
      items == job[e].items[m]
  IN /\ job[e].pc = "push"
     /\ ~Itemwise
     /\ \E new \in Named(m, items) : \E set \in SetOf(t, remote[t], job[e].group, new) :
          /\ remote' = [remote EXCEPT ![t] = set]
          /\ Answered(e, AfterMapping([job[e] EXCEPT !.left = {}, !.group = Empty,
                             !.ignored = @ \cup Missing(m, items, new, set)]))
     /\ pushed' = pushed \cup {job[e].run}
     /\ UNCHANGED <<row, reason, entitled, source, scene, shared, lost, changes>>

\* UPDATE to succeeded, by id alone; the audit event follows inside the try block.
Conclude(e) ==
  /\ job[e].pc = "conclude"
  /\ row' = [row EXCEPT ![job[e].run] = "succeeded"]
  /\ reason' = [reason EXCEPT ![job[e].run] = "none"]
  /\ Goto(e, [job[e] EXCEPT !.pc = "tell"])
  /\ UNCHANGED <<entitled, source, remote, scene, pushed, shared, lost, changes, faults>>

Tell(e) ==
  /\ job[e].pc = "tell"
  /\ Goto(e, Left(e))
  /\ UNCHANGED <<row, reason, entitled, source, remote, scene, pushed, shared, lost, changes, faults>>

\* A query, a validation or a provider call inside the try block fails.
Throw(e) ==
  /\ job[e].pc \in Trying
  /\ "throw" \in Faults
  /\ Goto(e, [job[e] EXCEPT !.pc = "catch"])
  /\ UNCHANGED <<row, reason, entitled, source, remote, scene, pushed, shared, lost, changes, faults>>

\* The catch block: UPDATE to failed, by id alone, and an audit event, whose
\* failure ends the pass.
Catch(e) ==
  /\ job[e].pc = "catch"
  /\ row' = [row EXCEPT ![job[e].run] = "failed"]
  /\ reason' = [reason EXCEPT ![job[e].run] = "failure"]
  /\ \/ Goto(e, Left(e)) /\ UNCHANGED faults
     \/ Fault("db") /\ Goto(e, Idle)
  /\ UNCHANGED <<entitled, source, remote, scene, pushed, shared, lost, changes>>

\* The UPDATE of the catch block fails: the run keeps the status it has.
CatchFails(e) ==
  /\ job[e].pc = "catch"
  /\ Fault("db")
  /\ Goto(e, Idle)
  /\ lost' = lost \cup {job[e].run}
  /\ UNCHANGED <<row, reason, entitled, source, remote, scene, pushed, shared, changes>>

\* The process dies. Nothing looks for runs left in running.
Crash(e) ==
  /\ job[e].pc # "idle"
  /\ Fault("crash")
  /\ Goto(e, Idle)
  /\ lost' = IF job[e].pc \in Executing THEN lost \cup {job[e].run} ELSE lost
  /\ UNCHANGED <<row, reason, entitled, source, remote, scene, pushed, shared, changes>>

-----------------------------------------------------------------------------
\* Somebody writes or deletes an entry of the vault.
ChangeVault ==
  /\ changes < MaxChanges
  /\ changes' = changes + 1
  /\ \E m \in Mappings, k \in scene.keys, v \in Values \cup {Absent} :
       v # source[m][k] /\ source' = [source EXCEPT ![m][k] = v]
  /\ UNCHANGED <<row, reason, entitled, remote, scene, job, pushed, shared, lost, faults>>

\* The organization loses or gets the feature.
ChangeEntitlement ==
  /\ entitled' = ~entitled
  /\ UNCHANGED <<row, reason, source, remote, scene, job, pushed, shared, lost, changes, faults>>

Init ==
  /\ scene \in Scenes
  /\ row = [r \in Runs |-> "none"]
  /\ reason = [r \in Runs |-> "none"]
  /\ entitled \in BOOLEAN
  /\ source = scene.vault
  /\ remote = [t \in Targets |-> Empty]
  /\ job = [e \in Executors |-> Idle]
  /\ pushed = {} /\ shared = {} /\ lost = {}
  /\ changes = 0 /\ faults = 0

\* The steps the timer and the event loop drive an executor through.
Advance(e) ==
  \/ StartPass(e) \/ PickRun(e) \/ Refuse(e) \/ Request(e)
  \/ Claim(e) \/ Look(e) \/ Read(e) \/ Get(e) \/ PushItem(e) \/ PushSet(e)
  \/ Conclude(e) \/ Tell(e) \/ Catch(e)

Next ==
  \/ \E e \in Executors : \/ Advance(e) \/ Call(e) \/ Throw(e)
                          \/ QueryFails(e) \/ CatchFails(e) \/ Crash(e)
  \/ ChangeVault \/ ChangeEntitlement

Spec == Init /\ [][Next]_vars
FairSpec == Spec /\ \A e \in Executors : WF_vars(Advance(e))

-----------------------------------------------------------------------------
\* Types: every job works on a mapping that exists, and only for a created run.
TypeOK ==
  /\ row \in [Runs -> Status]
  /\ reason \in [Runs -> {"none", "entitlement", "failure"}]
  /\ entitled \in BOOLEAN /\ scene \in Scenes
  /\ source \in [Mappings -> Snapshot]
  /\ remote \in [Targets -> Remote]
  /\ \A e \in Executors :
       /\ job[e].pc \in {"idle", "pick", "refuse", "request", "claim", "look"} \cup Executing
       /\ job[e].list \subseteq Runs /\ job[e].left \subseteq Keys
       /\ job[e].m \in 0..Last
       /\ job[e].items \in [Mappings -> Snapshot] /\ job[e].group \in Remote
       /\ job[e].pc \notin {"idle", "pick"} => row[job[e].run] # "none"
  /\ pushed \subseteq Runs /\ shared \subseteq Runs /\ lost \subseteq Runs
  /\ changes \in 0..MaxChanges /\ faults \in 0..MaxFaults

\* A run that was turned away for want of the entitlement has written nothing at
\* the provider, and nobody is about to: the refusal of a pass and the claim of a
\* call or of another pass exclude each other.
RefusedWritesNothing ==
  \A r \in Runs : reason[r] = "entitlement" =>
    /\ r \notin pushed
    /\ \A e \in Executors : ~(job[e].run = r /\ job[e].pc \in Executing)

\* A verdict changes only when two executors had executed the run at one time,
\* or when the executor that wrote it failed to write its audit event. (Both
\* happen: the row a second executor finds in running is executed again, and
\* the verdicts are written by id alone.)
VerdictStands ==
  [][\A r \in Runs : row[r] \in Finished /\ row'[r] # row[r] =>
       \/ r \in shared
       \/ \E e \in Executors : job[e].run = r /\ job[e].pc = "catch"
                               /\ row[r] = "succeeded" /\ row'[r] = "failed"]_vars

\* A later mapping of the same target wrote the name of key k of mapping m.
Shadowed(e, m, k) ==
  \E n \in (m + 1)..Last :
    /\ Target[n] = Target[m]
    /\ \/ \E y \in Present(job[e].items[n]) : Name(n, y) = Name(m, k)
       \/ scene.style = "replace"

\* The providers whose answer may be a success though target t did not take a value.
MayDrop(t) ==
  \/ scene.style \in {"lenient", "create", "graphql"}
  \/ scene.style = "spec" /\ t \in scene.bare

\* A run is marked succeeded by an execution that nobody else's overlapped only
\* when the provider has, under the remote name of every key the execution read, the
\* value of that key or of another key of the mapping that has the same name; except
\* where a later mapping of the same target wrote the name, and where the value
\* was dropped by a provider whose answer does not tell: even then the name has a
\* value if creating it was what was refused.
SuccessIsInForce ==
  [][\A e \in Executors :
       job[e].pc = "conclude" /\ job'[e].pc = "tell" /\ job[e].alone =>
         \A m \in Mappings : \A k \in Present(job[e].items[m]) :
           \/ \E y \in Present(job[e].items[m]) :
                Name(m, y) = Name(m, k) /\ remote[Target[m]][Name(m, k)] = job[e].items[m][y]
           \/ Shadowed(e, m, k)
           \/ /\ <<m, k>> \in job[e].ignored /\ MayDrop(Target[m])
              /\ scene.style = "create" => remote[Target[m]][Name(m, k)] # Absent]_vars

\* A pending run comes to a verdict, whoever was to execute it, unless an
\* executor that had begun it died or could not write its verdict.
RunsEnd ==
  \A r \in 1..Max({s.runs : s \in Scenes}) :
    (r \in Runs /\ row[r] = "pending")
      ~> (r \in Runs /\ (row[r] \in Finished \/ r \in lost))
=============================================================================
