------------------------------ MODULE TenantKeys ------------------------------
(***************************************************************************)
(* Customer-managed keys of one organization.  Data encryption keys (DEKs) *)
(* are wrapped by the root key of the miniKMS sidecar, or by a tenant key  *)
(* (KEK) that the sidecar persists and the database keeps wrapped by a     *)
(* cloud key.  attach and detach only enqueue a job; a worker moves the    *)
(* DEKs with several sidecar calls.  Every tenant operation re-sends the   *)
(* KEK to the sidecar first (ensureTenantKek).                             *)
(*                                                                         *)
(* A missing org_kms_config row reads as a managed one.  A source and its  *)
(* key_ref are one cloud key; kek_version is 1 for ever; status disabled   *)
(* is never written.  The sidecar has the tenant wrapping RPCs.            *)
(***************************************************************************)
EXTENDS Naturals, FiniteSets

CONSTANTS Call, Worker,    \* API calls in progress, one rewrap worker per process
          HostOf,          \* the process each of them runs in
          CloudKey,        \* cloud KMS keys ...
          ProviderOf,      \* ... and the provider of each
          Kek, Dek,        \* tenant keys that randomBytes may return; DEKs
          NoKek, Root, Absent,  \* no tenant key; wrapped by root; not created yet
          Ops,             \* the operations that are called
          MaxCalls, MaxJobs, MaxFaults   \* bounds

Proc == Call \cup Worker
Host == {HostOf[p] : p \in Proc}

ASSUME ActorsAreApart == Call \cap Worker = {} /\ HostOf \in [Proc -> Host]
ASSUME KeysAreApart == {NoKek, Root, Absent} \cap Kek = {} /\ Root # Absent
ASSUME ManagedIsNoCloudKey == "managed" \notin CloudKey

Operation == {"put", "putManaged", "verify", "rotate", "attach", "detach", "breakGlass", "tenant"}

ASSUME OpsAreOperations == Ops \subseteq Operation

Status == {"active", "pending", "rotating", "unavailable"}
Row == [source : CloudKey \cup {"managed"}, status : Status,
        wrapped : Kek \cup {NoKek}, by : CloudKey \cup {"managed"}]

\* resetToManaged, upsertManaged and implicitManaged.
ManagedRow == [source |-> "managed", status |-> "active", wrapped |-> NoKek, by |-> "managed"]

Job == [kind : {"dek_rewrap", "detach_managed"},
        status : {"pending", "running", "succeeded", "failed"},
        previous : Status, warmup : BOOLEAN]

PC == {"idle", "reclaim", "stale", "revert", "abort", "check", "load", "write", "kek", "store", "enqueue",
       "set", "use", "unavailable", "row", "warm", "toRoot", "clear", "reset", "dual", "rewrap",
       "only", "mark", "succeed", "fail"}

\* at: the row this process loaded; previous: the status it saw first;
\* stale, undo: the number of the job it found stale, and whether that is an attach.
Frame == [pc : PC, op : Operation \cup {"work"}, cloud : CloudKey \cup {"managed"}, at : Row,
          kek : Kek \cup {NoKek}, previous : Status, stale : Nat, undo : BOOLEAN, holds : BOOLEAN]

IdleFrame == [pc |-> "idle", op |-> "work", cloud |-> "managed", at |-> ManagedRow, kek |-> NoKek,
              previous |-> "active", stale |-> 0, undo |-> FALSE, holds |-> FALSE]

Cause == {"stale_write", "cleared_in_use", "clear_failed", "used_in_detach",
          "detach_stopped", "reclaim_stopped", "reclaim_overlapped", "dual_sent_late"}

VARIABLES
  row,      \* org_kms_config
  job,      \* the newest org_kms_rewrap_job
  sidecar,  \* the tenant KEK the sidecar persists, and allow_root_unwrap
  wrap,     \* what wraps each DEK
  cache,    \* kekCache of each process: the mode of its last SetTenantWrappingKey
  proc,     \* one frame per call and worker
  used,     \* KEKs generated so far
  calls, jobs, failures, crashes,   \* counters of the bounds; the newest job is number jobs
  causes    \* auxiliary: which of the known hazards has struck

vars == <<row, job, sidecar, wrap, cache, proc, used, calls, jobs, failures, crashes, causes>>
counters == <<calls, jobs, failures, crashes>>

TypeOK ==
  /\ row \in Row
  /\ job \in Job
  /\ sidecar \in [kek : Kek \cup {NoKek}, root : BOOLEAN]
  /\ wrap \in [Dek -> Kek \cup {Root, Absent}]
  /\ cache \in [Host -> {"none", "dual", "only"}]
  /\ proc \in [Proc -> Frame]
  /\ used \in SUBSET Kek
  /\ causes \in SUBSET Cause

Init ==
  /\ row = ManagedRow
  /\ job = [kind |-> "detach_managed", status |-> "succeeded", previous |-> "active", warmup |-> FALSE]
  /\ sidecar = [kek |-> NoKek, root |-> FALSE]
  /\ wrap \in [Dek -> {Root, Absent}]
  /\ cache = [h \in Host |-> "none"]
  /\ proc = [p \in Proc |-> IdleFrame]
  /\ used = {} /\ causes = {}
  /\ calls = 0 /\ jobs = 0 /\ failures = 0 /\ crashes = 0

-----------------------------------------------------------------------------
(* Helpers.                                                                *)

At(p, label) == proc[p].pc = label
Goto(p, label) == proc' = [proc EXCEPT ![p].pc = label]
Return(p) == proc' = [proc EXCEPT ![p] = IdleFrame]
Leave(p, label) == IF label = "idle" THEN Return(p) ELSE Goto(p, label)
Blame(c, happened) == causes' = IF happened THEN causes \cup {c} ELSE causes
Fault == failures + crashes < MaxFaults /\ failures' = failures + 1
NoFault == UNCHANGED failures
Forget(p) == cache' = [cache EXCEPT ![HostOf[p]] = "none"]

\* The partial unique index org_kms_rewrap_job_one_active.
Active == job.status \in {"pending", "running"}
Holding == {w \in Proc : proc[w].holds}

\* A running job whose worker is gone. That the lease of two hours runs out on no
\* other job is an assumption: nothing renews the lease of a worker that is slow.
StaleJob == job.status = "running" /\ Holding = {}

\* isNeverAttachedConfig.
NeverAttached(r) == r.source = "managed" \/ r.status = "pending"

\* The cloud provider opens what the same key wrapped.
Opens(r) == r.source # "managed" /\ r.wrapped # NoKek /\ r.by = r.source

\* The key of some DEK, or of an attached organization.
InUse(k) ==
  k # NoKek /\ ((\E d \in Dek : wrap[d] = k) \/ (~NeverAttached(row) /\ row.wrapped = k))

\* A reclaim that has failed the job, or found it failed, and has yet to undo its attach.
MidReclaim(p) == ~proc[p].holds /\ (At(p, "revert") \/ At(p, "abort"))

\* A reclaim that has found a stale attach and has not undone it.
Reclaiming(p) == MidReclaim(p) \/ (At(p, "stale") /\ proc[p].undo)

\* A detach whose DEKs are under the root key while the row still says attached.
MidDetach(w) == At(w, "clear") \/ (At(w, "reset") /\ ~NeverAttached(proc[w].at))

-----------------------------------------------------------------------------
(* Entering a call: assertNoActiveJob with its reclaimStaleJobs.           *)

Begin(c, op, k) ==
  /\ At(c, "idle") /\ calls < MaxCalls
  /\ (op = "put") = (k # "managed")
  /\ proc' = [proc EXCEPT ![c] = [IdleFrame EXCEPT !.op = op, !.cloud = k, !.pc =
       IF op \in {"put", "putManaged", "attach", "detach", "breakGlass"} THEN "reclaim" ELSE "load"]]
  /\ ~(op = "breakGlass" /\ row.source = "managed")   \* answered "already-managed"
  /\ calls' = calls + 1
  /\ UNCHANGED <<row, job, sidecar, wrap, cache, used, jobs, failures, crashes, causes>>

\* assertNoActiveJob when nothing is stale.
Check(c) ==
  /\ \/ At(c, "reclaim") /\ ~StaleJob
     \/ At(c, "check")
  /\ IF Active THEN Return(c) ELSE Goto(c, "load")
  /\ UNCHANGED <<row, job, sidecar, wrap, cache, used, counters, causes>>

AfterReclaim(p) == IF p \in Worker THEN "idle" ELSE "check"

\* Faulty variant: only assertNoActiveJob reclaims, not the worker's pass.
SelectStaleByCallsOnly(p) ==
  /\ At(p, "reclaim") /\ StaleJob
  /\ proc' = [proc EXCEPT ![p].pc = "stale", ![p].stale = jobs,
                ![p].undo = job.kind = "dek_rewrap", ![p].previous = job.previous]
  /\ UNCHANGED <<row, job, sidecar, wrap, cache, used, counters, causes>>

\* reclaimStaleJobs, by a call or by a worker's pass: the SELECT.
SelectStale(p) ==
  /\ At(p, "reclaim") \/ (p \in Worker /\ At(p, "idle"))
  /\ StaleJob
  /\ proc' = [proc EXCEPT ![p].pc = "stale", ![p].stale = jobs,
                ![p].undo = job.kind = "dek_rewrap", ![p].previous = job.previous]
  /\ UNCHANGED <<row, job, sidecar, wrap, cache, used, counters, causes>>

\* The UPDATE of the jobs it found, if they still are running. An attach is undone
\* next also when somebody else has failed it in the meantime.
Reclaim(p) ==
  /\ At(p, "stale")
  /\ job' = IF proc[p].stale = jobs /\ job.status = "running"
            THEN [job EXCEPT !.status = "failed"] ELSE job
  /\ IF proc[p].undo THEN Goto(p, "revert") ELSE Leave(p, AfterReclaim(p))
  /\ UNCHANGED <<row, sidecar, wrap, cache, used, counters, causes>>

\* Faulty variant: the row of a failed attach is left as it is.
RevertNothing(p) ==
  /\ At(p, "revert")
  /\ Goto(p, "abort")
  /\ Blame("stale_write", ~proc[p].holds /\ Active)
  /\ UNCHANGED <<row, job, sidecar, wrap, cache, used, counters>>

\* revertAttachFailure, of a failed job by its worker or of a reclaimed one.
Revert(p) ==
  /\ At(p, "revert")
  /\ IF row.source # "managed" /\ row.status = "rotating"
     THEN /\ row' = [row EXCEPT !.status =
               IF proc[p].previous = "rotating" THEN "pending" ELSE proc[p].previous]
          /\ Forget(p)
     ELSE UNCHANGED <<row, cache>>
  /\ Goto(p, "abort")
  /\ Blame("stale_write", ~proc[p].holds /\ Active)
  /\ UNCHANGED <<job, sidecar, wrap, used, counters>>

\* abortFailedAttachWrapping: best effort, errors are swallowed.
Abort(p) ==
  /\ At(p, "abort")
  /\ Leave(p, IF proc[p].holds THEN "fail" ELSE AfterReclaim(p))
  /\ \/ /\ sidecar' = [kek |-> NoKek, root |-> FALSE]
        /\ causes' = causes \cup (IF InUse(sidecar.kek) THEN {"cleared_in_use"} ELSE {})
                            \cup (IF ~proc[p].holds /\ Active THEN {"stale_write"} ELSE {})
        /\ NoFault
     \/ /\ Fault
        /\ Blame("clear_failed", TRUE)
        /\ UNCHANGED sidecar
  /\ UNCHANGED <<row, job, wrap, cache, used, calls, jobs, crashes>>

-----------------------------------------------------------------------------
(* updateConfig.                                                           *)

LoadForPut(c) ==
  /\ At(c, "load") /\ proc[c].op = "put"
  /\ LET k == proc[c].cloud
         refused == \/ ~NeverAttached(row) /\ ProviderOf[k] # ProviderOf[row.source]
                    \/ row.status \in {"active", "rotating"} /\ row.source # "managed" /\ k # row.source
     IN IF refused THEN Return(c) ELSE proc' = [proc EXCEPT ![c].pc = "write", ![c].at = row]
  /\ UNCHANGED <<row, job, sidecar, wrap, cache, used, counters, causes>>

\* nextCloudPutStatus; the same provider, or LoadForPut had refused.
NextCloudPutStatus(r) == IF r.source = "managed" THEN "pending" ELSE r.status

WriteCloud(c) ==
  /\ At(c, "write") /\ proc[c].op = "put"
  /\ row' = [row EXCEPT !.source = proc[c].cloud, !.status = NextCloudPutStatus(proc[c].at)]
  /\ Blame("stale_write", row # proc[c].at)
  /\ Return(c)
  /\ UNCHANGED <<job, sidecar, wrap, cache, used, counters>>

\* upsertManaged.
LoadForPutManaged(c) ==
  /\ At(c, "load") /\ proc[c].op = "putManaged"
  /\ IF NeverAttached(row) THEN proc' = [proc EXCEPT ![c].pc = "write", ![c].at = row] ELSE Return(c)
  /\ UNCHANGED <<row, job, sidecar, wrap, cache, used, counters, causes>>

WriteManaged(c) ==
  /\ At(c, "write") /\ proc[c].op = "putManaged"
  /\ row' = ManagedRow
  /\ Forget(c)
  /\ Blame("stale_write", row # proc[c].at)
  /\ Return(c)
  /\ UNCHANGED <<job, sidecar, wrap, used, counters>>

-----------------------------------------------------------------------------
(* verify, rotateKek, attach, detach, breakGlassDetach.                    *)

LoadConfig(c) ==
  /\ At(c, "load") /\ proc[c].op \in {"verify", "rotate", "attach"}
  /\ LET op == proc[c].op
         refused == row.source = "managed" \/ (op # "attach" /\ row.status = "unavailable")
         next == IF op = "attach" /\ row.wrapped # NoKek THEN "enqueue" ELSE "kek"
     IN IF refused THEN Return(c)
        ELSE proc' = [proc EXCEPT ![c].pc = next, ![c].at = row, ![c].previous = row.status]
  /\ UNCHANGED <<row, job, sidecar, wrap, cache, used, counters, causes>>

\* Where an error thrown by a cloud or sidecar call leaves p.
AfterError(p) ==
  IF p \in Worker THEN "revert"
  ELSE IF proc[p].op = "verify" /\ proc[p].previous = "active" THEN "unavailable" ELSE "idle"

AfterKek(p) ==
  IF p \in Worker THEN "dual" ELSE IF proc[p].op = "attach" THEN "enqueue" ELSE "idle"

\* unwrapCloudKek of the row as it is now, or the start of firstWrapKek.
LoadKek(p) ==
  /\ At(p, "kek")
  /\ \/ /\ Opens(row)
        /\ proc' = [proc EXCEPT ![p] =
             IF AfterKek(p) = "idle" /\ proc[p].op # "rotate" THEN IdleFrame
             ELSE [@ EXCEPT !.kek = row.wrapped, !.at = row,
                            !.pc = IF proc[p].op = "rotate" THEN "store" ELSE AfterKek(p)]]
        /\ NoFault /\ UNCHANGED used
     \/ /\ row.source # "managed" /\ row.wrapped = NoKek /\ proc[p].op # "rotate"
        /\ \E k \in Kek \ used :
             /\ used' = used \cup {k}
             /\ proc' = [proc EXCEPT ![p].kek = k, ![p].at = row, ![p].pc = "store"]
        /\ NoFault
     \/ /\ IF row.source = "managed" \/ (row.wrapped # NoKek /\ row.by # row.source)
              \/ (row.wrapped = NoKek /\ proc[p].op = "rotate")
           THEN NoFault ELSE Fault
        /\ Leave(p, AfterError(p))
        /\ UNCHANGED used
  /\ UNCHANGED <<row, job, sidecar, wrap, cache, calls, jobs, crashes, causes>>

\* The UPDATE of wrapped_kek, by firstWrapKek or by rotateKek.
StoreKek(p) ==
  /\ At(p, "store")
  /\ row' = [row EXCEPT !.wrapped = proc[p].kek, !.by = proc[p].at.source]
  /\ IF proc[p].op = "rotate" THEN Forget(p) ELSE UNCHANGED cache
  /\ IF AfterKek(p) = "idle" THEN Return(p)
     ELSE proc' = [proc EXCEPT ![p].pc = AfterKek(p), ![p].at = row']
  /\ Blame("stale_write", row # proc[p].at)
  /\ UNCHANGED <<job, sidecar, wrap, used, counters>>

\* markUnavailable after a failed verify.
MarkUnavailable(c) ==
  /\ At(c, "unavailable")
  /\ row' = IF row.source = "managed" THEN row ELSE [row EXCEPT !.status = "unavailable"]
  /\ Blame("stale_write", row.status # "active")
  /\ Return(c)
  /\ UNCHANGED <<job, sidecar, wrap, cache, used, counters>>

NewJob(kind, previous, warmup) ==
  /\ jobs < MaxJobs /\ jobs' = jobs + 1
  /\ job' = [kind |-> kind, status |-> "pending", previous |-> previous, warmup |-> warmup]

\* The transaction of attach; the unique index refuses a second active job.
EnqueueAttach(c) ==
  /\ At(c, "enqueue")
  /\ Return(c)
  /\ IF Active THEN UNCHANGED <<row, job, jobs, causes>>
     ELSE /\ NewJob("dek_rewrap", proc[c].previous, FALSE)
          /\ row' = [row EXCEPT !.status = "rotating"]
          /\ causes' = causes \cup (IF row # proc[c].at THEN {"stale_write"} ELSE {})
                              \cup (IF \E p \in Proc : Reclaiming(p) THEN {"reclaim_overlapped"} ELSE {})
  /\ UNCHANGED <<sidecar, wrap, cache, used, calls, failures, crashes>>

\* detach and breakGlassDetach: the worker checks again what they read.
EnqueueDetach(c) ==
  /\ At(c, "load") /\ proc[c].op \in {"detach", "breakGlass"}
  /\ Return(c)
  /\ IF Active \/ row.source = "managed" THEN UNCHANGED <<job, jobs>>
     ELSE NewJob("detach_managed", "active", proc[c].op = "detach" /\ row.status # "unavailable")
  /\ UNCHANGED <<row, sidecar, wrap, cache, used, calls, failures, crashes, causes>>

-----------------------------------------------------------------------------
(* A tenant operation: ensureTenantKek, then the use of a DEK.             *)

Mode(root) == IF root THEN "dual" ELSE "only"

LoadForTenant(c) ==
  /\ At(c, "load") /\ proc[c].op = "tenant"
  /\ LET mode == Mode(row.status = "rotating")
         next == IF NeverAttached(row) \/ cache[HostOf[c]] = mode THEN "use" ELSE "set"
     IN IF row.source # "managed" /\ row.status = "unavailable" THEN Return(c)
        ELSE proc' = [proc EXCEPT ![c].pc = next, ![c].at = row]
  /\ UNCHANGED <<row, job, sidecar, wrap, cache, used, counters, causes>>

\* The sidecar receives a KEK; a "lost" answer is an effect and an error.
Send(p, k, root) == sidecar' = [kek |-> k, root |-> root]

\* setSidecarKek with the row loaded before, for a tenant operation.
SetForTenant(c) ==
  /\ At(c, "set")
  /\ LET at == proc[c].at
         root == at.status = "rotating"
     IN \/ /\ Opens(at) /\ NoFault
           /\ Send(c, at.wrapped, root)
           /\ cache' = [cache EXCEPT ![HostOf[c]] = Mode(root)]
           /\ causes' = causes \cup (IF row # at THEN {"stale_write"} ELSE {})
                 \cup (IF \E w \in Worker : MidDetach(w) THEN {"used_in_detach"} ELSE {})
                 \cup (IF root /\ \E w \in Worker : At(w, "mark") THEN {"dual_sent_late"} ELSE {})
           /\ Goto(c, "use")
           /\ UNCHANGED row
        \/ /\ IF Opens(at) THEN Fault ELSE NoFault
           /\ Forget(c)
           /\ IF root THEN Goto(c, "use") /\ UNCHANGED <<row, causes>>
              ELSE /\ row' = IF row.source = "managed" THEN row ELSE [row EXCEPT !.status = "unavailable"]
                   /\ Blame("stale_write", row # at)
                   /\ Return(c)
           /\ UNCHANGED sidecar
  /\ UNCHANGED <<job, wrap, used, calls, jobs, crashes>>

\* Faulty variant: a new DEK is wrapped without asking whether there is a KEK.
UseDekUnchecked(c) ==
  /\ At(c, "use")
  /\ \/ /\ \E d \in Dek : wrap[d] = Absent /\ wrap' = [wrap EXCEPT ![d] = sidecar.kek]
        /\ Blame("used_in_detach", \E w \in Worker : MidDetach(w))
     \/ UNCHANGED <<wrap, causes>>
  /\ Return(c)
  /\ UNCHANGED <<row, job, sidecar, cache, used, counters>>

\* A DEK that is used for the first time is created under the key the
\* sidecar has for the tenant.
UseDek(c) ==
  /\ At(c, "use")
  /\ \/ /\ \E d \in Dek : wrap[d] = Absent /\
             wrap' = [wrap EXCEPT ![d] = IF sidecar.kek = NoKek THEN Root ELSE sidecar.kek]
        /\ Blame("used_in_detach", \E w \in Worker : MidDetach(w))
     \/ UNCHANGED <<wrap, causes>>
  /\ Return(c)
  /\ UNCHANGED <<row, job, sidecar, cache, used, counters>>

\* An entry of kekCache is older than five minutes.
Expire(h) ==
  /\ cache[h] # "none"
  /\ cache' = [cache EXCEPT ![h] = "none"]
  /\ UNCHANGED <<row, job, sidecar, wrap, proc, used, counters, causes>>

-----------------------------------------------------------------------------
(* The worker: claimNextJob, runDekRewrap, runDetachManaged.               *)

\* Faulty variant: the claim does not look at the status.
ClaimAny(w) ==
  /\ At(w, "idle") /\ Active
  /\ job' = [job EXCEPT !.status = "running"]
  /\ proc' = [proc EXCEPT ![w].pc = "row", ![w].holds = TRUE, ![w].previous = job.previous]
  /\ UNCHANGED <<row, sidecar, wrap, cache, used, counters, causes>>

Claim(w) ==
  /\ At(w, "idle") /\ job.status = "pending"
  /\ job' = [job EXCEPT !.status = "running"]
  /\ proc' = [proc EXCEPT ![w].pc = "row", ![w].holds = TRUE, ![w].previous = job.previous]
  /\ UNCHANGED <<row, sidecar, wrap, cache, used, counters, causes>>

LoadJobRow(w) ==
  /\ At(w, "row")
  /\ LET next == IF row.source = "managed" THEN "succeed"
                 ELSE IF job.kind = "dek_rewrap" THEN "kek"
                 ELSE IF NeverAttached(row) THEN "reset"
                 ELSE IF job.warmup /\ row.status # "unavailable" /\ cache[HostOf[w]] # "only"
                 THEN "warm" ELSE "toRoot"
     IN proc' = [proc EXCEPT ![w].pc = next, ![w].at = row]
  /\ UNCHANGED <<row, job, sidecar, wrap, cache, used, counters, causes>>

\* SetTenantWrappingKey around the rewrap: dual, then tenant only.
SetForAttach(w) ==
  /\ At(w, "dual") \/ At(w, "only")
  /\ \E outcome \in {"ok", "error", "lost"} :
       /\ IF outcome = "ok" THEN NoFault ELSE Fault
       /\ IF outcome = "error" THEN UNCHANGED <<sidecar, causes>>
          ELSE Send(w, proc[w].kek, At(w, "dual")) /\ Blame("stale_write", row.wrapped # proc[w].kek)
       /\ Goto(w, IF outcome # "ok" THEN "revert" ELSE IF At(w, "dual") THEN "rewrap" ELSE "mark")
  /\ UNCHANGED <<row, job, wrap, cache, used, calls, jobs, crashes>>

\* RewrapTenantDataKeys to TENANT_KEK; an error may have moved some DEKs.
RewrapToKek(w) ==
  /\ At(w, "rewrap")
  /\ LET present == {d \in Dek : wrap[d] # Absent}
         able == sidecar.kek # NoKek /\ \A d \in present : wrap[d] \in {Root, sidecar.kek}
     IN \E moved \in SUBSET present :
          /\ moved # {} => able
          /\ wrap' = [d \in Dek |-> IF d \in moved THEN sidecar.kek ELSE wrap[d]]
          /\ \/ able /\ moved = present /\ Goto(w, "only") /\ NoFault
             \/ Goto(w, "revert") /\ IF able THEN Fault ELSE NoFault
  /\ UNCHANGED <<row, job, sidecar, cache, used, calls, jobs, crashes, causes>>

MarkAttachSucceeded(w) ==
  /\ At(w, "mark")
  /\ row' = [row EXCEPT !.status = "active"]
  /\ Forget(w)
  /\ Blame("stale_write", row.source = "managed" \/ row.wrapped # proc[w].kek)
  /\ Goto(w, "succeed")
  /\ UNCHANGED <<job, sidecar, wrap, used, counters>>

\* warmupSidecarKek of a healthy detach; a failure is skipped.
Warmup(w) ==
  /\ At(w, "warm")
  /\ \/ /\ Opens(proc[w].at) /\ NoFault
        /\ Send(w, proc[w].at.wrapped, FALSE)
        /\ cache' = [cache EXCEPT ![HostOf[w]] = "only"]
        /\ Blame("stale_write", row # proc[w].at)
     \/ /\ IF Opens(proc[w].at) THEN Fault ELSE NoFault
        /\ Forget(w)
        /\ UNCHANGED <<sidecar, causes>>
  /\ Goto(w, "toRoot")
  /\ UNCHANGED <<row, job, wrap, used, calls, jobs, crashes>>

\* Faulty variant: a failed rewrap is skipped like a failed warm-up.
RewrapToRootBestEffort(w) ==
  /\ At(w, "toRoot")
  /\ \/ /\ sidecar.kek # NoKek /\ NoFault
        /\ wrap' = [d \in Dek |-> IF wrap[d] = sidecar.kek THEN Root ELSE wrap[d]]
     \/ Fault /\ UNCHANGED wrap
  /\ Goto(w, "clear")
  /\ UNCHANGED <<row, job, sidecar, cache, used, calls, jobs, crashes, causes>>

\* RewrapTenantDataKeys to ROOT, with the KEK that the sidecar persists.
RewrapToRoot(w) ==
  /\ At(w, "toRoot")
  /\ LET present == {d \in Dek : wrap[d] # Absent}
         able == sidecar.kek # NoKek /\ \A d \in present : wrap[d] \in {Root, sidecar.kek}
     IN \E moved \in SUBSET present :
          /\ moved # {} => able
          /\ wrap' = [d \in Dek |-> IF d \in moved THEN Root ELSE wrap[d]]
          /\ \/ able /\ moved = present /\ Goto(w, "clear") /\ NoFault /\ UNCHANGED causes
             \/ /\ Goto(w, "fail") /\ IF able THEN Fault ELSE NoFault
                /\ Blame("detach_stopped", moved # {})
  /\ UNCHANGED <<row, job, sidecar, cache, used, calls, jobs, crashes>>

ClearAfterDetach(w) ==
  /\ At(w, "clear")
  /\ \/ /\ sidecar' = [kek |-> NoKek, root |-> FALSE]
        /\ Goto(w, "reset") /\ NoFault /\ UNCHANGED causes
     \/ /\ Fault
        /\ sidecar' \in {sidecar, [kek |-> NoKek, root |-> FALSE]}
        /\ Goto(w, "fail") /\ Blame("detach_stopped", TRUE)
  /\ UNCHANGED <<row, job, wrap, cache, used, calls, jobs, crashes>>

ResetToManaged(w) ==
  /\ At(w, "reset")
  /\ row' = ManagedRow
  /\ Forget(w)
  /\ Goto(w, "succeed")
  /\ Blame("stale_write", NeverAttached(proc[w].at) /\ row # proc[w].at)
  /\ UNCHANGED <<job, sidecar, wrap, used, counters>>

\* succeedJob, failJob.
EndJob(w) ==
  /\ At(w, "succeed") \/ At(w, "fail")
  /\ job' = [job EXCEPT !.status = IF At(w, "fail") THEN "failed" ELSE "succeeded"]
  /\ Return(w)
  /\ UNCHANGED <<row, sidecar, wrap, cache, used, counters, causes>>

\* A process dies with its calls, its worker and its kekCache.
Crash(h) ==
  /\ failures + crashes < MaxFaults /\ crashes' = crashes + 1
  /\ LET dead == {p \in Proc : HostOf[p] = h /\ ~At(p, "idle")}
     IN /\ dead # {}
        /\ proc' = [p \in Proc |-> IF p \in dead THEN IdleFrame ELSE proc[p]]
        /\ causes' = causes \cup (IF \E p \in dead : MidDetach(p) THEN {"detach_stopped"} ELSE {})
                            \cup (IF \E p \in dead : MidReclaim(p) THEN {"reclaim_stopped"} ELSE {})
  /\ cache' = [cache EXCEPT ![h] = "none"]
  /\ UNCHANGED <<row, job, sidecar, wrap, used, calls, jobs, failures>>

-----------------------------------------------------------------------------
\* What calls and workers have in common.
Step(p) == SelectStale(p) \/ Reclaim(p) \/ Revert(p) \/ Abort(p) \/ LoadKek(p) \/ StoreKek(p)

Serve(c) ==
  \/ Check(c)
  \/ LoadForPut(c) \/ WriteCloud(c) \/ LoadForPutManaged(c) \/ WriteManaged(c)
  \/ LoadConfig(c) \/ MarkUnavailable(c) \/ EnqueueAttach(c) \/ EnqueueDetach(c)
  \/ LoadForTenant(c) \/ SetForTenant(c) \/ UseDek(c)

Work(w) ==
  \/ Claim(w) \/ LoadJobRow(w) \/ EndJob(w)
  \/ SetForAttach(w) \/ RewrapToKek(w) \/ MarkAttachSucceeded(w)
  \/ Warmup(w) \/ RewrapToRoot(w) \/ ClearAfterDetach(w) \/ ResetToManaged(w)

Next ==
  \/ \E c \in Call, op \in Ops, k \in CloudKey \cup {"managed"} : Begin(c, op, k)
  \/ \E p \in Proc : Step(p)
  \/ \E c \in Call : Serve(c)
  \/ \E w \in Worker : Work(w)
  \/ \E h \in Host : Expire(h) \/ Crash(h)

Spec == Init /\ [][Next]_vars

\* setInterval runs the worker's pass again after every restart; a call that
\* is not cut off goes on. Crashes and new calls are bounded, never due.
Fairness == /\ \A p \in Proc : WF_vars(Step(p))
            /\ \A c \in Call : WF_vars(Serve(c))
            /\ \A w \in Worker : WF_vars(Work(w))

FairSpec == Spec /\ Fairness

-----------------------------------------------------------------------------
(* Properties.                                                             *)

\* The job that the index admits has one worker, and only while it runs:
\* reclaiming never leaves a second worker moving the same DEKs.
OneWorker ==
  /\ \A v, w \in Holding : v = w
  /\ Holding # {} => job.status = "running"

\* A tenant key that wraps a DEK is still somewhere to be found, in the
\* database or on the sidecar, unless a write was made from a stale row, a
\* failed attach cleared a key in use or could not clear one, a tenant
\* operation fell between the steps of a detach, or the reclaim of a stale
\* job died before it had undone the attach, or was overtaken by the next
\* one. Failed calls, crashes and detaches that stop half-way never lose one.
LossHasCause ==
  causes \cap {"stale_write", "cleared_in_use", "clear_failed", "used_in_detach",
               "reclaim_stopped", "reclaim_overlapped"} = {} =>
    \A d \in Dek : wrap[d] \in {Root, Absent, row.wrapped, sidecar.kek}

Settled == ~Active /\ \A p \in Proc : At(p, "idle")

\* What each status of the row says of the DEKs and of the sidecar.
Agreement ==
  LET deks == {wrap[d] : d \in Dek} \ {Absent}
  IN IF NeverAttached(row)
     THEN deks \subseteq {Root} /\ sidecar.kek = NoKek
     ELSE /\ row.status # "rotating"
          /\ row.wrapped # NoKek /\ deks \subseteq {row.wrapped}
          /\ sidecar = [kek |-> row.wrapped, root |-> FALSE]

\* When nothing is under way the row, the sidecar and the DEKs agree, or one
\* of the known hazards has struck: a detached or pending organization is
\* on the root key alone, an attached one on its own key alone, and no row
\* is left in rotating.
SettledAgrees == causes = {} /\ Settled => Agreement

\* What the comment on isNeverAttachedConfig says of a pending source.
PendingIsRoot ==
  row.source # "managed" /\ row.status = "pending" => \A d \in Dek : wrap[d] \in {Root, Absent}

\* Every job ends: a crash is made good by the reclaim of a later pass.
JobEnds == Active ~> ~Active
=============================================================================
