# EnvSync: models and proofs

EnvSync keeps environment variables and secrets of applications, per environment type
(dev, staging, production ...). The values live in a vault service (miniKMS); a
PostgreSQL database keeps everything around them: the history of changes, the change
requests against protected environments, organizations, roles, certificates, keys, sync
runs. This directory holds TLA+ models of the parts of the API where steps of several
calls interleave or fail half-way, the TLC configurations that check them on small
instances, and proofs that TLAPS checks.

In the paths below `A/` is `packages/envsync-api/src/` and `E/` is
`packages/envsync-enterprise/src/`.

## The system

| component | state it keeps | operations | talks to |
|---|---|---|---|
| Vault entries (`A/services/vault_entry.service.ts`, `env.service.ts`, `secret.service.ts`, `key_validation.service.ts`) | none of its own; entries live in miniKMS | get, list, create, update, delete, batches | miniKMS, PiT history (candidates of list), environment types (guard) |
| Variable and secret endpoints (`A/controllers/env.controller.ts`, `secret.controller.ts`) | none | create ... batch delete, four rollbacks each, history reads | vault entries, then PiT history |
| PiT history (`A/services/env_store_pit.service.ts`, `secret_store_pit.service.ts`) | tables `env_store_pit`, `..._change_request` and their secret twins | record; replay to a PiT, a time, now; diffs; timeline; pages | PostgreSQL |
| Change requests (`A/services/change_request.service.ts`, `change_request_apply.ts`) | `change_request`, `..._env_item`, `..._secret_item` | create (direct, promotion, certificate), approve, reject, cancel | vault entries, PiT history, certificates, authorization |
| Environment types (`A/services/env_type.service.ts`) | `env_type`, a cached copy per id and per organization | create, get, update, delete | cache, OpenFGA |
| Cache helpers (`A/helpers/cache.ts`) | the shared cache (TTL) | cacheAside, invalidateCache | Redis or memory |
| Sagas (`A/helpers/saga.ts`) | none | run steps, compensate in reverse | organization and app provisioning |
| Vault sessions (`A/libs/kms/session-manager.ts`) | per process: token cache, pending creations | get, invalidate | miniKMS, OpenFGA (scopes) |
| Organizations, users, teams, roles, invites (`A/services/user.service.ts`, `team.service.ts`, `role.service.ts`, `invite.service.ts`, `org-admin-guard.service.ts`) | their tables, cached roles | CRUD, invites and their acceptance, provisioning, last-admin guard | Keycloak, OpenFGA, plan limits, certificates |
| Authorization (`A/services/authorization.service.ts`) | OpenFGA tuples | check, write, delete | OpenFGA |
| Plan limits, entitlements, license state | `org` plan, feature grants, license row | limit checks, heartbeat, lock decision | license server |
| Certificates and their lifecycle worker | `org_certificates` | issue, renew, revoke | miniKMS |
| Customer-managed keys (`E/services/cmk*.ts`) | `org_kms_config` row, `org_kms_rewrap_job`, a cache of sent keys per process | configure, verify, rotate, attach, detach, break-glass; rewrap worker, stale-job reclaim | cloud KMS, miniKMS |
| Rotation, dynamic secrets (`E/services/rotation.service.ts`, `dynamic_secret.service.ts`) | policies, rotation states, leases | rotate, revoke expired; lease, revoke, clean up | credential engines, vault entries |
| Enterprise provider sync (`E/services/enterprise-sync.service.ts`, `enterprise-provider-sync.service.ts`) | connections, bindings, mappings, `sync_run` | manual run, worker pass, push | vault entries, 28 provider APIs, audit log |
| SAML, OIDC, ACME, log forwarding, audit log, webhooks | configuration rows, logs | protocol adapters, fire-and-forget output | outside services |
| Web applications, CLI, SDKs, deployment tooling | none of the system's | clients and installers | the API |

What is hard about it:

* **Nothing spans vault and database.** An endpoint writes entries by separate
  vault calls and records one PiT at the end. A failure, a crash or another call
  in between leaves the vault and the history apart.
* **Check, then act.** Key names, request status, permissions, admin counts and
  plan limits are read by one call and used by a later one. Only the change
  request closes the gap, with conditional `UPDATE ... WHERE status = ...`.
* **Retries.** A failed change request is approved again, perhaps by somebody
  else, on top of what the failed attempt left.
* **Clocks.** PiTs are ordered by a `created_at` taken before the commit; rows
  may tie or appear behind rows already read.
* **Caches.** Guards decide on cached rows, filled by readers that race with
  invalidation; session tokens outlive the certificate or the session they stand for.
* **Two copies of a fact.** Tuples in OpenFGA say again what the rows say; a KEK is
  on the sidecar, in the database and, in use, around DEKs. Every pair is kept in
  step by calls that fail, race or die one at a time.
* **Workers.** Rewrap jobs and sync runs are picked up by a timer in every API
  process, and by calls at the same time. Only the former are reclaimed.

What makes each component correct:

* change requests: one applier at a time; nothing happens for a refused
  request; an authorised reviewer behind every decision; approved means in
  force; a claimed request is resolved;
* PiT history: replay equals the newest change of each key at any moment; diffs
  and pages lose and invent nothing; the past does not change;
* vault entries: the history tells what the vault holds; a rollback restores its
  target; a key name lives in one store only;
* environment types: a stale cache entry has a known cause and goes away;
* customer-managed keys: one worker moves the DEKs; no key that wraps a DEK is lost;
  at rest the row, the sidecar and the DEKs agree; every job ends;
* members: the tuples say what the rows say; an administrator remains; the member
  limit holds;
* vault sessions: a token carries no more than its caller may do, and works; nobody
  waits for a creation that nobody is making;
* provider sync: success means the values are at the provider; a refused run
  writes nothing; a verdict is final; a pending run ends.

## The modules

| module | models | extends |
|---|---|---|
| `PitReplay` | the computations of the PiT services as operators on a log: replay, diffs, timeline, pages | |
| `PitHistory` | the history table under concurrent writers, and the properties of `PitReplay` over every log it can reach | `PitReplay` |
| `ChangeRequests` | change requests of one protected environment type, composed with the vault and the history | `PitReplay` |
| `RequestLifecycle` | what change requests promise, abstractly: one holder, effects only under it, a final decision | |
| `PitReplay_proofs` | lemmas about `Replay`, induction on the positions of a log | `PitReplay`, `TLAPS` |
| `PitHistory_proofs` | theorems about `PitHistory`, lemmas about the cuts of a log and the range diff | `PitHistory`, `PitReplay_proofs` |
| `ChangeRequests_proofs` | theorems about `ChangeRequests`, the last of them that it implements `RequestLifecycle` | `ChangeRequests`, `PitReplay_proofs` |
| `VaultEntries` | the direct mutations of one unprotected environment type, composed with the vault and the history | `PitReplay` |
| `EnvTypeCache` | one environment type, its cache entry, and the mutation guard | |
| `VaultEntries_proofs` | theorems about `VaultEntries`, and about the guard of its endpoints, `EnvTypeCache` | `VaultEntries`, `EnvTypeCache`, `PitReplay_proofs` |
| `TenantKeys` | customer-managed keys of one organization: the row, the rewrap job, the sidecar, the DEKs, calls and workers in several processes | |
| `TenantKeys_proofs` | theorems about `TenantKeys` | `TenantKeys`, `TLAPS` |
| `OrgMembers` | members, roles, one team and the invites of one organization, with their tuples and the cached role | |
| `OrgMembers_proofs` | theorems about `OrgMembers` | `OrgMembers`, `TLAPS` |
| `VaultSessions` | the session tokens of one member in several processes | |
| `VaultSessions_proofs` | theorems about `VaultSessions` | `VaultSessions`, `TLAPS` |
| `EnterpriseSync` | sync runs of one organization with one provider | |
| `EnterpriseSync_proofs` | theorems about `EnterpriseSync` | `EnterpriseSync`, `TLAPS` |
| `MC...` | instances for TLC | the module named |

The two PiT services are the same code over two pairs of tables and are modelled
by one set of operators; in `ChangeRequests` and `VaultEntries` there is one
history per store. A snapshot is a function from keys to values or `Absent`; the
rows of one PiT are a function from the keys it lists to a change.

Operators whose comment begins with "Faulty variant" are not part of a model. Each
is a definition with a plausible mistake in it; putting it in place of the
definition that follows it breaks a property, and shows that the property
depends on that piece of code.

### PitReplay and PitHistory

Every reader of the history selects rows with `created_at` below an exclusive bound of
one millisecond past the moment asked for, in ascending order, and applies them one
after the other to a map (`Replay`, `RowsTill`, `StateTillTimestamp`, `StateTillPiTId`).
The diffs keep two maps in one pass (`SinglePass`, `Diff`). `PitHistory` has a clock
`now`, the committed rows `log`, and per writer the transaction `open`: `BeginPiT`
stamps, `CommitPiT` puts the row where its stamp belongs (among equals anywhere: the
queries leave their order open), `AbortPiT` rolls back.

The replays are compared with `ReferenceState`, which looks for the newest row of each
key instead of going through all of them.

### ChangeRequests

A handler is one API call. `job[h].pc` names the await it is about to make, so that
every other handler may run between two awaits, as on one event loop or on
several API instances. An approval goes through

    StartApprove  read the row, check status and reviewer     (getRow, assertReviewer)
    Claim         UPDATE ... WHERE pending or failed          -> "applying"
    LoadItems     read the item rows                          (outside the try block)
    PickItem ReadEntry CheckKey WriteEntry    one item after the other
    RecordPiT     one PiT for variables, one for secrets
    Finalize      UPDATE ... WHERE applying and reviewer = me -> "approved"
    MarkFailed    the catch block                             -> "failed"

`Reject` and `Cancel` are a read (`StartReject`, `StartCancel`) and a conditional
UPDATE. The faults are switched on by the constant `Faults`: `"throw"`, a call
inside the try block fails, and for a vault write also after it took effect
(`Throw`, `WriteEntryReplyLost`); `"load"`, the item query fails
(`LoadItemsThrows`); `"crash"`, the process dies (`Crash`; a failing UPDATE of the
catch block has the same effect). `touched` is auxiliary and remembers which
requests have had an effect. Roles are constants: they do not change during a call.

`RequestLifecycle` is the abstract specification. It has no rows and no calls: a
request is opened, then refused or taken by an agent; the agent has effects for
it, gives it back as done or failed, or is lost. `ChangeRequests` implements it
under the mapping `Lifecycle`: an agent is a handler, `Phases` reads the phase off
`status` (`applying` is held, `rejected` and `cancelled` are refused), `Holders`
are the handlers between `Claim` and the UPDATE that ends the approval, and the
effects are `touched`. That mapping is where the design shows: the row knows only
the reviewer, not the handler, and the same reviewer may call twice.

### VaultEntries

Mutations and rollbacks of variables and secrets. `StartMutation` takes a call from
the constant `Mutations`; `Look` reads entries, one at a time and in any order
where the code starts the reads together; `Decide` refuses or goes to work.
Rollbacks list the keys the history knows (`ListCandidates`) or look at one key,
compare with the target state and plan their writes (`DecideRollback`,
`Restoration`): deletes first, then creates and updates. `CheckItem` and
`CheckBatch` are the checks of the service, `Write` a vault call, `Record` the
transaction of the PiT. Creating, updating and deleting through a batch differ
from the single calls in what they check, and the model keeps that: a batch update
checks nothing in the service, and only for secrets in the endpoint.

A failed write of a batch does not stop the others (`failed` is set and no PiT
follows); elsewhere it ends the call (`Abandon`). `doubtful` is auxiliary: the
entries whose last write was not recorded, or overlapped with another call's.
A write may take effect although it fails.

A position in the history stands for the PiT or for the timestamp a rollback
names: `PitHistory` covers the step from stamps to positions.

### EnvTypeCache

The cached row that decides, in every mutation endpoint of `VaultEntries`, whether the
call may go ahead. The two models share no state, only the proof module that extends
both, which is why the specification here is `CacheSpec` and its actors are `Caller`s.
`CacheGet`, `Load` and `CacheSet` are the three awaits of `cacheAside`, `Guard` the
decision of `assertMutableEnvType`; `CheckRow`, `ChangeRow`, `Reread`, `Cleanup` and
`Invalidate` are those of `updateEnvType` and `deleteEnvType`. Any cache call may fail
(`"cache"`), the tuple clean-up of a deletion may fail (`"fga"`) and the saga, which has
no compensation for the steps before, then ends without invalidating; `"crash"` ends a
call anywhere. `since`, `old` and `excused` are auxiliary: what a correct reader may
still see, what a change in progress has replaced, and why an entry may be stale after
all.

### TenantKeys

`row` is `org_kms_config`, `job` the newest rewrap job, `sidecar` the tenant KEK
miniKMS persists with its `allow_root_unwrap`, `wrap[d]` what a DEK is wrapped
by, `cache[h]` the `kekCache` of a process. Every actor has a frame: `pc` names
the await it is about to make, `at` the row it read.

    a reclaim          SelectStale Reclaim, and Revert Abort for an attach
    put, putManaged    reclaim? Check LoadForPut WriteCloud | LoadForPutManaged WriteManaged
    verify, rotate     LoadConfig LoadKek StoreKek
    attach, detach     reclaim? Check LoadConfig EnqueueAttach | EnqueueDetach
    tenant             LoadForTenant LoadKek SetForTenant UseDek  (ensureTenantKek, then a vault call)
    worker, attach     Claim LoadJobRow LoadKek SetForAttach RewrapToKek MarkAttachSucceeded EndJob
    worker, detach     Claim LoadJobRow Warmup RewrapToRoot ClearAfterDetach ResetToManaged EndJob
    a failed attach    Revert Abort EndJob

A reclaim is the steps it is in the code: `SelectStale` finds a running job whose lease
is over, `Reclaim` is the UPDATE that fails it if it still runs, and an attach is then
undone. A second reclaimer that found the same job undoes it too, although its UPDATE
hits no row. That a lease of two hours is only ever over when nobody is at work on the
job is an assumption: nothing renews the lease, and not every call a worker makes has a
deadline. So `OneWorker` is about the claim of a job and says nothing of a worker that
takes more than two hours. `UseDek` is the one external action: a vault operation of the
tenant creates or unwraps a DEK with what the sidecar has. `causes` is auxiliary and
remembers which known hazard has struck:

| cause | what happened |
|---|---|
| `stale_write` | a row was written from a copy that had changed since it was read |
| `cleared_in_use`, `clear_failed` | a failed attach cleared the sidecar's KEK with DEKs under it, or could not clear it |
| `used_in_detach` | a tenant operation wrapped a DEK under the KEK during a detach |
| `detach_stopped`, `reclaim_stopped` | a detach or a reclaim was cut off half-way |
| `reclaim_overlapped` | an attach was enqueued while a reclaim that had found the one before had not yet undone it |
| `dual_sent_late` | a KEK with `allow_root_unwrap` was sent after the attach was over |

### OrgMembers

The rows (`role`, `users`, `team`, `roster`, `invites`), the tuples (`fga` on the
organization, `members` on the team) and the cached flags of each role are separate
variables; a call writes them one await at a time. `BeginOnUser`, `BeginOnTeam`,
`BeginOnRole` and `BeginOnInvite` start the operations of `Op` that take several steps;
withdrawing or changing an invite and giving a member another address (`UpdateEmail`)
are one statement each. The guard of the last admin is `ReadUsers`, `ReadTeamMembers`,
`EnsureOrgHasAdmin`; replacing tuples is `ReadTuples`, `DeleteTuples`, `LookupRole`
(through the cache), `WriteTuples`; a change of flags goes round `ListHolders` and
`ResyncNext`; the member limit is `CountMembers`, `CountInvites`, `AssertCount`. An
invite of an address that a member has takes no seat until the member changes the
address.

Tuples travel in batches: `FGAClient` sends ten per request, and the master role has
eleven tuples. `Batches(ts)` are the sets the next request may carry, `BatchSize` at
most, and `Unsent` what is left for the requests after it; which tuple goes in which
batch is left open, since it depends on the order of a list. A call fails, loses its
answer or crashes before, between and after the batches, so that a part of the tuples
may be gone or written (`Begun`). `Undo` is a compensation of `runSaga`: the finished
steps in reverse, an error of a compensation swallowed. Faults: `"fail"`, any call
fails; `"reply"`, OpenFGA did what it was asked in a request and the answer is lost;
`"crash"`.

`drift[x]` is auxiliary: why the tuples of `x` may differ from its rows since they
were last replaced as a whole (`overlap` of two calls, `failure`, `crash`, a
`stale` cached role, a `team` whose role changed its flags, rows gone by `cascade`
with their role, a member tuple that an `orphan` user left). `touch` is what a call
has taken hold of, in `Enter` or when it finds more (`ListHolders`, `DeleteRole`):
two calls that hold a common thing overlap from then on (`Claimed`).

### VaultSessions

`Begin` is the call with its two reads, side by side (certificate and permissions),
`Look` the cache and the pending creation, `Register` the entry of an own creation,
`CreateSession` the KMS call, `RevokeMemberSessions` the recovery from the session
limit, after which it is made again, and `Settle` what the promise does: the session
enters the cache, the pending entry goes, the scopes are compared, everyone who waited
goes on. `ChangeMember` is a new certificate or other permissions of the member, with
`InvalidateSessionToken` in the same process later; `Expire` and `Restart` are what
their names say. A session is named by the call that created it. `entitled` is
auxiliary: the scopes the member had during the call.

Seen while modelling, and allowed by the properties: a token that a recovery
revoked may stay cached until it is near its expiry when creations of one key overlap that
recovery; a failed comparison of scopes leaves a live session at miniKMS.

### EnterpriseSync

An executor is a worker pass (`StartPass`, `PickRun` for each pending run it had
selected, `Refuse` when the organization is not entitled) or a manual call
(`Call`, `Request`). Both go on with `Claim`, the UPDATE to running; when it hits
no row, `Look` reads the status and executes a run it finds running.
`Read` takes the entries of a mapping, then its push begins: `PushItem` writes one
entry, `Get` and `PushSet` the whole set. After the last mapping `Conclude` writes
the verdict, `Tell` the audit event, and `Catch` is the catch block. The 28
provider adapters push in eight ways, told apart by `scene.style`:

| style | adapters do |
|---|---|
| `each` | one request per entry, create or update; a refused one ends the run |
| `lenient` | the same, with a 404 taken for success |
| `create` | create only; "already there" counts as success |
| `patch` | one request for all entries, the others stay |
| `graphql` | the same (Railway), with errors under status 200 taken for success |
| `replace` | one request for all entries, the others go |
| `group` | get the remote set, overlay it, put it back (Azure DevOps) |
| `spec` | the same with an app's specification (DigitalOcean), whose services get the values; an app without a service (`scene.bare`) gets back what was fetched, and the run succeeds |

Faults: `"throw"`, anything in the try block throws; `"reply"`, a write takes effect and
its answer is lost; `"list"`, a vault entry cannot be read and is left out; `"db"`, a
status update fails, or a query before the try block (`QueryFails`: entitlement, claim,
look); `"crash"`. A `"reply"` lost by the UPDATE of the claim leaves the run in running
(`lost`). The entries of one mapping are read in one step; entitlement is looked at
where the code does, at the start of a pass's run or a call, and not again.

`Name(m, k)` is what `buildRemoteKey` and `sanitizeSecretKey` make of a key: two keys may
come to one name, where the later one overwrites the earlier and the run succeeds. Which is
later is left open (`Named`, and the order in which `PushItem` takes the items).
`SuccessIsInForce` therefore promises for a name the value of some key of that name, and
excepts by name what a provider drops without telling: entries behind a 404 or a 409,
errors under status 200, an app without a service.

## The runs

| run | instance | what it shows |
|---|---|---|
| `MCPitHistory` | 2 writers, 3 PiTs, 3 clock values, 4 batches over 2 keys | `ReplayIsNewestChange`, `RangeDiffIsExact`, `TimelineHeadIsCurrent`, `PagesCoverWindow`, `SettledPastIsFinal` |
| `MCChangeRequests` | 1 request, 3 handlers, 3 claims, every fault | `OneApplier`, `RefusedLeavesNoTrace`, `SignedOffByReviewer`, `ApprovedIsInForce`, `WritesOnlyWhileApplying`; `ImplementsLifecycle`: every step is a step of `RequestLifecycle` or stutters |
| `MCChangeRequestsSerial` | 2 requests, 1 handler, 2 claims each, every fault | `HistoryTellsVault`, `OneStorePerKey` for requests applied one after the other |
| `MCChangeRequestsLive` | 1 request, 2 handlers, 3 claims, calls may fail | `ClaimResolves` |
| `MCVaultEntries` | 1 handler, 4 calls, 2 keys, 8 kinds of mutation, rollbacks of variables, failing calls | `RollbackRestores`, `KeyLivesOnce` |
| `MCVaultEntriesTwo` | 2 handlers, 3 calls, 2 keys, every fault | `HistoryTellsVault` |
| `MCEnvTypeCache` | 2 handlers, any number of calls, every fault | `StaleHasCause`, `Converges` |
| `MCTenantKeys` | 2 processes with a call and a worker each, 1 cloud key, 2 KEKs, 1 DEK, all operations, 1 failing call or crash | `OneWorker`; `LossHasCause`: a DEK's key is lost only by one of six named causes; `SettledAgrees`: at rest row, sidecar and DEKs agree unless a named cause struck |
| `MCTenantKeysLive` | the same, 3 calls, 2 faults | `JobEnds`, with crashes |
| `MCOrgMembers` | 2 handlers, 2 calls, 3 users, 2 roles, 1 team, 2 addresses, up to 3 tuples in batches of 2, 2 faults | `DriftHasCause`, `LastAdminLeavesUnguarded`, `LimitPassedByRace` |
| `MCVaultSessions` | 2 processes, 3 calls, 2 permission levels, session limit 1 | `WaitsForRunning`, `TokenWithinPermissions`, `ReturnedTokenWorks` |
| `MCEnterpriseSync` | 2 executors, 9 scenes: 1 or 2 runs of a mapping; 1 run of 2 mappings, to one target or to two of which one is an app without services; 1 run of 2 keys of one name | `RefusedWritesNothing`, `VerdictStands`, `SuccessIsInForce`, `RunsEnd` |

Every module with several calls at work also has its `TypeOK` checked once.

**Bounds.** Two keys are enough because entries interact only pairwise (a batch
with a key that is there and one that is not; two stores under one name), two
values tell apart "the old one" and "the new one". Three PiTs make a tie with a
third row on either side. Three handlers let an approval race a rejection and a
cancellation, or two approvals a retry; three claims let a request fail, be
retried by another reviewer and fail again. Four calls in `MCVaultEntries` make a
history, a change after it that fails, and a rollback over both. `MaxAttempts`,
`MaxPits`, `MaxTime` and `PitId` are the bounds; they cut off only how often
something happens. `MCEnvTypeCache` has no bound on the number of calls.

In `MCTenantKeys` two KEKs are one that is in use and one that a second first wrap
makes; two processes let a call, a worker and a reclaim meet, and a crash takes a call
and a worker together. A fault there is a failing call or a crash; the same instance with two of them (`MaxFaults = 2`, 7.2 million states, longer than the runs here) violates nothing either. Two calls in `MCOrgMembers` are two removals, a removal and a change, an invite
and an acceptance; the two initial situations put the only admin right in a user's role
or in the team's. Two faults make a call fail and its compensation fail. Batches of two
for three tuples are what batches of ten are for the eleven tuples of a master role: one
full, one with the rest. Three session calls with a limit of one make a call, one that
shares its creation or recovers, and one that revokes what the first returned. Two
executors are two passes, or a pass and a call; two runs of one mapping meet what an
earlier run left at the provider; only two mappings can share a target or differ in
theirs, and two keys are enough to share a name. The vault changes once during a run, in
the keys it holds at first (`scene.keys`). Deadlock is not checked: with the bounds used
up, or with nobody calling, every model may stop; that started calls do not is what the
liveness properties and `WaitsForRunning` say.

**What the runs do not say.** `HistoryTellsVault` and `OneStorePerKey` of change
requests are checked for requests applied one at a time. Overlapping approvals
can break both: the second one is finding 2; for the first, two approvals of one
key may write in one order and record in the other. In the same way `RollbackRestores` is about
rollbacks that no other call overlaps and whose reads succeed. `list` takes
any read error for a missing entry (`A/services/vault_entry.service.ts:353-362`), so that a rollback
may leave the entry alone and report success; the `"list"` fault of
`MCVaultEntriesTwo` covers what that does to the history.

Two assumptions exclude what the code permits. A batch that lists one key twice passes
the validators; its writes run in parallel and its PiT keeps both rows, so that the
vault may end with one and the history with the other (`MutationsAreCalls` takes a batch
to list a key once). And a rewrap job whose worker is alive after two hours is reclaimed
under it; the worker goes on, and no property here covers what follows.

**Fairness.** `ChangeRequests!FairSpec` is weak fairness of each handler's own
steps: a call that was started is driven on by the event loop as soon as its
await settles. No user has to call anything and no failure has to happen. Since
the code has no recovery for a request left in `applying`, `ClaimResolves` is
stated for runs without crashes and with item queries that succeed.
`EnvTypeCache!CacheFairSpec` adds weak fairness of `Expire`: every entry is set with a
TTL, and the cache drops it when the TTL is over.
`TenantKeys!FairSpec` is weak fairness of every process's steps: the worker's
timer is set again after each restart, and its pass reclaims. Crashes and calls are
bounded and never have to happen. `EnterpriseSync!FairSpec` is weak
fairness of each executor's own steps: the timer starts a pass every 30 seconds in
every process and the event loop goes on with it. `RunsEnd` excepts the runs an
executor dropped by dying or failing to write the verdict: nothing in the code
takes up a run that is left in running.

## Known deviations

Where a comment promises more than the code does, or where a property that one
might expect fails, the property is in the module and a configuration beside the
others shows it violated: `tlc -config <configuration> <module>`. They are
no part of the runs above, which are expected to pass.

| configuration, module | property | what happens |
|---|---|---|
| `MCPitDiff.cfg`, `MCPitHistory` | `PitDiffIsExact` | the diff of two PiTs (`A/services/env_store_pit.service.ts:393`) relies on "`from` is always <= `to`" (line 389); nothing orders the two ids. With the later one first, differences are missing |
| `MCChangeRequestsCollide.cfg`, `MCChangeRequests` | `OneStorePerKey` | two approvals that run at once can make one name a variable and a secret; each checks the other store before either writes |
| `MCVaultEntriesNameTaken.cfg`, `MCVaultEntries` | `KeyLivesOnce` | a batch update of variables writes a name that a secret has; neither the endpoint nor the service looks |
| `MCVaultEntriesBatchDelete.cfg`, `MCVaultEntries` | `BatchDeletionIsRecorded` | `batchDeleteEnvs` deletes, then trips over the `undefined` of a name that was not there, and records nothing |
| `MCEnvTypeCacheRace.cfg`, `MCEnvTypeCache` | `ProtectedIsSeen` | a reader that loaded an unprotected row caches it after the change to protected has invalidated the cache; until the TTL runs out, direct mutations started later pass the guard |
| `MCTenantKeysPending.cfg`, `MCTenantKeys` | `PendingIsRoot` | a source that was never attached is said to have its DEKs under the root key (`E/services/cmk.service.ts:94`); a first attach whose rewrapping fails half-way puts the row back to pending while DEKs are under its KEK |
| `MCOrgMembersFlags.cfg`, `MCOrgMembers` | `FlagsReachHolders` | "Re-sync FGA tuples for all users with this role" (`A/services/role.service.ts:253`): the flags are read through the cache, which is invalidated only at line 275, so the tuples get the old flags; needs neither fault nor overlap |

## The proofs

Each theorem holds for all values of the constants that satisfy the assumptions
named, in particular for any number of calls, processes, keys and requests, and with
every fault allowed. TLC checks the same formula on the instance of the run
that lists it.

| module | theorem | property |
|---|---|---|
| `PitHistory_proofs` | `TypeCorrect`, `ReplayIsNewestChangeAlways`, `RangeDiffIsExactAlways`, `SettledPastIsFinalAlways` | types (`TypeOK` of the proofs), `[]ReplayIsNewestChange`, `[]RangeDiffIsExact`, `SettledPastIsFinal` |
| | `TimelineHeadIsCurrentAlways`, `PagesCoverWindowAlways` | `[]TimelineHeadIsCurrent`, `[]PagesCoverWindow` |
| `ChangeRequests_proofs` | `TypeCorrect`, `OneApplierAlways`, `RefusedLeavesNoTraceAlways`, `SignedOffAlways`, `WritesOnlyWhileApplyingAlways` | `[]TypeOK`, the three invariants, the action property |
| | `ApprovedIsInForceAlways` | `[]ApprovedIsInForce`, approvals overlapping or not |
| | `HistoryTellsVaultAlone`, `OneStorePerKeyAlone` | both invariants, for a single handler: overlapping approvals break them |
| | `LifecycleImplemented` | `ImplementsLifecycle`: the refinement of `RequestLifecycle` |
| `VaultEntries_proofs` | `TypeCorrect`, `HistoryTellsVaultAlways` | `[]TypeOK`, `[]HistoryTellsVault` |
| | `KeyLivesOnceAlone` | `[]KeyLivesOnce`, for a single handler and mutations that are checked |
| | `RollbackRestoresAlone` | `RollbackRestores`, for a single handler and reads that succeed |
| | `CacheTypeCorrect`, `StaleHasCauseAlways` | `[]CacheTypeOK`, `[]StaleHasCause` |
| `TenantKeys_proofs` | `TypeCorrect`, `OneWorkerAlways`, `KeysAreLostForCause`, `SettledAlwaysAgrees` | `[]TypeOK`, `[]OneWorker`, `[]LossHasCause`, `[]SettledAgrees` |
| `OrgMembers_proofs` | `TypeCorrect`, `LastAdminGuarded`, `LimitGuarded`, `DriftAlwaysHasCause` | `[]TypeOK`, `LastAdminLeavesUnguarded`, `LimitPassedByRace`, `[]DriftHasCause` |
| `VaultSessions_proofs` | `TypeCorrect`, `WaitersAreServed`, `TokensWithinPermissions`, `ReturnedTokensWork` | `[]TypeOK`, `[]WaitsForRunning`, `TokenWithinPermissions`, `ReturnedTokenWorks` |
| `EnterpriseSync_proofs` | `TypeCorrect`, `RefusedWritesNothingAlways`, `VerdictStandsAlways`, `SuccessIsInForceAlways` | `[]TypeOK`, `[]RefusedWritesNothing`, `VerdictStands`, `SuccessIsInForce` |

**The assumptions** are those of the modules, all of them about the shape of the constants: null values
are fresh, roles are users, contents and batches are change sets, bounds are
natural numbers, calls and workers are apart. `OrgMembersAssumption` also says
that users and addresses are finite, because the member limit counts them, and
that the founders exist and hold what the founding gave them, that a batch of tuples takes at least one, and `KindsApart`, that
users, the team, its memberships and the roles are different things; `PitHistoryAssumption`,
that there are finitely many PiT ids, so that the log has a length; and `MutationsAreCalls` of
`VaultEntries`, that the changes of a mutation carry the operation of their endpoint,
which sets it itself, one change for a key. Nothing is assumed about the number of anything.

**Logs.** `Replay`, `RowsAt` and `SinglePass` are recursive functions of a
position. `PitReplay_proofs` reasons about them by induction on the position, in
a form that needs no predicate as a parameter: a set of numbers has a least member
(`LeastNumber`, from the well-foundedness of `<`), so a set of positions with 0 that goes on
from each position to the next has them all (`Positions`). `Tells(rows, n, snap)`
says what a snapshot should be after n rows: each key has the outcome of its newest row.
There is only one such snapshot (`TellsOne`), the next row takes it one further
(`TellsNext`), so the loop computes it (`ReplayRuns`). For an ordered log a
moment cuts the rows in two (`CutExists`), the query returns the part before the
cut (`RowsTillCut`), and the one pass of a range diff is two replays
(`SinglePassIsTwoReplays`). `ReplayAppend` is what recording a PiT does.
Every WHERE of the services is a set of positions, and `RowsAt(log, keep)` its result:
the rows at the positions of `keep`, in the order of the log (`Selects`: the rows
selected are exactly those kept, and the last of them is the last one kept).

`PitHistory` then needs only

    Inv == TypeOK /\ Ordered(log) /\ PastOnly /\ IdsGivenOnce

The log stays ordered although a commit may put a row before rows that are already there;
no stamp is in the future, or the replay till now would miss rows; an id names
one PiT, or `getEnvsTillPiTId` could find another's stamp. `SettledPastIsFinal`
follows because a row that is committed later has a stamp after the settled
moment, so that it lands behind its cut (`CommitKeepsPast`).
`TimelineHeadIsCurrent` compares two selections: the newest row that changed a key, as the
timeline finds it, and the newest row with that key of `Replay`; both are the last
position whose row lists the key (`TimelineHead`). `PagesCoverWindow` counts: the
bounds of a page follow from those of the division (`PageBounds`), page after page
goes on where the one before it stopped, so that n pages are the first
`n * PageSize` rows of the window (`PagesAreRows`, by induction on the pages), and
the last page ends with the last row.

**Change requests.** The first inductive invariant is

    IInv == TypeOK /\ JobsAreSound /\ OneApplier /\ RefusedLeavesNoTrace
              /\ ClaimantsMayReview /\ SignedOffByReviewer

`JobsAreSound` says that a running handler works for a created request and that its
remaining items are listed in that request; without it a step of a handler could
not be tied to the row it changes. `ClaimantsMayReview` carries the permission
check of `StartApprove` and `StartReject` over to the UPDATE that follows.
`OneApplier` is inductive together with these: `Claim` takes a row only out of
`pending` or `failed`, where by `OneApplier` nobody holds it, and every other
change of `status` is made by its holder or under a test for `pending`.
`RefusedLeavesNoTrace` follows because only a holder has effects and a row never
goes back to `pending`. The proofs go by lemma per step: what an action does to
the type, to the soundness of jobs and to each invariant, then one lemma that
combines them, then PTL.

That an approved request is in force needs to know what an approval has achieved
so far:

    AInv == CertificatesCarryNothing /\ WorkIsInForce /\ ApprovedIsInForce
              /\ (Solo => HistoryTellsVault /\ ChecksStand /\ OneStorePerKey)

`WorkIsInForce` says of a handler inside the try block that the items it has
ticked off are in the vault and the PiTs it has recorded are what the history
replays to, for each key that no other request touched, and that nothing is left
to do once it records; certificate requests, which skip the items, have none.
The lemma that carries it is `StepPuts`: whatever a step changes in the vault or in
the replay of the history is what the request of the handler proposes for the
key, and that request is then among those that touched the key. So a key only one request
touched is changed by nobody else, whoever overlaps and whatever fails, and a lost
reply or a failed attempt leaves nothing that the next attempt does not
overwrite. With a single handler (`Solo`) the same holds without asking who
touched the key: this gives `HistoryTellsVault`, and `ChecksStand`, that a write
finds the other store as `checkKeyExists` has seen it, gives `OneStorePerKey`.

The refinement has one lemma per kind of step, under `IInv`: `Insert` opens,
`Claim` takes or stutters, writes, certificates and PiTs affect, `Finalize` and
`MarkFailed` give back, a crash or a failing item query loses, `Reject` and
`Cancel` refuse or stutter, everything else stutters. `OneApplier` carries it: it
makes the handler of an effect the only holder, lets `Claim` find nobody, and
makes the UPDATEs of `Finalize` and `MarkFailed` find their row.

**Vault entries.** The inductive invariant is

    Inv == TypeOK /\ IsFiniteSet(Active) /\ JobsFit /\ WritesStand /\ HistoryTellsVault

`JobsFit` says that a call works on the keys of its plan and that a mutation has its
plan from its caller. `WritesStand` is what makes `HistoryTellsVault` inductive:
whatever a call has written and not yet recorded stands in the vault, unless it failed
to write or another call wrote the same key since (`raced`). When the PiT is recorded,
the history takes over exactly those keys; when the call ends without recording, they
become `doubtful`. This holds for any number of handlers.

That a key lives in one store holds only for calls one after the other, and only when
nobody calls the batch update of variables, which does not look at the other store
(`MCVaultEntriesNameTaken.cfg` shows what comes of it). The theorem says so:
`OneHandler` and `NamesAreChecked` are its hypotheses. It goes by `NamesApart`: what a
call still has to write is absent from the other store since it was checked.
`RollbackRestores` needs `OneHandler` too, and that a rollback's reads succeed: `list`
takes an error for a missing entry. It goes by `RollbacksPlanned`: the keys outside the
plan of a rollback already are what the target says, the others will be once they are
written.

**Environment types.** `CacheInv == CacheTypeOK /\ CallsFit /\ StaleHasCause`. `CallsFit`
says that a call remembers a row it has replaced only until it ends, that a reader
about to fill the cache has a row, and that a direct mutation never comes to change
the row. Without it a stale entry could be put down to a call that had not changed
anything, and the fill of a reader could write an entry out of nothing.

**Customer-managed keys.** `OneWorker` needs the shape of frames beside the type:
only the holder of the job is at a step between `Claim` and `EndJob` (`FrameFits`).
`Claim` takes only a pending job, of which there is no holder; `Reclaim` needs
that there is none. `LossHasCause` needs

    LossInv == (\A p \in Proc : LoadFits(p, proc[p], job.kind)) /\ (Harmless => Quiet)
    Quiet   == KeysFit /\ \A p \in Proc : WorkFits(proc[p], row, job.kind, wrap, sidecar.kek)

`KeysFit` says that a DEK is under the root key or under the KEK the sidecar has, that
this is the KEK of the row, and that a row that was never attached has none on the
sidecar except while an attach runs or waits to be undone. `WorkFits` says what a worker
may rely on at each await: a detach clears the sidecar only after all DEKs are back
under the root key, and resets the row only after the sidecar is clear. Both hold as
long as none of the six causes has struck. Between the SELECT and the UPDATE of a
reclaim other calls go on: `StaleInv` says that what a reclaimer found is still true of
the newest job as long as nobody enqueued another (its kind, and that it was claimed and
nobody holds it), so that a late UPDATE fails no job but the one it found. The attempt
to prove it showed the sixth: an attach enqueued in the middle of a reclaim
(`reclaim_overlapped`) breaks `KeysFit` by itself.

`SettledAgrees` needs more than that no key is lost, namely where each operation is
in its window:

    AgreeInv == /\ \A p \in Proc : CarryFits(proc[p], job.previous)
                /\ causes = {} => RowAgrees /\ AllStagesFit

`Whole` says that row, sidecar and DEKs are on one key. By `RowAgrees` an attached row
is whole except in two windows. One is the attach: a `rotating` row has an attach in
hand (queued or run by a worker that has not given it up) or a process about to undo one
(`Returning`, which a reclaimer is from its SELECT on). The other is the detach, from
the moment its DEKs are back under the root key (the rewrap is one call of the sidecar)
to its reset of the row; a detach that stops inside is a named cause. An attach of a row
that was attached before (`Reattach`) starts whole and stays whole, because a rewrap
finds the DEKs where it wants them, so the status that `Revert` puts back is true;
clearing the sidecar after it is a named cause too. `StageFits` says how far an attach
has come at each await, `CarryFits` that the process holds the key it means to write and
the status it has to return to.

**Members.** `Inv == TablesTyped /\ RolesExist /\ OneMember /\ FramesFit`.
`TypeOK` says more than types: a role that is named exists, an address has one member,
the roster of the team consists of members. `FramesFit` ties what a call read to the await
it is at: the roles that are named, what the last-admin guard saw, the counts of the
limit check (`GuardFits`, `CountFits`). `LastAdminGuarded` and `LimitGuarded` compare what stands
with what the guard saw; they follow from `FramesFit` and, for the counts, from
facts about finite sets.

`DriftHasCause` needs a statement about every call at every await:

    DriftInv == Drift(proc, World)
    Drift(f, w) ==
      /\ Shapes(f, w) /\ Untouched(w) /\ Apart(f) /\ Sounds(f, w)
      /\ AllKept(f, w) /\ HoldersKnown(f, w) /\ ClearFits(f, w)

`AllKept` is the aim: a thing agrees with its rows, has a cause, or is held by a call
that has changed something. `Apart` says that two calls that hold a common thing know
that they overlap. There is one exception, the acceptance of an invite while the team is
deleted, which share the link of the new user and do not disturb each other. `Sounds`
says how far a call is that nothing overlaps (`SoundSetUserRole` and so on, one for each
operation: the tuples are gone, the role looked up is the row's or the subject is put
down as stale, the tuples written are the role's; between two batches the subject has
exactly the tuples sent so far, `Replacing`, and `BatchIn` says what a batch takes and
leaves). `Shapes` says what a call holds at which await and from which await on it has
changed something, `Untouched` that nothing is known of an id not given out.
`HoldersKnown` is for a change of flags, which makes the tuples of all holders wrong at
once: each holder is held by the call or has a cause. `ClearFits` is for a call that
takes the team's role away and found no tuples to delete.

The invariant speaks of a function of frames and a record of tables, so that one lemma,
`MovesDrift`, does the work for every step: a step of one call (`Moves`) that changes
nothing outside what the call holds (`Elsewhere`, `Outside`) and leaves each thing it
held as it was, held, with a cause or in agreement (`Left`) preserves it. `StepDrift`,
`EndDrift` and `ClaimDrift` are its forms for a step within a call, the end of a call and
a call that takes hold of more; each action then has one lemma.

The attempt to prove it found an error of the model: `ListHolders` took hold of the
holders it found without telling the calls that already held them, so that a change of
flags and a user's role change that met there did not count as an overlap.

**Vault sessions.** The inductive invariants are

    Inv      == TypeOK /\ CallsFit /\ RepliesFit /\ PendingRuns /\ WaitsForRunning
    TokenInv == Inv /\ \A c \in Call : SessionFits(c) /\ SawFits(c)

`CallsFit` ties a call to its process and to the scopes it read, `RepliesFit` the
session that was created to the key of its creator, `PendingRuns` each entry of the
pending map to a creation that is under way in that process under that key. Without the
last, a call could begin to wait for a creation that has ended. Settling a promise
serves all its waiters in one step, and this is what keeps `WaitsForRunning`.
`TokenWithinPermissions` follows: a cached or shared session has the caller's key, the
key contains the scopes, and the call read the scopes itself. `SessionFits` says of a
session that it ages only after it was answered, and was cut by a recovery of its own
key in its own process only once no later look into the cache entry returns it;
`SawFits` that what a creation saw settled when it looked is past in that sense. So a
token cut by such a recovery is returned by no call that looks afterwards.

**Provider sync.** The inductive invariants are

    Inv       == RowsTyped /\ RestTyped /\ RunsFit /\ JobsFit
    StrongInv == Inv /\ AloneIsAlone /\ JobsInForce /\ VerdictsFit

`JobsFit` says of each job that its run was created and, once it was claimed or found
claimed, has left pending for good; `RunsFit` that a run something was written for has
left pending. So the refusal, which asks for pending, meets no execution and no write,
and an executor that finds a refused run finds it finished. The lemma `Move` covers
every step that leaves the rows alone, `RowMove` those that write one, and `BeginFits`
the start of an execution, which touches the jobs of others. `JobsInForce` is the loop
invariant of the eight ways to push: what was pushed so far, by a run that nothing
overlapped, is at the provider under its remote name, or was dropped where the provider
does not tell; `AloneIsAlone` says that such a run has no other executor, `VerdictsFit`
which status the row of a run has at each await of its executor.

**Only model-checked.** Every invariant and action property that a run checks is
also stated by a theorem, under the restriction the table names. What stays with TLC is
liveness (`Converges`, `ClaimResolves`, `JobEnds`, `RunsEnd`), since the prover
handles neither fairness nor `ENABLED`.

## Plan

1. done: PiT history, change requests, vault entries, the environment type cache,
   customer-managed keys, members, vault sessions, provider sync; theorems about
   each of them, among them the refinement of the life cycle of a request.
2. models to come: the certificate lifecycle worker; organization provisioning and
   application deletion as further users of `runSaga`; the license lock.
3. proofs to come: theorems about those models; for the models there are, what is
   left is liveness, out of the prover's reach.

## Not modelled

What the component table lists and no module names. Most of the repository's
lines are web applications, the CLI, the SDKs, the deployment tools, protocol
adapters (SAML, OIDC, ACME, cloud and provider clients) and single-row CRUD: they
keep no state of the system that several steps share, and a model of them would
repeat the source.

* Credential rotation: as the code stands a rotation cannot get past its engine,
  which refuses the configuration it is handed or is not implemented, so that a
  model would be about states the program does not reach.
* Dynamic secrets: a lease is one row; the clean-up marks expired leases revoked
  without a call to the engine.
* Certificates: issuing is one external step in `ChangeRequests` and a new
  certificate a change of the member in `VaultSessions`; the lifecycle worker is planned.
* License state: one row, a heartbeat, and a decision that is a function of the clock and
  the row.
* Organization creation, application deletion: sagas without concurrent
  state, planned.
* Authorization is decided by OpenFGA: `OrgMembers` models the tuples that are written,
  `ChangeRequests` takes the resulting sets of users as constants.
* Audit log, webhooks, mail and telemetry are written and never read; where a
  failing audit event changes what a call does (`EnterpriseSync`), that is in the model.
* Values are never looked into, so encryption does not appear; `TenantKeys` knows which
  key wraps a DEK and nothing of ciphertexts.
