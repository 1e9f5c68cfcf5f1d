--------------------------- MODULE ChangeRequests ---------------------------
(***************************************************************************)
(* Change requests against one protected environment type: who may resolve *)
(* a request, how an approval claims it, applies its items to the vault,   *)
(* records them in the point-in-time history and closes it.                *)
(*                                                                         *)
(* Every API call runs as a handler.  A handler reads the request row, then*)
(* awaits permission checks, conditional UPDATEs, vault calls and inserts  *)
(* one after the other, and any other handler (on this or on another API   *)
(* instance) may run at each await.  The pc of a handler names the call it *)
(* is about to make.                                                       *)
(***************************************************************************)
EXTENDS PitReplay, FiniteSets

CONSTANTS
  Request,         \* identities of change requests
  User,
  Handler,         \* API calls in progress
  Editors,         \* users with can_edit (or admin, master) in the organization
  Managers,        \* users with can_manage_protected on the environment type
  Admins,          \* users who are admin or master of the organization
  DirectContents,  \* [env, secret] change sets a direct request may carry
  Snapshots,       \* [env, secret] contents a promotion may read from its source
  Faults,          \* which of "throw", "load", "crash" may happen
  MaxAttempts,     \* bound: how often one request is claimed
  NoRequest, NoUser, NoItem

ASSUME RolesAreUsers == Editors \subseteq User /\ Managers \subseteq User /\ Admins \subseteq User
ASSUME NullsAreFresh == NoUser \notin User /\ NoRequest \notin Request
ASSUME AttemptsAreBounded == MaxAttempts \in Nat
ASSUME ContentsAreChangeSets ==
  /\ \A c \in DirectContents : c.env \in ChangeSet /\ c.secret \in ChangeSet
  /\ \A c \in Snapshots : c.env \in ChangeSet /\ c.secret \in ChangeSet

Store == {"env", "secret"}
Other(s) == IF s = "env" THEN "secret" ELSE "env"

Status == {"none", "pending", "applying", "approved", "failed", "rejected", "cancelled"}
Kind == {"direct", "promotion", "certificate"}

Content == [kind : Kind, env : ChangeSet, secret : ChangeSet]
NoChanges == [k \in {} |-> [operation |-> "UPDATE", value |-> Absent]]
NoContent == [kind |-> "direct", env |-> NoChanges, secret |-> NoChanges]

Item == Store \X Key

\* What a handler is about to do; "idle" when it has returned.
PC == {"idle", "claim", "load", "apply", "read", "check", "write", "issue",
       "recordEnv", "recordSecret", "final", "fail", "reject", "cancel"}

\* The awaits inside the try block of approveChangeRequest.
Guarded == {"apply", "read", "check", "write", "issue", "recordEnv", "recordSecret", "final"}

Job == [pc : PC, req : Request \cup {NoRequest}, user : User \cup {NoUser},
        todo : SUBSET Item, item : Item \cup {NoItem}]

IdleJob == [pc |-> "idle", req |-> NoRequest, user |-> NoUser, todo |-> {}, item |-> NoItem]

VARIABLES
  status,     \* change_request.status
  requester,  \* change_request.requested_by_user_id
  reviewer,   \* change_request.reviewed_by_user_id
  content,    \* request_kind and the change_request_*_item rows
  vault,      \* live entries of the environment type, per store
  history,    \* the PiT tables, per store
  job,        \* one record per handler
  attempts,   \* claims so far, for the bound
  touched     \* auxiliary: requests whose approval changed the vault, issued
              \* a certificate or recorded history

vars == <<status, requester, reviewer, content, vault, history, job, attempts, touched>>
row  == <<status, requester, reviewer, content>>
data == <<vault, history>>
aux  == <<attempts, touched>>

Pit == [req : Request, changes : ChangeSet]

TypeOK ==
  /\ status \in [Request -> Status]
  /\ requester \in [Request -> User \cup {NoUser}]
  /\ reviewer \in [Request -> User \cup {NoUser}]
  /\ content \in [Request -> Content]
  /\ vault \in [Store -> Snapshot]
  /\ history \in [Store -> Seq(Pit)]
  /\ job \in [Handler -> Job]
  /\ attempts \in [Request -> Nat]
  /\ touched \in SUBSET Request

Init ==
  /\ status = [r \in Request |-> "none"]
  /\ requester = [r \in Request |-> NoUser]
  /\ reviewer = [r \in Request |-> NoUser]
  /\ content = [r \in Request |-> NoContent]
  /\ vault = [s \in Store |-> EmptySnapshot]
  /\ history = [s \in Store |-> <<>>]
  /\ job = [h \in Handler |-> IdleJob]
  /\ attempts = [r \in Request |-> 0]
  /\ touched = {}

-----------------------------------------------------------------------------
(* Creating a request.                                                     *)

Insert(r, u, c) ==
  /\ status[r] = "none"
  /\ status' = [status EXCEPT ![r] = "pending"]
  /\ requester' = [requester EXCEPT ![r] = u]
  /\ content' = [content EXCEPT ![r] = c]
  /\ UNCHANGED <<reviewer, data, job, aux>>

\* createDirect: at least one item, by a member who may edit.
CreateDirect(r, u) ==
  /\ u \in Editors
  /\ \E c \in DirectContents :
       /\ DOMAIN c.env \cup DOMAIN c.secret # {}
       /\ Insert(r, u, [kind |-> "direct", env |-> c.env, secret |-> c.secret])

\* createPromotion: every entry of the source becomes an UPDATE; the source
\* may be empty.
CreatePromotion(r, u) ==
  /\ u \in Editors
  /\ \E c \in Snapshots :
       Insert(r, u,
         [kind   |-> "promotion",
          env    |-> [k \in DOMAIN c.env |-> [c.env[k] EXCEPT !.operation = "UPDATE"]],
          secret |-> [k \in DOMAIN c.secret |-> [c.secret[k] EXCEPT !.operation = "UPDATE"]]])

\* createCertificateOp: no items; the operation travels in the message.
CreateCertificateOp(r, u) ==
  Insert(r, u, [NoContent EXCEPT !.kind = "certificate"])

-----------------------------------------------------------------------------
(* Handlers.                                                               *)

Goto(h, label) == job' = [job EXCEPT ![h].pc = label]
Return(h) == job' = [job EXCEPT ![h] = IdleJob]
Enter(h, label, r, u) ==
  /\ job[h].pc = "idle"
  /\ job' = [job EXCEPT ![h] = [IdleJob EXCEPT !.pc = label, !.req = r, !.user = u]]
  /\ UNCHANGED <<row, data, aux>>

\* Faulty variant: nobody asks whose request it is.
MayReviewOwn(r, u) == u \in Managers

\* assertReviewer: own requests only for an admin or master of the
\* organization, and can_manage_protected in any case.
MayReview(r, u) == u \in Managers /\ (u = requester[r] => u \in Admins)

\* approveChangeRequest up to the claim: status and permissions are read.
StartApprove(h, r, u) ==
  /\ status[r] \in {"pending", "failed"}
  /\ MayReview(r, u)
  /\ attempts[r] < MaxAttempts
  /\ Enter(h, "claim", r, u)

\* Faulty variant: the claim UPDATE also takes a row that is "applying".
ClaimAnything(h) ==
  LET r == job[h].req
      u == job[h].user IN
  /\ job[h].pc = "claim"
  /\ status' = [status EXCEPT ![r] = "applying"]
  /\ reviewer' = [reviewer EXCEPT ![r] = u]
  /\ attempts' = [attempts EXCEPT ![r] = @ + 1]
  /\ Goto(h, "load")
  /\ UNCHANGED <<requester, content, data, touched>>

\* The conditional UPDATE to "applying". No row: the call is refused.
Claim(h) ==
  LET r == job[h].req
      u == job[h].user
      claimable == \/ status[r] = "pending" /\ reviewer[r] \in {NoUser, u}
                   \/ status[r] = "failed"
  IN
  /\ job[h].pc = "claim"
  /\ \/ /\ claimable
        /\ status' = [status EXCEPT ![r] = "applying"]
        /\ reviewer' = [reviewer EXCEPT ![r] = u]
        /\ attempts' = [attempts EXCEPT ![r] = @ + 1]
        /\ Goto(h, "load")
     \/ /\ ~claimable
        /\ Return(h)
        /\ UNCHANGED <<status, reviewer, attempts>>
  /\ UNCHANGED <<requester, content, data, touched>>

\* The item rows are fetched, before the try block.
LoadItems(h) ==
  LET c == content[job[h].req] IN
  /\ job[h].pc = "load"
  /\ job' = [job EXCEPT
       ![h].pc = IF c.kind = "certificate" THEN "issue" ELSE "apply",
       ![h].todo = {<<"env", k>> : k \in DOMAIN c.env} \cup
                   {<<"secret", k>> : k \in DOMAIN c.secret}]
  /\ UNCHANGED <<row, data, aux>>

ChangeOf(h) == content[job[h].req][job[h].item[1]][job[h].item[2]]

\* The loops of applyChangeRequestItems: environment variables, then
\* secrets; the rows of a request carry one created_at, so their order is open.
PickItem(h) ==
  /\ job[h].pc = "apply"
  /\ \E item \in job[h].todo :
       /\ item[1] = "secret" => \A i \in job[h].todo : i[1] = "secret"
       /\ job' = [job EXCEPT
            ![h].item = item,
            ![h].pc = IF content[job[h].req][item[1]][item[2]].operation = "CREATE"
                      THEN "check" ELSE "read"]
  /\ UNCHANGED <<row, data, aux>>

ItemDone(h) ==
  job' = [job EXCEPT ![h].pc = "apply", ![h].todo = @ \ {job[h].item}, ![h].item = NoItem]

\* Faulty variant: an UPDATE of a missing entry is skipped like a DELETE.
ReadEntryOrSkip(h) ==
  /\ job[h].pc = "read"
  /\ IF vault[job[h].item[1]][job[h].item[2]] # Absent THEN Goto(h, "write") ELSE ItemDone(h)
  /\ UNCHANGED <<row, data, aux>>

\* The vaultRead of update and delete. A missing entry turns an UPDATE into
\* a create and ends a DELETE.
ReadEntry(h) ==
  LET present == vault[job[h].item[1]][job[h].item[2]] # Absent IN
  /\ job[h].pc = "read"
  /\ \/ present /\ Goto(h, "write")
     \/ ~present /\ ChangeOf(h).operation = "UPDATE" /\ Goto(h, "check")
     \/ ~present /\ ChangeOf(h).operation = "DELETE" /\ ItemDone(h)
  /\ UNCHANGED <<row, data, aux>>

\* Faulty variant: the key is looked up in the store it is created in.
CheckKeySameStore(h) ==
  /\ job[h].pc = "check"
  /\ Goto(h, IF vault[job[h].item[1]][job[h].item[2]] # Absent THEN "fail" ELSE "write")
  /\ UNCHANGED <<row, data, aux>>

\* checkKeyExists of create looks into the other store only.
CheckKey(h) ==
  LET taken == vault[Other(job[h].item[1])][job[h].item[2]] # Absent IN
  /\ job[h].pc = "check"
  /\ Goto(h, IF taken THEN "fail" ELSE "write")
  /\ UNCHANGED <<row, data, aux>>

ChangeVault(h) ==
  LET c == ChangeOf(h) IN
  /\ vault' = [vault EXCEPT ![job[h].item[1]][job[h].item[2]] =
                 IF c.operation = "DELETE" THEN Absent ELSE c.value]
  /\ touched' = touched \cup {job[h].req}

\* vaultWrite or vaultDelete. It may take effect although the caller sees
\* an error.
WriteEntry(h) ==
  /\ job[h].pc = "write"
  /\ ChangeVault(h)
  /\ ItemDone(h)
  /\ UNCHANGED <<row, history, attempts>>

WriteEntryReplyLost(h) ==
  /\ "throw" \in Faults
  /\ job[h].pc = "write"
  /\ ChangeVault(h)
  /\ Goto(h, "fail")
  /\ UNCHANGED <<row, history, attempts>>

ItemsDone(h) ==
  /\ job[h].pc = "apply"
  /\ job[h].todo = {}
  /\ Goto(h, "recordEnv")
  /\ UNCHANGED <<row, data, aux>>

\* Faulty variant: the PiT of the secrets is forgotten.
RecordPiTEnvOnly(h, s) ==
  LET r == job[h].req IN
  /\ job[h].pc = IF s = "env" THEN "recordEnv" ELSE "recordSecret"
  /\ Goto(h, IF s = "env" THEN "recordSecret" ELSE "final")
  /\ IF s = "env" /\ DOMAIN content[r][s] # {}
     THEN /\ history' = [history EXCEPT ![s] =
                          Append(@, [req |-> r, changes |-> content[r][s]])]
          /\ touched' = touched \cup {r}
     ELSE UNCHANGED <<history, touched>>
  /\ UNCHANGED <<row, vault, attempts>>

\* One PiT per store that has items: environment variables, then secrets.
RecordPiT(h, s) ==
  LET r == job[h].req IN
  /\ job[h].pc = IF s = "env" THEN "recordEnv" ELSE "recordSecret"
  /\ Goto(h, IF s = "env" THEN "recordSecret" ELSE "final")
  /\ \/ /\ DOMAIN content[r][s] # {}
        /\ history' = [history EXCEPT ![s] =
                         Append(@, [req |-> r, changes |-> content[r][s]])]
        /\ touched' = touched \cup {r}
     \/ /\ DOMAIN content[r][s] = {}
        /\ UNCHANGED <<history, touched>>
  /\ UNCHANGED <<row, vault, attempts>>

\* The certificate branch: issueLeaf, or nothing for another operation.
IssueCertificate(h) ==
  /\ job[h].pc = "issue"
  /\ Goto(h, "final")
  /\ \/ touched' = touched \cup {job[h].req}
     \/ UNCHANGED touched
  /\ UNCHANGED <<row, data, attempts>>

\* The conditional UPDATE that closes the request.
Finalize(h) ==
  LET r == job[h].req
      mine == status[r] = "applying" /\ reviewer[r] = job[h].user
  IN
  /\ job[h].pc = "final"
  /\ \/ /\ mine
        /\ status' = [status EXCEPT ![r] = "approved"]
        /\ Return(h)
     \/ /\ ~mine
        /\ Goto(h, "fail")
        /\ UNCHANGED status
  /\ UNCHANGED <<requester, reviewer, content, data, aux>>

\* Faulty variant: the catch block only rethrows.
MarkFailedNever(h) ==
  /\ job[h].pc = "fail"
  /\ Return(h)
  /\ UNCHANGED <<row, data, aux>>

\* Faulty variant: the catch block opens the request again.
MarkPending(h) ==
  LET r == job[h].req
      mine == status[r] = "applying" /\ reviewer[r] = job[h].user
  IN
  /\ job[h].pc = "fail"
  /\ status' = [status EXCEPT ![r] = IF mine THEN "pending" ELSE @]
  /\ Return(h)
  /\ UNCHANGED <<requester, reviewer, content, data, aux>>

\* The catch block.
MarkFailed(h) ==
  LET r == job[h].req
      mine == status[r] = "applying" /\ reviewer[r] = job[h].user
  IN
  /\ job[h].pc = "fail"
  /\ status' = [status EXCEPT ![r] = IF mine THEN "failed" ELSE @]
  /\ Return(h)
  /\ UNCHANGED <<requester, reviewer, content, data, aux>>

\* rejectChangeRequest: getPendingForReview, then the conditional UPDATE.
StartReject(h, r, u) ==
  /\ status[r] = "pending"
  /\ MayReview(r, u)
  /\ Enter(h, "reject", r, u)

\* Faulty variant: the UPDATE relies on the status read before it.
RejectUnchecked(h) ==
  LET r == job[h].req IN
  /\ job[h].pc = "reject"
  /\ status' = [status EXCEPT ![r] = "rejected"]
  /\ reviewer' = [reviewer EXCEPT ![r] = job[h].user]
  /\ Return(h)
  /\ UNCHANGED <<requester, content, data, aux>>

Reject(h) ==
  LET r == job[h].req
      u == job[h].user
      rejectable == status[r] = "pending" /\ reviewer[r] \in {NoUser, u}
  IN
  /\ job[h].pc = "reject"
  /\ status' = [status EXCEPT ![r] = IF rejectable THEN "rejected" ELSE @]
  /\ reviewer' = [reviewer EXCEPT ![r] = IF rejectable THEN u ELSE @]
  /\ Return(h)
  /\ UNCHANGED <<requester, content, data, aux>>

\* cancelChangeRequest, by the requester only.
StartCancel(h, r, u) ==
  /\ status[r] = "pending"
  /\ requester[r] = u
  /\ Enter(h, "cancel", r, u)

\* Faulty variant: the UPDATE relies on the status read before it.
CancelUnchecked(h) ==
  /\ job[h].pc = "cancel"
  /\ status' = [status EXCEPT ![job[h].req] = "cancelled"]
  /\ Return(h)
  /\ UNCHANGED <<requester, reviewer, content, data, aux>>

\* Faulty variant: a status the column does not know.
CancelMisspelt(h) ==
  /\ job[h].pc = "cancel"
  /\ status' = [status EXCEPT ![job[h].req] = IF @ = "pending" THEN "canceled" ELSE @]
  /\ Return(h)
  /\ UNCHANGED <<requester, reviewer, content, data, aux>>

Cancel(h) ==
  LET r == job[h].req IN
  /\ job[h].pc = "cancel"
  /\ status' = [status EXCEPT ![r] =
                  IF @ = "pending" /\ reviewer[r] = NoUser THEN "cancelled" ELSE @]
  /\ Return(h)
  /\ UNCHANGED <<requester, reviewer, content, data, aux>>

-----------------------------------------------------------------------------
(* Failures.                                                               *)

\* A call inside the try block fails without effect; the catch block runs.
Throw(h) ==
  /\ "throw" \in Faults
  /\ job[h].pc \in Guarded
  /\ Goto(h, "fail")
  /\ UNCHANGED <<row, data, aux>>

\* The item query fails after the claim and before the try block.
LoadItemsThrows(h) ==
  /\ "load" \in Faults
  /\ job[h].pc = "load"
  /\ Return(h)
  /\ UNCHANGED <<row, data, aux>>

\* The API process dies. Rows and vault entries stay as they are.
Crash(h) ==
  /\ "crash" \in Faults
  /\ job[h].pc # "idle"
  /\ Return(h)
  /\ UNCHANGED <<row, data, aux>>

-----------------------------------------------------------------------------
Step(h) ==
  \/ Claim(h) \/ LoadItems(h) \/ PickItem(h) \/ ReadEntry(h) \/ CheckKey(h)
  \/ WriteEntry(h) \/ ItemsDone(h) \/ (\E s \in Store : RecordPiT(h, s))
  \/ IssueCertificate(h) \/ Finalize(h) \/ MarkFailed(h) \/ Reject(h) \/ Cancel(h)

Fault(h) == WriteEntryReplyLost(h) \/ Throw(h) \/ LoadItemsThrows(h) \/ Crash(h)

Next ==
  \/ \E r \in Request, u \in User :
       \/ CreateDirect(r, u) \/ CreatePromotion(r, u) \/ CreateCertificateOp(r, u)
       \/ \E h \in Handler : StartApprove(h, r, u) \/ StartReject(h, r, u) \/ StartCancel(h, r, u)
  \/ \E h \in Handler : Step(h) \/ Fault(h)

Spec == Init /\ [][Next]_vars

\* A handler that was entered keeps going: every call it awaits returns or
\* throws. Nothing obliges users to act or failures to happen.
FairSpec == Spec /\ \A h \in Handler : WF_vars(Step(h))

-----------------------------------------------------------------------------
(* Properties.                                                             *)

\* A handler that has claimed its request and has not given it back.
Holding(h) == job[h].pc \in Guarded \cup {"load", "fail"}

Phase(st) ==
  CASE st = "none" -> "new"
    [] st = "pending" -> "open"
    [] st = "applying" -> "held"
    [] st = "failed" -> "failed"
    [] st = "approved" -> "done"
    [] st \in {"rejected", "cancelled"} -> "refused"

Phases == [r \in Request |-> Phase(status[r])]
Holders == [r \in Request |-> {h \in Handler : Holding(h) /\ job[h].req = r}]

Lifecycle == INSTANCE RequestLifecycle WITH
  Agent <- Handler, phase <- Phases, holders <- Holders, effects <- touched

\* The rows, the handlers and their UPDATEs together keep the promise of
\* RequestLifecycle: one holder at a time, effects only under it, done and
\* refused are final, whatever fails, races or is retried.
ImplementsLifecycle == Lifecycle!Spec

\* An approval that runs owns its request: the row says "applying" under the
\* handler's user, and no other handler is applying the same request, so two
\* reviewers never apply one request twice at once (the claim UPDATE).
OneApplier ==
  /\ \A h \in Handler : Holding(h) =>
       status[job[h].req] = "applying" /\ reviewer[job[h].req] = job[h].user
  /\ \A g, h \in Handler : g # h /\ Holding(g) /\ Holding(h) => job[g].req # job[h].req

\* A request that was refused, withdrawn or not yet decided has had no effect:
\* no vault entry, certificate or history row comes from it. A reject or cancel
\* that raced an approval either stopped it before its first write or lost.
RefusedLeavesNoTrace ==
  \A r \in Request : status[r] \in {"none", "pending", "rejected", "cancelled"} =>
    /\ r \notin touched
    /\ \A s \in Store : \A i \in DOMAIN history[s] : history[s][i].req # r

\* Whoever signs a request off may do so: a manager of the protected
\* environment, and the requester only as admin or master. This covers the
\* retry of a failed request by a second reviewer, who replaces the first.
SignedOffByReviewer ==
  \A r \in Request : status[r] \in {"applying", "failed", "approved", "rejected"} =>
    /\ reviewer[r] \in Managers
    /\ reviewer[r] # requester[r] \/ reviewer[r] \in Admins

\* The vault of a protected environment changes only for a request that is
\* being applied and stays so over the write, and only in a key that request
\* lists: no write lands after its request was closed.
WritesOnlyWhileApplying ==
  [][\A s \in Store, k \in Key : vault'[s][k] # vault[s][k] =>
       \E r \in Request : /\ status[r] = "applying" /\ status'[r] = "applying"
                          /\ k \in DOMAIN content[r][s]]_vars

\* Requests that have changed something and list the key.
Writers(s, k) == {r \in touched : k \in DOMAIN content[r][s]}

Proposed(r, s, k) == ApplyChanges(EmptySnapshot, content[r][s])[k]

\* "approved" means done: unless another request touched the same key, the
\* vault holds what was proposed and the history replays to it, however many
\* failed attempts came before.
ApprovedIsInForce ==
  \A r \in Request : status[r] = "approved" =>
    \A s \in Store : \A k \in DOMAIN content[r][s] :
      Writers(s, k) \subseteq {r} =>
        /\ vault[s][k] = Proposed(r, s, k)
        /\ Replay(history[s])[k] = Proposed(r, s, k)

\* Once every request that touched a key is approved, the history of the key
\* replays to its vault entry. It holds while approvals do not overlap: two
\* overlapping ones may record in the opposite order of their writes.
HistoryTellsVault ==
  \A s \in Store, k \in Key :
    (\A r \in Writers(s, k) : status[r] = "approved")
      => Replay(history[s])[k] = vault[s][k]

\* A key is live as an environment variable or as a secret, never as both: a
\* create that collides with the other store is refused (checkKeyExists).
OneStorePerKey == \A k \in Key : \E s \in Store : vault[s][k] = Absent

\* A claimed request is resolved: it does not stay "applying".
ClaimResolves ==
  \A r \in Request : status[r] = "applying" ~> status[r] \in {"approved", "failed"}
=============================================================================
