----------------------------- MODULE OrgMembers -----------------------------
(* The members of one organization: rows of users, roles, one team and the *)
(* invites, the OpenFGA tuples that grant what the rows say, the cached    *)
(* role that the tuples are computed from, the guard of the last admin and *)
(* the member limit of the plan.                                           *)
EXTENDS Integers, FiniteSets

CONSTANTS
  Handler,    \* requests served at the same time
  User,       \* ids of users, each given out once
  Email,      \* addresses that may be invited
  Role, Own,  \* roles, and the master role among them
  Team,       \* the team, as a subject of tuples
  NoRole, Nothing, Absent,
  Founding,   \* initial situations: [flags, teamRole, roster, invited]
  Founders,   \* the two first members: the owner and a holder of another role
  Ops,        \* operations that are called
  Limit,      \* max_members of the plan
  BatchSize,  \* tuples in one call of OpenFGA
  Faults,     \* which of "fail", "reply", "crash" may strike
  MaxCalls, MaxFaults   \* bounds of the calls and of the faults

ASSUME OrgMembersAssumption ==
  /\ Own \in Role /\ (\E r \in Role : r # Own)
  /\ Founders.owner \in User /\ Founders.other \in User \ {Founders.owner}
  /\ \A f \in Founding :
       /\ f.flags \subseteq {"master", "admin"} /\ f.teamRole \in Role \cup {NoRole}
       /\ f.roster \subseteq {Founders.owner, Founders.other} /\ f.invited \subseteq Email
  /\ IsFiniteSet(User) /\ IsFiniteSet(Email)
  /\ NoRole \notin Role /\ Absent \notin Role /\ \A f \in SUBSET {"master", "admin"} : f # Absent
  /\ "founder" \notin Email /\ Nothing \notin Email /\ Nothing # "founder"
  /\ BatchSize \in Nat \ {0} /\ Limit \in Nat /\ MaxCalls \in Nat /\ MaxFaults \in Nat

Flag == {"master", "admin"}
Tuple == Flag \cup {"member"}
Subject == User \cup {Team}
Link(u) == <<"link", u>>            \* the membership of u in the team
Links == {Link(u) : u \in User}
Thing == Subject \cup Links
\* Ids of different kinds are different.
ASSUME KindsApart == Team \notin User /\ Role \cap Thing = {} /\ Subject \cap Links = {}

Cause == {"overlap", "failure", "crash", "stale", "team", "cascade", "orphan"}

VARIABLES
  role,      \* org_role: the flags of each role
  cached,    \* the cache entry of each role
  users,     \* users: the role of each
  mail,      \* the address of each id, kept when the row is gone
  team,      \* teams: live, and its role
  roster,    \* team_members
  invites,   \* invite_user by address
  fga,       \* tuples of users and team#member on the organization
  members,   \* member tuples on the team
  proc,      \* one frame per handler
  drift,     \* auxiliary: why a thing's tuples may differ from its rows
  calls, faults   \* counters of the bound

vars == <<role, cached, users, mail, team, roster, invites, fga, members, proc, drift, calls, faults>>
rows == <<role, users, mail, team, roster, invites>>
tuples == <<fga, members>>

NoInvite == [status |-> "none", role |-> NoRole]

Op == {"deleteUser", "setUserRole", "addMember", "removeMember", "setTeamRole",
       "clearTeamRole", "deleteTeam", "updateRole", "deleteRole", "readRole",
       "invite", "accept", "deleteInvite", "updateInvite", "updateEmail", "reconcile"}

NoCall == [op |-> "none", pc |-> "idle", user |-> Nothing, role |-> NoRole, email |-> Nothing,
           flags |-> {}, first |-> Nothing, second |-> Nothing, todo |-> {}, done |-> {},
           got |-> {}, look |-> {}, touch |-> {}, stale |-> {},
           over |-> FALSE, dirty |-> FALSE, lost |-> FALSE]

-----------------------------------------------------------------------------
(* What the rows say.                                                      *)

IsMember(u) == users[u] # Absent
Capable(r) == role[r] # {}
Direct == {u \in User : IsMember(u) /\ Capable(users[u])}
ViaTeam == IF team.role # NoRole /\ Capable(team.role) THEN roster ELSE {}
Admins == Direct \cup ViaTeam
Holders(r) == {u \in User : users[u] = r}
HasMember(e) == \E u \in User : IsMember(u) /\ mail[u] = e
Count == Cardinality({u \in User : IsMember(u)})
Pending == {e \in Email : invites[e].status = "pending"}
\* Seats: members, and pending invites of addresses that are no member's.
Seats == Count + Cardinality({e \in Pending : ~HasMember(e)})

\* roleFlagsToTuples.
Grant(flags) == {"member"} \cup flags

Granted(s) ==
  IF s = Team THEN IF team.role = NoRole THEN {} ELSE Grant(role[team.role])
  ELSE IF IsMember(s) THEN Grant(role[users[s]]) ELSE {}

Agrees(x) ==
  IF x \in Links THEN \A u \in User : x = Link(u) => (u \in roster <=> u \in members)
  ELSE (x = Team /\ ~team.live) \/ fga[x] = Granted(x)

Init ==
  \E f \in Founding :
    LET at == [u \in User |-> IF u = Founders.owner THEN Own
                              ELSE IF u = Founders.other THEN CHOOSE r \in Role : r # Own ELSE Absent]
        fl == [r \in Role |-> IF r = Own THEN Flag ELSE f.flags]
    IN /\ role = fl /\ cached = fl
       /\ users = at
       /\ mail = [u \in User |-> IF at[u] = Absent THEN Nothing ELSE "founder"]
       /\ team = [live |-> TRUE, role |-> f.teamRole]
       /\ roster = f.roster /\ members = f.roster
       /\ invites = [e \in Email |-> IF e \in f.invited THEN [status |-> "pending", role |-> Own]
                                     ELSE NoInvite]
       /\ fga = [s \in Subject |-> IF s = Team THEN IF f.teamRole = NoRole THEN {} ELSE Grant(fl[f.teamRole])
                                   ELSE IF at[s] = Absent THEN {} ELSE Grant(fl[at[s]])]
       /\ proc = [h \in Handler |-> NoCall]
       /\ drift = [x \in Thing |-> {}]
       /\ calls = 0 /\ faults = 0

-----------------------------------------------------------------------------
(* Frames.                                                                 *)

At(h, label) == proc[h].pc = label
Doing(h, op, label) == proc[h].op = op /\ At(h, label)
Goto(h, label) == proc' = [proc EXCEPT ![h].pc = label]
More == calls < MaxCalls
Fault == faults < MaxFaults /\ faults' = faults + 1
Subj(h) == IF proc[h].op \in {"setTeamRole", "clearTeamRole"} THEN Team ELSE proc[h].user

TeamIfHolding(r) == IF team.role = r THEN {Team} ELSE {}

\* The things whose agreement a call is about to change or restore.
Touch(p) ==
  CASE p.op = "deleteUser" -> {p.user, Link(p.user)}
    [] p.op \in {"addMember", "removeMember"} -> {Link(p.user)}
    [] p.op = "setUserRole" -> {p.user, p.role}
    [] p.op = "setTeamRole" -> {Team, p.role}
    [] p.op = "clearTeamRole" -> {Team}
    [] p.op = "deleteTeam" -> {Team} \cup Links
    [] p.op = "updateRole" -> {p.role} \cup Holders(p.role) \cup TeamIfHolding(p.role)
    [] p.op = "deleteRole" -> {p.role} \cup Holders(p.role) \cup TeamIfHolding(p.role)
                              \cup {Link(v) : v \in Holders(p.role)}
    [] p.op = "accept" -> {p.role}
    [] OTHER -> {}

\* The frames when call p of handler h takes hold of its things: calls on a
\* common thing overlap from then on.
Claimed(h, p) ==
  [g \in Handler |->
     IF g = h THEN [p EXCEPT !.over = p.over \/ \E k \in Handler \ {h} : proc[k].touch \cap p.touch # {}]
     ELSE [proc[g] EXCEPT !.over = @ \/ proc[g].touch \cap p.touch # {}]]

\* The end of a call. What it did counts against the things it touched.
Verdict(p, healed, why) ==
  [x \in Thing |->
     IF x \notin p.touch \/ ~p.dirty THEN drift[x]
     ELSE (IF x \in healed THEN {} ELSE drift[x]) \cup why
          \cup (IF p.over THEN {"overlap"} ELSE {}) \cup (IF x \in p.stale THEN {"stale"} ELSE {})]

End(h, healed, why) ==
  /\ proc' = [proc EXCEPT ![h] = NoCall]
  /\ drift' = Verdict(proc[h], healed, why)

\* The things whose tuples a successful call has replaced as a whole.
Healed(h) ==
  LET p == proc[h] IN
  CASE p.op \in {"setUserRole", "deleteUser", "accept"} -> {p.user}
    [] p.op \in {"setTeamRole", "clearTeamRole"} -> {Team}
    [] p.op \in {"addMember", "removeMember"} -> {Link(p.user)}
    [] p.op = "deleteTeam" -> Links
    [] p.op = "updateRole" -> p.done
    [] OTHER -> {}

Succeed(h) == End(h, Healed(h), {})
Fail(h) == End(h, {}, {"failure"})

\* The catch of runSaga: the completed db-insert is compensated, the failing
\* step is not.
Throw(h, effect) ==
  IF proc[h].op \in {"accept", "addMember"} /\ proc[h].dirty
  THEN /\ proc' = [proc EXCEPT ![h].pc = "undo", ![h].lost = effect]
       /\ UNCHANGED drift
  ELSE Fail(h)

-----------------------------------------------------------------------------
(* A call begins. Its handler has looked up the user or team it names.     *)

Call(op, label) == [NoCall EXCEPT !.op = op, !.pc = label]

Enter(h, p) ==
  /\ At(h, "idle") /\ p.op \in Ops /\ More
  /\ calls' = calls + 1
  /\ proc' = Claimed(h, [p EXCEPT !.touch = Touch(p)])
  /\ UNCHANGED <<rows, cached, tuples, drift, faults>>

BeginOnUser(h) ==
  \E u \in User :
    /\ IsMember(u)
    /\ \/ Enter(h, [Call("deleteUser", "guard") EXCEPT !.user = u])
       \/ \E r \in Role : Enter(h, [Call("setUserRole", "fgaRead") EXCEPT !.user = u, !.role = r])
       \/ team.live /\ \E c \in {Call("addMember", "start"), Call("removeMember", "guard")} :
            Enter(h, [c EXCEPT !.user = u])

BeginOnTeam(h) ==
  /\ team.live
  /\ \/ \E r \in Role : role[r] # Absent /\ Enter(h, [Call("setTeamRole", "fgaRead") EXCEPT !.role = r])
     \/ Enter(h, Call("clearTeamRole", "fgaRead"))
     \/ Enter(h, [Call("deleteTeam", "start") EXCEPT !.todo = roster])

BeginOnRole(h) ==
  \E r \in Role :
    \/ \E f \in {{}, {"admin"}} : Enter(h, [Call("updateRole", "start") EXCEPT !.role = r, !.flags = f])
    \/ role[r] # Absent /\ "master" \notin role[r] /\ Enter(h, [Call("deleteRole", "start") EXCEPT !.role = r])
    \/ Enter(h, [Call("readRole", "role") EXCEPT !.role = r])

BeginOnInvite(h) ==
  \/ \E e \in Email, r \in Role : Enter(h, [Call("invite", "count") EXCEPT !.email = e, !.role = r])
  \/ \E e \in Pending : Enter(h, [Call("accept", "lookup") EXCEPT !.email = e, !.role = invites[e].role])
  \/ Enter(h, [Call("reconcile", "match") EXCEPT !.todo = Pending])

-----------------------------------------------------------------------------
(* The guard of the last admin: two queries side by side, then the verdict.*)

ReadUsers(h) ==
  /\ At(h, "guard") /\ proc[h].first = Nothing
  /\ proc' = [proc EXCEPT ![h].first = Direct]
  /\ UNCHANGED <<rows, cached, tuples, drift, calls, faults>>

ReadTeamMembers(h) ==
  /\ At(h, "guard") /\ proc[h].second = Nothing
  /\ proc' = [proc EXCEPT ![h].second = ViaTeam]
  /\ UNCHANGED <<rows, cached, tuples, drift, calls, faults>>

\* Faulty variant: the deleted user still counts through the team.
RemainingByRole(p) ==
  IF p.op = "deleteUser" THEN (p.first \ {p.user}) \cup p.second
  ELSE p.first \cup (p.second \ {p.user})

Remaining(p) ==
  IF p.op = "deleteUser" THEN (p.first \cup p.second) \ {p.user}
  ELSE p.first \cup (p.second \ {p.user})

EnsureOrgHasAdmin(h) ==
  /\ At(h, "guard") /\ Nothing \notin {proc[h].first, proc[h].second}
  /\ IF Remaining(proc[h]) = {} \/ (proc[h].op = "deleteUser" /\ ~IsMember(proc[h].user))
     THEN Fail(h)
     ELSE Goto(h, "delete") /\ UNCHANGED drift
  /\ UNCHANGED <<rows, cached, tuples, calls, faults>>

\* Rows of team_members cascade with their user, the member tuples stay.
Orphaned(d, gone) ==
  [x \in Thing |-> IF \E u \in gone \cap members : x = Link(u) THEN d[x] \cup {"orphan"} ELSE d[x]]

DeleteUser(h) ==
  /\ Doing(h, "deleteUser", "delete")
  /\ LET u == proc[h].user IN
     /\ users' = [users EXCEPT ![u] = Absent]
     /\ roster' = roster \ {u}
     /\ drift' = Orphaned(drift, {u})
     /\ proc' = [proc EXCEPT ![h].pc = "fgaRead", ![h].dirty = TRUE]
  /\ UNCHANGED <<role, mail, team, invites, cached, tuples, calls, faults>>

RemoveTeamMember(h) ==
  /\ Doing(h, "removeMember", "delete")
  /\ roster' = roster \ {proc[h].user}
  /\ proc' = [proc EXCEPT ![h].pc = "unlink", ![h].dirty = TRUE]
  /\ UNCHANGED <<role, users, mail, team, invites, cached, tuples, drift, calls, faults>>

AddTeamMember(h) ==
  /\ Doing(h, "addMember", "start")
  /\ LET u == proc[h].user IN
     IF team.live /\ IsMember(u) /\ u \notin roster
     THEN /\ roster' = roster \cup {u}
          /\ proc' = [proc EXCEPT ![h].pc = "link", ![h].dirty = TRUE]
          /\ UNCHANGED drift
     ELSE Fail(h) /\ UNCHANGED roster
  /\ UNCHANGED <<role, users, mail, team, invites, cached, tuples, calls, faults>>

-----------------------------------------------------------------------------
(* Tuples: resyncUserRole, assignRoleToTeam and their parts.               *)

\* FGAClient sends the tuples it deletes or writes in batches, one after the
\* other; the frame's got are those not sent yet.
Batches(ts) ==
  {b \in SUBSET ts : IF Cardinality(ts) <= BatchSize THEN b = ts ELSE Cardinality(b) = BatchSize}

\* Faulty variant: the loop over the batches ends after the first.
UnsentNone(ts, b) == {}

Unsent(ts, b) == ts \ b

\* Some of the tuples to write have been written.
Begun(h) == At(h, "fgaWrite") /\ proc[h].got # Grant(proc[h].look)

\* After the tuples of the subject are gone.
AfterRemoval(h) ==
  CASE proc[h].op = "deleteUser" -> Succeed(h)
    [] proc[h].op = "clearTeamRole" -> Goto(h, "update") /\ UNCHANGED drift
    [] OTHER -> Goto(h, "role") /\ UNCHANGED drift

ReadTuples(h) ==
  /\ At(h, "fgaRead")
  /\ IF fga[Subj(h)] = {} THEN AfterRemoval(h)
     ELSE /\ proc' = [proc EXCEPT ![h].pc = "fgaDelete", ![h].got = fga[Subj(h)]]
          /\ UNCHANGED drift
  /\ UNCHANGED <<rows, cached, tuples, calls, faults>>

\* OpenFGA refuses a batch that names a missing tuple, as a whole.
DeleteTuples(h) ==
  /\ At(h, "fgaDelete")
  /\ \E b \in Batches(proc[h].got) :
       LET left == Unsent(proc[h].got, b) IN
       IF b \subseteq fga[Subj(h)]
       THEN /\ fga' = [fga EXCEPT ![Subj(h)] = @ \ b]
            /\ IF left = {} /\ proc[h].op = "deleteUser" THEN Succeed(h)
               ELSE /\ proc' = [proc EXCEPT ![h].dirty = TRUE, ![h].got = left,
                         ![h].pc = IF left # {} THEN @
                                   ELSE IF proc[h].op = "clearTeamRole" THEN "update" ELSE "role"]
                    /\ UNCHANGED drift
       ELSE Fail(h) /\ UNCHANGED fga
  /\ UNCHANGED <<rows, cached, members, calls, faults>>

\* getRole: the cache entry, or the row and then the cache entry.
LookupRole(h) ==
  /\ At(h, "role")
  /\ LET r == proc[h].role
         after == IF proc[h].op = "readRole" THEN "return" ELSE "fgaWrite" IN
     IF cached[r] # Nothing
     THEN /\ proc' = [proc EXCEPT ![h].look = cached[r], ![h].got = Grant(cached[r]), ![h].pc = after,
               ![h].stale = IF cached[r] = role[r] \/ proc[h].op = "readRole" THEN @ ELSE @ \cup {Subj(h)}]
          /\ UNCHANGED drift
     ELSE IF role[r] # Absent
     THEN /\ proc' = [proc EXCEPT ![h].look = role[r], ![h].pc = "fill"]
          /\ UNCHANGED drift
     ELSE Throw(h, FALSE)
  /\ UNCHANGED <<rows, cached, tuples, calls, faults>>

FillCache(h) ==
  /\ At(h, "fill")
  /\ cached' = [cached EXCEPT ![proc[h].role] = proc[h].look]
  /\ proc' = [proc EXCEPT ![h].got = Grant(proc[h].look),
       ![h].pc = IF proc[h].op = "readRole" THEN "return" ELSE "fgaWrite"]
  /\ UNCHANGED <<rows, tuples, drift, calls, faults>>

\* OpenFGA refuses a batch that names an existing tuple, as a whole.
WriteTuples(h) ==
  /\ At(h, "fgaWrite")
  /\ LET p == proc[h] IN
     \E b \in Batches(p.got) :
       LET left == Unsent(p.got, b) IN
       IF b \cap fga[Subj(h)] = {}
       THEN /\ fga' = [fga EXCEPT ![Subj(h)] = @ \cup b]
            /\ proc' = IF left # {} THEN [proc EXCEPT ![h].dirty = TRUE, ![h].got = left]
                       ELSE [proc EXCEPT ![h].dirty = TRUE, ![h].got = {},
                              ![h].done = IF p.op = "updateRole" THEN @ \cup {p.user} ELSE @,
                              ![h].pc = CASE p.op = "updateRole" -> "next" [] p.op = "accept" -> "mark"
                                          [] OTHER -> "update"]
            /\ UNCHANGED drift
       ELSE Throw(h, Begun(h)) /\ UNCHANGED fga
  /\ UNCHANGED <<rows, cached, members, calls, faults>>

\* The foreign key refuses a role that is gone.
UpdateUserRole(h) ==
  /\ Doing(h, "setUserRole", "update")
  /\ LET u == proc[h].user IN
     IF IsMember(u) /\ role[proc[h].role] = Absent THEN Fail(h) /\ UNCHANGED users
     ELSE /\ users' = IF IsMember(u) THEN [users EXCEPT ![u] = proc[h].role] ELSE users
          /\ Succeed(h)
  /\ UNCHANGED <<role, mail, team, roster, invites, cached, tuples, calls, faults>>

UpdateTeamRole(h) ==
  /\ proc[h].op \in {"setTeamRole", "clearTeamRole"} /\ At(h, "update")
  /\ LET r == IF proc[h].op = "setTeamRole" THEN proc[h].role ELSE NoRole IN
     IF team.live /\ r # NoRole /\ role[r] = Absent THEN Fail(h) /\ UNCHANGED team
     ELSE /\ team' = IF team.live THEN [team EXCEPT !.role = r] ELSE team
          /\ Succeed(h)
  /\ UNCHANGED <<role, users, mail, roster, invites, cached, tuples, calls, faults>>

LinkTuple(h) ==
  /\ At(h, "link")
  /\ IF proc[h].user \notin members
     THEN members' = members \cup {proc[h].user} /\ Succeed(h)
     ELSE UNCHANGED members /\ Throw(h, FALSE)
  /\ UNCHANGED <<rows, cached, fga, calls, faults>>

UnlinkTuple(h) ==
  /\ At(h, "unlink")
  /\ IF proc[h].user \in members
     THEN members' = members \ {proc[h].user} /\ Succeed(h)
     ELSE UNCHANGED members /\ Fail(h)
  /\ UNCHANGED <<rows, cached, fga, calls, faults>>

\* The compensation of db-insert.
Undo(h) ==
  /\ At(h, "undo")
  /\ IF proc[h].op = "accept"
     THEN users' = [users EXCEPT ![proc[h].user] = Absent]
     ELSE UNCHANGED users
  /\ roster' = roster \ {proc[h].user}
  /\ proc' = [proc EXCEPT ![h] = NoCall]
  /\ drift' = Orphaned(Verdict(proc[h], {}, IF proc[h].lost THEN {"failure"} ELSE {}),
                       IF proc[h].op = "accept" THEN {proc[h].user} ELSE {})
  /\ UNCHANGED <<role, mail, team, invites, cached, tuples, calls, faults>>

-----------------------------------------------------------------------------
(* Roles.                                                                  *)

\* The row of a master role is left alone; then resyncAllUsersWithRole.
UpdateRole(h) ==
  /\ Doing(h, "updateRole", "start")
  /\ LET r == proc[h].role
         hit == role[r] # Absent /\ "master" \notin role[r] IN
     /\ role' = IF hit THEN [role EXCEPT ![r] = proc[h].flags] ELSE role
     /\ drift' = IF hit /\ team.role = r THEN [drift EXCEPT ![Team] = @ \cup {"team"}] ELSE drift
     /\ proc' = [proc EXCEPT ![h].pc = "list", ![h].dirty = TRUE]
  /\ UNCHANGED <<users, mail, team, roster, invites, cached, tuples, calls, faults>>

ListHolders(h) ==
  /\ At(h, "list")
  /\ LET hs == Holders(proc[h].role) IN
     proc' = Claimed(h, [proc[h] EXCEPT !.pc = "next", !.todo = hs, !.touch = @ \cup hs])
  /\ UNCHANGED <<rows, cached, tuples, drift, calls, faults>>

ResyncNext(h) ==
  /\ At(h, "next")
  /\ IF proc[h].todo = {} THEN Goto(h, "invalidate")
     ELSE \E u \in proc[h].todo :
            proc' = [proc EXCEPT ![h].pc = "fgaRead", ![h].user = u, ![h].todo = @ \ {u}]
  /\ UNCHANGED <<rows, cached, tuples, drift, calls, faults>>

\* Faulty variant: the rows of the holders are left without their role.
DeleteRoleOnly(h) ==
  /\ Doing(h, "deleteRole", "start")
  /\ role' = [role EXCEPT ![proc[h].role] = Absent]
  /\ proc' = [proc EXCEPT ![h].pc = "invalidate", ![h].dirty = TRUE]
  /\ UNCHANGED <<users, mail, team, roster, invites, drift, cached, tuples, calls, faults>>

\* Users and invites with the role go with it, teams lose it.
DeleteRole(h) ==
  /\ Doing(h, "deleteRole", "start")
  /\ LET r == proc[h].role
         gone == Holders(r) IN
     /\ role' = [role EXCEPT ![r] = Absent]
     /\ users' = [u \in User |-> IF u \in gone THEN Absent ELSE users[u]]
     /\ roster' = roster \ gone
     /\ team' = IF team.role = r THEN [team EXCEPT !.role = NoRole] ELSE team
     /\ invites' = [e \in Email |-> IF invites[e].role = r THEN NoInvite ELSE invites[e]]
     /\ drift' = Orphaned([x \in Thing |-> IF x \in gone \cup TeamIfHolding(r)
                                          THEN drift[x] \cup {"cascade"} ELSE drift[x]], gone)
     /\ proc' = Claimed(h, [proc[h] EXCEPT !.pc = "invalidate", !.dirty = TRUE,
                              !.touch = @ \cup gone \cup {Link(u) : u \in gone}])
  /\ UNCHANGED <<mail, cached, tuples, calls, faults>>

InvalidateRole(h) ==
  /\ At(h, "invalidate")
  /\ cached' = [cached EXCEPT ![proc[h].role] = Nothing]
  /\ Succeed(h)
  /\ UNCHANGED <<rows, tuples, calls, faults>>

Return(h) ==
  /\ At(h, "return") /\ Succeed(h)
  /\ UNCHANGED <<rows, cached, tuples, calls, faults>>

\* The TTL of a cached role.
Expire ==
  /\ \E r \in Role : cached[r] # Nothing /\ cached' = [cached EXCEPT ![r] = Nothing]
  /\ UNCHANGED <<rows, tuples, proc, drift, calls, faults>>

-----------------------------------------------------------------------------
(* deleteTeam: the tuples of the members read at its start, the row, and   *)
(* then whatever tuples still point to the team.                           *)

UnlinkAll(h) ==
  /\ Doing(h, "deleteTeam", "start")
  /\ members' = members \ proc[h].todo
  /\ IF proc[h].todo \subseteq members
     THEN proc' = [proc EXCEPT ![h].pc = "delete", ![h].dirty = TRUE] /\ UNCHANGED drift
     ELSE /\ proc' = [proc EXCEPT ![h] = NoCall]
          /\ drift' = Verdict([proc[h] EXCEPT !.dirty = TRUE], {}, {"failure"})
  /\ UNCHANGED <<rows, cached, fga, calls, faults>>

DeleteTeam(h) ==
  /\ Doing(h, "deleteTeam", "delete")
  /\ team' = [live |-> FALSE, role |-> NoRole]
  /\ roster' = {}
  /\ Goto(h, "links")
  /\ UNCHANGED <<role, users, mail, invites, cached, tuples, drift, calls, faults>>

ReadLinks(h) ==
  /\ At(h, "links")
  /\ proc' = [proc EXCEPT ![h].pc = "dropLinks", ![h].todo = members]
  /\ UNCHANGED <<rows, cached, tuples, drift, calls, faults>>

DropLinks(h) ==
  /\ At(h, "dropLinks")
  /\ \E b \in Batches(proc[h].todo) :
       LET left == Unsent(proc[h].todo, b) IN
       IF b \subseteq members
       THEN /\ members' = members \ b
            /\ IF left = {} THEN Succeed(h)
               ELSE proc' = [proc EXCEPT ![h].todo = left] /\ UNCHANGED drift
       ELSE UNCHANGED members /\ Fail(h)
  /\ UNCHANGED <<rows, cached, fga, calls, faults>>

-----------------------------------------------------------------------------
(* Invites: the plan's member limit, acceptance, reconciliation.           *)

CountMembers(h) ==
  /\ At(h, "count") /\ proc[h].first = Nothing
  /\ proc' = [proc EXCEPT ![h].first = Count]
  /\ UNCHANGED <<rows, cached, tuples, drift, calls, faults>>

CountInvites(h) ==
  /\ At(h, "count") /\ proc[h].second = Nothing
  /\ proc' = [proc EXCEPT ![h].second = Cardinality(Pending)]
  /\ UNCHANGED <<rows, cached, tuples, drift, calls, faults>>

\* Faulty variant: only members count.
UsedByMembers(p) == p.first

Used(p) == p.first + p.second

AssertCount(h) ==
  /\ At(h, "count") /\ Nothing \notin {proc[h].first, proc[h].second}
  /\ IF Used(proc[h]) + 1 > Limit THEN Fail(h) ELSE Goto(h, "insert") /\ UNCHANGED drift
  /\ UNCHANGED <<rows, cached, tuples, calls, faults>>

\* Refused for a member's address and, also by the unique index, for an
\* address that has an invite, pending or accepted.
InsertInvite(h) ==
  /\ Doing(h, "invite", "insert")
  /\ LET e == proc[h].email
         r == proc[h].role IN
     IF HasMember(e) \/ invites[e].status # "none" \/ role[r] = Absent
     THEN Fail(h) /\ UNCHANGED invites
     ELSE invites' = [invites EXCEPT ![e] = [status |-> "pending", role |-> r]] /\ Succeed(h)
  /\ UNCHANGED <<role, users, mail, team, roster, cached, tuples, calls, faults>>

FindMembership(h) ==
  /\ At(h, "lookup")
  /\ Goto(h, IF HasMember(proc[h].email) THEN "mark" ELSE "insert")
  /\ UNCHANGED <<rows, cached, tuples, drift, calls, faults>>

\* One row per organization and address.
InsertUser(h) ==
  /\ Doing(h, "accept", "insert")
  /\ LET e == proc[h].email
         r == proc[h].role IN
     IF HasMember(e) \/ role[r] = Absent THEN Fail(h) /\ UNCHANGED <<users, mail>>
     ELSE \E u \in User :
            /\ mail[u] = Nothing
            /\ users' = [users EXCEPT ![u] = r]
            /\ mail' = [mail EXCEPT ![u] = e]
            /\ proc' = [proc EXCEPT ![h].user = u, ![h].touch = @ \cup {u, Link(u)}, ![h].pc = "role", ![h].dirty = TRUE]
            /\ UNCHANGED drift
  /\ UNCHANGED <<role, team, roster, invites, cached, tuples, calls, faults>>

MarkAccepted(h) ==
  /\ Doing(h, "accept", "mark")
  /\ invites' = [invites EXCEPT ![proc[h].email] = IF @ = NoInvite THEN @ ELSE [@ EXCEPT !.status = "accepted"]]
  /\ Succeed(h)
  /\ UNCHANGED <<role, users, mail, team, roster, cached, tuples, calls, faults>>

MatchMembers(h) ==
  /\ At(h, "match")
  /\ proc' = [proc EXCEPT ![h].pc = "mark", ![h].todo = {e \in @ : HasMember(e)}]
  /\ UNCHANGED <<rows, cached, tuples, drift, calls, faults>>

MarkMatched(h) ==
  /\ Doing(h, "reconcile", "mark")
  /\ invites' = [e \in Email |-> IF e \in proc[h].todo /\ invites[e] # NoInvite
                                 THEN [invites[e] EXCEPT !.status = "accepted"] ELSE invites[e]]
  /\ Succeed(h)
  /\ UNCHANGED <<role, users, mail, team, roster, cached, tuples, calls, faults>>

DeleteInvite(e) ==
  /\ "deleteInvite" \in Ops /\ More /\ calls' = calls + 1
  /\ invites[e] # NoInvite /\ invites' = [invites EXCEPT ![e] = NoInvite]
  /\ UNCHANGED <<role, users, mail, team, roster, cached, tuples, proc, drift, faults>>

UpdateInvite(e, r) ==
  /\ "updateInvite" \in Ops /\ More /\ calls' = calls + 1
  /\ invites[e] # NoInvite /\ role[r] # Absent /\ invites' = [invites EXCEPT ![e].role = r]
  /\ UNCHANGED <<role, users, mail, team, roster, cached, tuples, proc, drift, faults>>

\* updateUser with an address: one row per organization and address.
UpdateEmail(u, e) ==
  /\ "updateEmail" \in Ops /\ More /\ calls' = calls + 1
  /\ IsMember(u) /\ ~HasMember(e) /\ mail' = [mail EXCEPT ![u] = e]
  /\ UNCHANGED <<role, users, team, roster, invites, cached, tuples, proc, drift, faults>>

-----------------------------------------------------------------------------
(* Failures.                                                               *)

\* A query or a request to OpenFGA fails without effect; the batches sent
\* before it stay. A failed invalidation is logged, a failed compensation
\* too, but updateRole has two queries to make before its invalidation; a
\* failure after the saga of an accept leaves the membership as it is. A
\* cached role that cannot be read or set is one that has expired.
FailCall(h) ==
  /\ "fail" \in Faults /\ Fault
  /\ \/ /\ \/ proc[h].pc \in {"guard", "delete", "fgaRead", "fgaDelete", "role", "fgaWrite", "update",
                             "link", "unlink", "list", "links", "dropLinks", "count", "lookup",
                             "insert", "match"}
           \/ At(h, "start") /\ proc[h].op # "deleteTeam"
           \/ Doing(h, "updateRole", "invalidate")
        /\ Throw(h, Begun(h))
     \/ proc[h].pc \in {"mark", "invalidate"} /\ Succeed(h)
     \/ At(h, "undo") /\ Fail(h)
  /\ UNCHANGED <<rows, cached, tuples, calls>>

\* Some of the deletions side by side fail.
FailUnlinkAll(h) ==
  /\ "fail" \in Faults /\ Doing(h, "deleteTeam", "start") /\ Fault
  /\ \E s \in SUBSET (proc[h].todo \cap members) : members' = members \ s
  /\ proc' = [proc EXCEPT ![h] = NoCall]
  /\ drift' = Verdict([proc[h] EXCEPT !.dirty = TRUE], {}, {"failure"})
  /\ UNCHANGED <<rows, cached, fga, calls>>

\* OpenFGA does what one request asks and the answer is lost.
LoseReply(h) ==
  /\ "reply" \in Faults /\ Fault
  /\ LET p == proc[h] IN
     /\ \/ At(h, "fgaDelete") /\ \E b \in Batches(p.got) :
             b \subseteq fga[Subj(h)] /\ fga' = [fga EXCEPT ![Subj(h)] = @ \ b] /\ UNCHANGED members
        \/ At(h, "fgaWrite") /\ \E b \in Batches(p.got) :
             b \cap fga[Subj(h)] = {} /\ fga' = [fga EXCEPT ![Subj(h)] = @ \cup b] /\ UNCHANGED members
        \/ At(h, "dropLinks") /\ \E b \in Batches(p.todo) :
             b \subseteq members /\ members' = members \ b /\ UNCHANGED fga
        \/ At(h, "link") /\ p.user \notin members /\ members' = members \cup {p.user} /\ UNCHANGED fga
        \/ At(h, "unlink") /\ p.user \in members /\ members' = members \ {p.user} /\ UNCHANGED fga
     /\ IF p.op \in {"accept", "addMember"} THEN Throw(h, TRUE)
        ELSE /\ proc' = [proc EXCEPT ![h] = NoCall]
             /\ drift' = Verdict([p EXCEPT !.dirty = TRUE], {}, {"failure"})
  /\ UNCHANGED <<rows, cached, calls>>

Crash(h) ==
  /\ "crash" \in Faults /\ Fault /\ ~At(h, "idle")
  /\ End(h, {}, {"crash"})
  /\ UNCHANGED <<rows, cached, tuples, calls>>

-----------------------------------------------------------------------------

Serve(h) ==
  \/ BeginOnUser(h) \/ BeginOnTeam(h) \/ BeginOnRole(h) \/ BeginOnInvite(h)
  \/ ReadUsers(h) \/ ReadTeamMembers(h) \/ EnsureOrgHasAdmin(h) \/ DeleteUser(h)
  \/ RemoveTeamMember(h) \/ AddTeamMember(h)
  \/ ReadTuples(h) \/ DeleteTuples(h) \/ LookupRole(h) \/ FillCache(h) \/ WriteTuples(h)
  \/ UpdateUserRole(h) \/ UpdateTeamRole(h) \/ LinkTuple(h) \/ UnlinkTuple(h) \/ Undo(h)
  \/ UpdateRole(h) \/ ListHolders(h) \/ ResyncNext(h) \/ DeleteRole(h) \/ InvalidateRole(h) \/ Return(h)
  \/ UnlinkAll(h) \/ DeleteTeam(h) \/ ReadLinks(h) \/ DropLinks(h)
  \/ CountMembers(h) \/ CountInvites(h) \/ AssertCount(h) \/ InsertInvite(h)
  \/ FindMembership(h) \/ InsertUser(h) \/ MarkAccepted(h) \/ MatchMembers(h) \/ MarkMatched(h)
  \/ FailCall(h) \/ FailUnlinkAll(h) \/ LoseReply(h) \/ Crash(h)

Next ==
  \/ \E h \in Handler : Serve(h)
  \/ Expire
  \/ \E e \in Email :
       \/ DeleteInvite(e) \/ \E r \in Role : UpdateInvite(e, r)
       \/ \E u \in User : UpdateEmail(u, e)

Spec == Init /\ [][Next]_vars

-----------------------------------------------------------------------------
(* Properties.                                                             *)

\* The types, and what the keys of the tables promise: a user's, a team's
\* and an invite's role exists, an address has at most one member, the team
\* consists of members.
TypeOK ==
  /\ role \in [Role -> (SUBSET Flag) \cup {Absent}]
  /\ cached \in [Role -> (SUBSET Flag) \cup {Nothing}]
  /\ users \in [User -> Role \cup {Absent}]
  /\ mail \in [User -> Email \cup {Nothing, "founder"}]
  /\ team \in [live : BOOLEAN, role : Role \cup {NoRole}]
  /\ roster \in SUBSET {u \in User : IsMember(u)} /\ members \in SUBSET User
  /\ invites \in [Email -> [status : {"none", "pending", "accepted"}, role : Role \cup {NoRole}]]
  /\ fga \in [Subject -> SUBSET Tuple]
  /\ drift \in [Thing -> SUBSET Cause]
  /\ \A h \in Handler : proc[h].op \in Op \cup {"none"} /\ proc[h].touch \subseteq Thing \cup Role
  /\ \A r \in {users[u] : u \in User} \cup {team.role} \cup {invites[e].role : e \in Email} :
       r \in Role => role[r] # Absent
  /\ \A u, v \in User : IsMember(u) /\ IsMember(v) /\ mail[u] = mail[v] /\ mail[u] \in Email => u = v

\* The tuples that authorization is decided by say what the rows say, for
\* everything no running call is at work on, unless one of the known causes
\* has struck since they were last replaced as a whole: calls that overlapped
\* on it, a call that failed or died half-way, a resync from a stale cached
\* role, a team whose role changed its flags, rows that went with their role
\* or a member tuple left behind by its user.
DriftHasCause ==
  \A x \in Thing : (\A h \in Handler : x \notin proc[h].touch) => Agrees(x) \/ drift[x] # {}

\* "At least one org admin must remain": the last admin goes only through a
\* call the guard does not look at (a role, its flags, the team's role or the
\* team itself), or in a guarded removal that raced a change of what the
\* guard had read.
LastAdminLeavesUnguarded ==
  [][Admins # {} /\ Admins' = {} =>
       \E h \in Handler :
         /\ proc'[h] # proc[h]
         /\ \/ proc[h].op \notin {"deleteUser", "removeMember"}
            \/ proc[h].first # Direct \/ proc[h].second # ViaTeam]_vars

\* The plan's member limit is passed only by an invite whose counts have
\* changed before its insert, by an accept of an invite that has been
\* withdrawn since it was read, or when a member gives up the address of an
\* invite that is still pending.
LimitPassedByRace ==
  [][Seats' > Limit /\ Seats' > Seats =>
       \/ \E h \in Handler :
            /\ proc'[h] # proc[h]
            /\ LET p == proc[h] IN
               \/ p.op = "invite" /\ (p.first # Count \/ p.second # Cardinality(Pending))
               \/ p.op = "accept" /\ p.email \notin Pending
       \/ \E u \in User : IsMember(u) /\ mail[u] \in Pending /\ mail'[u] # mail[u]]_vars

\* After updateRole every holder of the role has the tuples of its new flags:
\* "Re-sync FGA tuples for all users with this role" (role.service.ts).
FlagsReachHolders ==
  (\A h \in Handler : At(h, "idle")) => \A u \in User : fga[u] = Granted(u)
=============================================================================
