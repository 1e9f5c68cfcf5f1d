-------------------------- MODULE OrgMembers_proofs --------------------------
(***************************************************************************)
(* For every number of handlers, users, roles, addresses, calls and        *)
(* faults: the tables keep their keys (a role that is named exists, an     *)
(* address has one member, the team consists of members), the last admin   *)
(* leaves only past the guard, the plan's member limit is passed only by a *)
(* race, and the tuples follow the rows but for the causes named.          *)
(***************************************************************************)
EXTENDS OrgMembers, FiniteSetTheorems, TLAPS

Label ==
  {"idle", "guard", "delete", "start", "fgaRead", "fgaDelete", "role", "fill", "return", "fgaWrite",
   "update", "link", "unlink", "undo", "list", "next", "invalidate", "links", "dropLinks", "count",
   "insert", "lookup", "mark", "match"}

Frame ==
  [op : Op \cup {"none"}, pc : Label, user : User \cup {Nothing}, role : Role \cup {NoRole},
   email : Email \cup {Nothing}, flags : SUBSET Flag,
   first : (SUBSET User) \cup Nat \cup {Nothing}, second : (SUBSET User) \cup Nat \cup {Nothing},
   todo : SUBSET (User \cup Email), done : SUBSET (User \cup {Nothing}), got : SUBSET Tuple,
   look : SUBSET Flag, touch : SUBSET (Thing \cup Role), stale : SUBSET (Subject \cup {Nothing}),
   over : BOOLEAN, dirty : BOOLEAN, lost : BOOLEAN]

\* What a call names, and the calls a step belongs to.
NamesFit(p) ==
  /\ p.op \in {"deleteUser", "setUserRole", "addMember", "removeMember"} => p.user \in User
  /\ p.op \in {"setUserRole", "setTeamRole", "updateRole", "deleteRole", "readRole", "invite", "accept"}
     => p.role \in Role
  /\ p.op \in {"invite", "accept"} => p.email \in Email
  /\ p.op = "updateRole" => p.todo \subseteq User
  /\ p.pc \in {"fgaRead", "fgaDelete"}
     => /\ p.op \in {"deleteUser", "setUserRole", "setTeamRole", "clearTeamRole", "updateRole"}
        /\ p.op = "updateRole" => p.user \in User
  /\ p.pc \in {"role", "fill"} => p.op \in {"setUserRole", "setTeamRole", "updateRole", "readRole", "accept"}
  /\ p.pc \in {"list", "next"} => p.op = "updateRole"
  /\ p.pc = "link" => p.op = "addMember"
  /\ p.pc = "lookup" => p.op = "accept"
  /\ p.pc = "undo" => p.op \in {"accept", "addMember"}

\* A guarded removal goes on only if what its guard had read leaves an admin.
GuardFits(p) ==
  /\ p.pc = "guard" => p.op \in {"deleteUser", "removeMember"}
  /\ p.pc = "delete" =>
       p.op = "deleteTeam" \/ (p.op \in {"deleteUser", "removeMember"} /\ Remaining(p) # {})

\* An invite goes on only if what it had counted leaves a seat.
CountFits(p) ==
  /\ p.pc = "count" => p.op = "invite" /\ {p.first, p.second} \subseteq Nat \cup {Nothing}
  /\ p.pc = "insert" /\ p.op = "invite" =>
       p.first \in Nat /\ p.second \in Nat /\ p.first + p.second + 1 <= Limit

Fits(p) == p \in Frame /\ NamesFit(p) /\ GuardFits(p) /\ CountFits(p)

FramesFit ==
  /\ proc = [h \in Handler |-> proc[h]]
  /\ \A h \in Handler : Fits(proc[h])

TablesTyped ==
  /\ role \in [Role -> (SUBSET Flag) \cup {Absent}]
  /\ cached \in [Role -> (SUBSET Flag) \cup {Nothing}]
  /\ users \in [User -> Role \cup {Absent}]
  /\ mail \in [User -> Email \cup {Nothing, "founder"}]
  /\ team \in [live : BOOLEAN, role : Role \cup {NoRole}]
  /\ roster \subseteq {u \in User : IsMember(u)} /\ members \subseteq User
  /\ invites \in [Email -> [status : {"none", "pending", "accepted"}, role : Role \cup {NoRole}]]
  /\ fga \in [Subject -> SUBSET Tuple]
  /\ drift \in [Thing -> SUBSET Cause]

\* Roles that are named exist; an invite that is there names one.
RolesExist ==
  /\ \A u \in User : IsMember(u) => role[users[u]] # Absent
  /\ team.role \in Role => role[team.role] # Absent
  /\ \A e \in Email : invites[e].role \in Role => role[invites[e].role] # Absent
  /\ \A e \in Email : invites[e].role \notin Role => invites[e] = NoInvite

\* An address has at most one member, and a member has an address.
OneMember ==
  /\ \A u \in User : IsMember(u) => mail[u] # Nothing
  /\ \A u, v \in User : IsMember(u) /\ IsMember(v) /\ mail[u] = mail[v] /\ mail[u] \in Email => u = v

Inv == TablesTyped /\ RolesExist /\ OneMember /\ FramesFit

-----------------------------------------------------------------------------
(* Frames.                                                                 *)

LEMMA NoCallFits == Fits(NoCall)
<1>1. NoCall \in Frame
  BY DEF NoCall, Frame, Label
<1> QED BY <1>1 DEF NoCall, Fits, NamesFit, GuardFits, CountFits

LEMMA CallFits ==
  ASSUME NEW op \in Op, NEW label \in Label
  PROVE  Call(op, label) \in Frame
BY NoCallFits DEF Call, NoCall, Fits, Frame

\* A frame stays one when one of its fields takes a value of its type.
LEMMA FieldTyped ==
  ASSUME NEW f \in Frame
  PROVE  /\ \A x \in Label : [f EXCEPT !.pc = x] \in Frame
         /\ \A x \in User \cup {Nothing} : [f EXCEPT !.user = x] \in Frame
         /\ \A x \in SUBSET (User \cup Email) : [f EXCEPT !.todo = x] \in Frame
         /\ \A x \in SUBSET (User \cup {Nothing}) : [f EXCEPT !.done = x] \in Frame
         /\ \A x \in SUBSET Tuple : [f EXCEPT !.got = x] \in Frame
         /\ \A x \in SUBSET (Thing \cup Role) : [f EXCEPT !.touch = x] \in Frame
         /\ \A x \in BOOLEAN : [f EXCEPT !.dirty = x] \in Frame
<1>1. \A x \in Label : [f EXCEPT !.pc = x] \in Frame
  BY DEF Frame
<1>2. \A x \in User \cup {Nothing} : [f EXCEPT !.user = x] \in Frame
  BY DEF Frame
<1>3. \A x \in SUBSET (User \cup Email) : [f EXCEPT !.todo = x] \in Frame
  BY DEF Frame
<1>4. \A x \in SUBSET (User \cup {Nothing}) : [f EXCEPT !.done = x] \in Frame
  BY DEF Frame
<1>5. \A x \in SUBSET Tuple : [f EXCEPT !.got = x] \in Frame
  BY DEF Frame
<1>6. \A x \in SUBSET (Thing \cup Role) : [f EXCEPT !.touch = x] \in Frame
  BY DEF Frame
<1>7. \A x \in BOOLEAN : [f EXCEPT !.dirty = x] \in Frame
  BY DEF Frame
<1> QED BY <1>1, <1>2, <1>3, <1>4, <1>5, <1>6, <1>7

LEMMA FrameStep ==
  ASSUME FramesFit, NEW h \in Handler, NEW p, Fits(p), proc' = [proc EXCEPT ![h] = p]
  PROVE  FramesFit'
<1>1. \A g \in Handler : proc'[g] = IF g = h THEN p ELSE proc[g]
  BY DEF FramesFit
<1>2. proc' = [g \in Handler |-> proc'[g]]
  BY DEF FramesFit
<1> QED BY <1>1, <1>2 DEF FramesFit

LEMMA OverFits ==
  ASSUME NEW p, Fits(p), NEW b \in BOOLEAN
  PROVE  Fits([p EXCEPT !.over = b])
<1> DEFINE q == [p EXCEPT !.over = b]
<1>1. q \in Frame
  BY DEF Fits, Frame
<1>2. /\ q.op = p.op /\ q.pc = p.pc /\ q.user = p.user /\ q.role = p.role /\ q.email = p.email
      /\ q.todo = p.todo /\ q.first = p.first /\ q.second = p.second
  BY DEF Fits, Frame
<1>3. Fits(q)
  <2> HIDE DEF q
  <2>1. Remaining(q) = Remaining(p)
    BY <1>2 DEF Remaining
  <2> QED BY <1>1, <1>2, <2>1 DEF Fits, NamesFit, GuardFits, CountFits
<1> QED BY <1>3

LEMMA ClaimFits ==
  ASSUME FramesFit, NEW h \in Handler, NEW p, Fits(p), proc' = Claimed(h, p)
  PROVE  FramesFit'
<1>1. proc' = [g \in Handler |-> proc'[g]]
  BY DEF Claimed
<1>2. ASSUME NEW g \in Handler
      PROVE  Fits(proc'[g])
  <2>1. CASE g = h
    <3> DEFINE b == p.over \/ \E k \in Handler \ {h} : proc[k].touch \cap p.touch # {}
    <3>1. proc'[g] = [p EXCEPT !.over = b]
      BY <2>1 DEF Claimed
    <3>2. b \in BOOLEAN
      BY DEF Fits, Frame
    <3> QED BY <3>1, <3>2, OverFits
  <2>2. CASE g # h
    <3> DEFINE b == proc[g].over \/ proc[g].touch \cap p.touch # {}
    <3>1. proc'[g] = [proc[g] EXCEPT !.over = b]
      BY <1>2, <2>2 DEF Claimed
    <3>2. b \in BOOLEAN /\ Fits(proc[g])
      BY <1>2 DEF FramesFit, Fits, Frame
    <3> QED BY <3>1, <3>2, OverFits
  <2> QED BY <2>1, <2>2
<1> QED BY <1>1, <1>2 DEF FramesFit

\* What is left of the tuples to send when a batch has gone.
LEMMA BatchIn ==
  ASSUME NEW ts, NEW b \in Batches(ts)
  PROVE  b \subseteq ts /\ Unsent(ts, b) = ts \ b
BY DEF Batches, Unsent

LEMMA GrantTyped ==
  ASSUME NEW flags \in SUBSET Flag
  PROVE  Grant(flags) \in SUBSET Tuple
BY DEF Grant, Tuple

\* A frame that only moves on to another step.
LEMMA GotoStep ==
  ASSUME FramesFit, NEW h \in Handler, NEW l \in Label, Goto(h, l),
         l \notin {"guard", "delete", "count", "fgaRead", "fgaDelete", "role", "fill", "list", "next",
                   "link", "lookup", "undo"},
         l = "insert" => proc[h].op # "invite"
  PROVE  FramesFit'
<1> DEFINE p == [proc[h] EXCEPT !.pc = l]
<1>1. proc' = [proc EXCEPT ![h] = p]
  BY DEF Goto
<1>2. Fits(proc[h])
  BY DEF FramesFit
<1>3. p \in Frame
  BY <1>2 DEF Fits, Frame
<1>4. /\ p.op = proc[h].op /\ p.pc = l /\ p.user = proc[h].user /\ p.role = proc[h].role
      /\ p.email = proc[h].email /\ p.todo = proc[h].todo
  BY <1>2 DEF Fits, Frame
<1>5. Fits(p)
  <2> HIDE DEF p
  <2> QED BY <1>2, <1>3, <1>4 DEF Fits, NamesFit, GuardFits, CountFits
<1> HIDE DEF p
<1> QED BY <1>1, <1>5, FrameStep

-----------------------------------------------------------------------------
(* Ends of calls.                                                          *)

DriftTyped == drift \in [Thing -> SUBSET Cause]

LEMMA VerdictTyped ==
  ASSUME DriftTyped, NEW p, NEW healed, NEW why \in SUBSET Cause
  PROVE  Verdict(p, healed, why) \in [Thing -> SUBSET Cause]
<1>1. {"overlap"} \subseteq Cause /\ {"stale"} \subseteq Cause
  BY DEF Cause
<1>2. ASSUME NEW x \in Thing
      PROVE  /\ drift[x] \subseteq Cause
             /\ (IF x \in healed THEN {} ELSE drift[x]) \cup why
                 \cup (IF p.over THEN {"overlap"} ELSE {})
                 \cup (IF x \in p.stale THEN {"stale"} ELSE {}) \in SUBSET Cause
  BY <1>1, <1>2 DEF DriftTyped
<1> QED BY <1>2 DEF Verdict

LEMMA OrphanedTyped ==
  ASSUME NEW d \in [Thing -> SUBSET Cause], NEW gone
  PROVE  Orphaned(d, gone) \in [Thing -> SUBSET Cause]
<1>1. "orphan" \in Cause
  BY DEF Cause
<1> QED BY <1>1 DEF Orphaned

LEMMA EndStep ==
  ASSUME FramesFit, DriftTyped, NEW h \in Handler, NEW healed, NEW why \in SUBSET Cause,
         End(h, healed, why)
  PROVE  FramesFit' /\ DriftTyped'
<1>1. FramesFit'
  BY NoCallFits, FrameStep DEF End
<1>2. drift' = Verdict(proc[h], healed, why)
  BY DEF End
<1>3. DriftTyped'
  BY <1>2, VerdictTyped DEF DriftTyped
<1> QED BY <1>1, <1>3

LEMMA SucceedStep ==
  ASSUME FramesFit, DriftTyped, NEW h \in Handler, Succeed(h)
  PROVE  FramesFit' /\ DriftTyped'
BY EndStep DEF Succeed, Cause

LEMMA FailStep ==
  ASSUME FramesFit, DriftTyped, NEW h \in Handler, Fail(h)
  PROVE  FramesFit' /\ DriftTyped'
<1>1. {"failure"} \in SUBSET Cause
  BY DEF Cause
<1> QED BY <1>1, EndStep DEF Fail

LEMMA ThrowStep ==
  ASSUME FramesFit, DriftTyped, NEW h \in Handler, NEW effect \in BOOLEAN, Throw(h, effect)
  PROVE  FramesFit' /\ DriftTyped'
<1>1. CASE proc[h].op \in {"accept", "addMember"} /\ proc[h].dirty
  <2> DEFINE p == [proc[h] EXCEPT !.pc = "undo", !.lost = effect]
  <2>1. proc' = [proc EXCEPT ![h] = p] /\ drift' = drift
    BY <1>1 DEF Throw
  <2>2. Fits(proc[h])
    BY DEF FramesFit
  <2>3. p \in Frame
    <3>1. [proc[h] EXCEPT !.pc = "undo"] \in Frame
      BY <2>2 DEF Fits, Frame, Label
    <3> QED BY <3>1 DEF Frame
  <2>4. /\ p.op = proc[h].op /\ p.pc = "undo" /\ p.user = proc[h].user /\ p.role = proc[h].role
        /\ p.email = proc[h].email /\ p.todo = proc[h].todo
    BY <2>2 DEF Fits, Frame
  <2>5. Fits(p)
    <3> HIDE DEF p
    <3> QED BY <1>1, <2>2, <2>3, <2>4 DEF Fits, NamesFit, GuardFits, CountFits
  <2> HIDE DEF p
  <2> QED BY <2>1, <2>5, FrameStep DEF DriftTyped
<1>2. CASE ~(proc[h].op \in {"accept", "addMember"} /\ proc[h].dirty)
  BY <1>2, FailStep DEF Throw
<1> QED BY <1>1, <1>2

-----------------------------------------------------------------------------
(* Beginnings of calls.                                                    *)

LEMMA TouchTyped ==
  ASSUME TablesTyped, NEW p, Fits(p)
  PROVE  Touch(p) \subseteq Thing \cup Role
<1>1. \A u \in User : Link(u) \in Links
  BY DEF Links
<1>2. Team \in Thing /\ User \subseteq Thing /\ Links \subseteq Thing
  BY DEF Thing, Subject
<1>3. \A r : Holders(r) \subseteq User /\ TeamIfHolding(r) \subseteq {Team}
  BY DEF Holders, TeamIfHolding
<1>4. {Link(v) : v \in Holders(p.role)} \subseteq Links
  BY <1>1, <1>3
<1>5. NamesFit(p)
  BY DEF Fits
<1>6. CASE p.op \in {"deleteUser", "addMember", "removeMember", "setUserRole"}
  <2>1. p.user \in User /\ p.op = "setUserRole" => p.role \in Role
    BY <1>5, <1>6 DEF NamesFit
  <2>2. p.user \in Thing /\ Link(p.user) \in Thing
    BY <1>1, <1>2, <1>5, <1>6 DEF NamesFit
  <2>3. Touch(p) \subseteq {p.user, Link(p.user)} \/ (p.op = "setUserRole" /\ Touch(p) = {p.user, p.role})
    BY <1>6 DEF Touch
  <2> QED BY <1>5, <2>2, <2>3 DEF NamesFit
<1>7. CASE p.op \in {"setTeamRole", "updateRole", "deleteRole", "accept"}
  <2>1. p.role \in Role
    BY <1>5, <1>7 DEF NamesFit
  <2>2. Touch(p) \subseteq {Team, p.role} \cup Holders(p.role) \cup {Link(v) : v \in Holders(p.role)}
                            \cup TeamIfHolding(p.role)
    BY <1>7 DEF Touch
  <2> QED BY <1>2, <1>3, <1>4, <2>1, <2>2
<1>8. CASE p.op \in {"clearTeamRole", "deleteTeam"}
  BY <1>2, <1>8 DEF Touch
<1>9. CASE p.op \notin {"deleteUser", "addMember", "removeMember", "setUserRole", "setTeamRole",
                        "updateRole", "deleteRole", "accept", "clearTeamRole", "deleteTeam"}
  BY <1>9 DEF Touch
<1> QED BY <1>6, <1>7, <1>8, <1>9

LEMMA EnterStep ==
  ASSUME TablesTyped, FramesFit, NEW h \in Handler, NEW p, Fits(p), Enter(h, p)
  PROVE  FramesFit'
<1> DEFINE t == Touch(p)
           q == [p EXCEPT !.touch = t]
<1>1. t \subseteq Thing \cup Role
  BY TouchTyped
<1>2. proc' = Claimed(h, q)
  BY DEF Enter
<1>3. Fits(q)
  <2> HIDE DEF t
  <2>1. q \in Frame
    BY <1>1 DEF Fits, Frame
  <2>2. /\ q.op = p.op /\ q.pc = p.pc /\ q.user = p.user /\ q.role = p.role /\ q.email = p.email
        /\ q.todo = p.todo /\ q.first = p.first /\ q.second = p.second
    BY DEF Fits, Frame
  <2> HIDE DEF q
  <2>3. Remaining(q) = Remaining(p)
    BY <2>2 DEF Remaining
  <2> QED BY <2>1, <2>2, <2>3 DEF Fits, NamesFit, GuardFits, CountFits
<1> HIDE DEF q
<1> QED BY <1>2, <1>3, ClaimFits

LEMMA BeginOnUserStep ==
  ASSUME TablesTyped, FramesFit, NEW h \in Handler, BeginOnUser(h)
  PROVE  FramesFit'
<1>1. PICK u \in User :
        \/ Enter(h, [Call("deleteUser", "guard") EXCEPT !.user = u])
        \/ \E r \in Role : Enter(h, [Call("setUserRole", "fgaRead") EXCEPT !.user = u, !.role = r])
        \/ \E c \in {Call("addMember", "start"), Call("removeMember", "guard")} :
             Enter(h, [c EXCEPT !.user = u])
  BY DEF BeginOnUser
<1>2. CASE Enter(h, [Call("deleteUser", "guard") EXCEPT !.user = u])
  <2> DEFINE c == Call("deleteUser", "guard")
             p == [c EXCEPT !.user = u]
  <2>1. c \in Frame
    BY CallFits DEF Op, Label
  <2>2. p \in Frame
    BY <2>1 DEF Frame
  <2>3. p.op = "deleteUser" /\ p.pc = "guard" /\ p.user = u
    BY DEF Call, NoCall
  <2>4. Enter(h, p)
    BY <1>2
  <2> HIDE DEF p
  <2>5. Fits(p)
    BY <2>2, <2>3 DEF Fits, NamesFit, GuardFits, CountFits
  <2> QED BY <2>4, <2>5, EnterStep
<1>3. CASE \E r \in Role : Enter(h, [Call("setUserRole", "fgaRead") EXCEPT !.user = u, !.role = r])
  <2>0. PICK r \in Role : Enter(h, [Call("setUserRole", "fgaRead") EXCEPT !.user = u, !.role = r])
    BY <1>3
  <2> DEFINE c == Call("setUserRole", "fgaRead")
             d == [c EXCEPT !.user = u]
             p == [d EXCEPT !.role = r]
  <2>1. c \in Frame
    BY CallFits DEF Op, Label
  <2>2. d \in Frame
    BY <2>1 DEF Frame
  <2>3. p \in Frame
    BY <2>2 DEF Frame
  <2>4. p.op = "setUserRole" /\ p.pc = "fgaRead" /\ p.user = u /\ p.role = r
    BY DEF Call, NoCall
  <2>5. Enter(h, p)
    BY <2>0
  <2> HIDE DEF p
  <2>6. Fits(p)
    BY <2>3, <2>4 DEF Fits, NamesFit, GuardFits, CountFits
  <2> QED BY <2>5, <2>6, EnterStep
<1>4. CASE Enter(h, [Call("addMember", "start") EXCEPT !.user = u])
  <2> DEFINE c == Call("addMember", "start")
             p == [c EXCEPT !.user = u]
  <2>1. c \in Frame
    BY CallFits DEF Op, Label
  <2>2. p \in Frame
    BY <2>1 DEF Frame
  <2>3. p.op = "addMember" /\ p.pc = "start" /\ p.user = u
    BY DEF Call, NoCall
  <2>4. Enter(h, p)
    BY <1>4
  <2> HIDE DEF p
  <2>5. Fits(p)
    BY <2>2, <2>3 DEF Fits, NamesFit, GuardFits, CountFits
  <2> QED BY <2>4, <2>5, EnterStep
<1>5. CASE Enter(h, [Call("removeMember", "guard") EXCEPT !.user = u])
  <2> DEFINE c == Call("removeMember", "guard")
             p == [c EXCEPT !.user = u]
  <2>1. c \in Frame
    BY CallFits DEF Op, Label
  <2>2. p \in Frame
    BY <2>1 DEF Frame
  <2>3. p.op = "removeMember" /\ p.pc = "guard" /\ p.user = u
    BY DEF Call, NoCall
  <2>4. Enter(h, p)
    BY <1>5
  <2> HIDE DEF p
  <2>5. Fits(p)
    BY <2>2, <2>3 DEF Fits, NamesFit, GuardFits, CountFits
  <2> QED BY <2>4, <2>5, EnterStep
<1> QED BY <1>1, <1>2, <1>3, <1>4, <1>5

LEMMA BeginOnTeamStep ==
  ASSUME TablesTyped, FramesFit, NEW h \in Handler, BeginOnTeam(h)
  PROVE  FramesFit'
<1>1. \/ \E r \in Role : Enter(h, [Call("setTeamRole", "fgaRead") EXCEPT !.role = r])
      \/ Enter(h, Call("clearTeamRole", "fgaRead"))
      \/ Enter(h, [Call("deleteTeam", "start") EXCEPT !.todo = roster])
  BY DEF BeginOnTeam
<1>2. CASE \E r \in Role : Enter(h, [Call("setTeamRole", "fgaRead") EXCEPT !.role = r])
  <2>0. PICK r \in Role : Enter(h, [Call("setTeamRole", "fgaRead") EXCEPT !.role = r])
    BY <1>2
  <2> DEFINE c == Call("setTeamRole", "fgaRead")
             p == [c EXCEPT !.role = r]
  <2>1. c \in Frame
    BY CallFits DEF Op, Label
  <2>2. p \in Frame
    BY <2>1 DEF Frame
  <2>3. p.op = "setTeamRole" /\ p.pc = "fgaRead" /\ p.role = r
    BY DEF Call, NoCall
  <2>4. Enter(h, p)
    BY <2>0
  <2> HIDE DEF p
  <2>5. Fits(p)
    BY <2>2, <2>3 DEF Fits, NamesFit, GuardFits, CountFits
  <2> QED BY <2>4, <2>5, EnterStep
<1>3. CASE Enter(h, Call("clearTeamRole", "fgaRead"))
  <2> DEFINE p == Call("clearTeamRole", "fgaRead")
  <2>1. p \in Frame
    BY CallFits DEF Op, Label
  <2>2. p.op = "clearTeamRole" /\ p.pc = "fgaRead"
    BY DEF Call, NoCall
  <2>3. Enter(h, p)
    BY <1>3
  <2> HIDE DEF p
  <2>4. Fits(p)
    BY <2>1, <2>2 DEF Fits, NamesFit, GuardFits, CountFits
  <2> QED BY <2>3, <2>4, EnterStep
<1>4. CASE Enter(h, [Call("deleteTeam", "start") EXCEPT !.todo = roster])
  <2> DEFINE c == Call("deleteTeam", "start")
             p == [c EXCEPT !.todo = roster]
  <2>1. c \in Frame
    BY CallFits DEF Op, Label
  <2>2. roster \subseteq User \cup Email
    BY DEF TablesTyped
  <2>3. p \in Frame
    BY <2>1, <2>2 DEF Frame
  <2>4. p.op = "deleteTeam" /\ p.pc = "start"
    BY DEF Call, NoCall
  <2>5. Enter(h, p)
    BY <1>4
  <2> HIDE DEF p
  <2>6. Fits(p)
    BY <2>3, <2>4 DEF Fits, NamesFit, GuardFits, CountFits
  <2> QED BY <2>5, <2>6, EnterStep
<1> QED BY <1>1, <1>2, <1>3, <1>4

LEMMA BeginOnRoleStep ==
  ASSUME TablesTyped, FramesFit, NEW h \in Handler, BeginOnRole(h)
  PROVE  FramesFit'
<1>1. \/ \E r \in Role : \E f \in {{}, {"admin"}} :
           Enter(h, [Call("updateRole", "start") EXCEPT !.role = r, !.flags = f])
      \/ \E r \in Role : Enter(h, [Call("deleteRole", "start") EXCEPT !.role = r])
      \/ \E r \in Role : Enter(h, [Call("readRole", "role") EXCEPT !.role = r])
  BY DEF BeginOnRole
<1>2. CASE \E r \in Role : \E f \in {{}, {"admin"}} :
             Enter(h, [Call("updateRole", "start") EXCEPT !.role = r, !.flags = f])
  <2>0. PICK r \in Role, f \in {{}, {"admin"}} :
          Enter(h, [Call("updateRole", "start") EXCEPT !.role = r, !.flags = f])
    BY <1>2
  <2> DEFINE c == Call("updateRole", "start")
             d == [c EXCEPT !.role = r]
             p == [d EXCEPT !.flags = f]
  <2>1. c \in Frame
    BY CallFits DEF Op, Label
  <2>2. d \in Frame
    BY <2>1 DEF Frame
  <2>3. f \in SUBSET Flag
    BY DEF Flag
  <2>4. p \in Frame
    BY <2>2, <2>3 DEF Frame
  <2>5. p.op = "updateRole" /\ p.pc = "start" /\ p.role = r /\ p.todo = {}
    BY DEF Call, NoCall
  <2>6. Enter(h, p)
    BY <2>0
  <2> HIDE DEF p
  <2>7. Fits(p)
    BY <2>4, <2>5 DEF Fits, NamesFit, GuardFits, CountFits
  <2> QED BY <2>6, <2>7, EnterStep
<1>3. CASE \E r \in Role : Enter(h, [Call("deleteRole", "start") EXCEPT !.role = r])
  <2>0. PICK r \in Role : Enter(h, [Call("deleteRole", "start") EXCEPT !.role = r])
    BY <1>3
  <2> DEFINE c == Call("deleteRole", "start")
             p == [c EXCEPT !.role = r]
  <2>1. c \in Frame
    BY CallFits DEF Op, Label
  <2>2. p \in Frame
    BY <2>1 DEF Frame
  <2>3. p.op = "deleteRole" /\ p.pc = "start" /\ p.role = r
    BY DEF Call, NoCall
  <2>4. Enter(h, p)
    BY <2>0
  <2> HIDE DEF p
  <2>5. Fits(p)
    BY <2>2, <2>3 DEF Fits, NamesFit, GuardFits, CountFits
  <2> QED BY <2>4, <2>5, EnterStep
<1>4. CASE \E r \in Role : Enter(h, [Call("readRole", "role") EXCEPT !.role = r])
  <2>0. PICK r \in Role : Enter(h, [Call("readRole", "role") EXCEPT !.role = r])
    BY <1>4
  <2> DEFINE c == Call("readRole", "role")
             p == [c EXCEPT !.role = r]
  <2>1. c \in Frame
    BY CallFits DEF Op, Label
  <2>2. p \in Frame
    BY <2>1 DEF Frame
  <2>3. p.op = "readRole" /\ p.pc = "role" /\ p.role = r
    BY DEF Call, NoCall
  <2>4. Enter(h, p)
    BY <2>0
  <2> HIDE DEF p
  <2>5. Fits(p)
    BY <2>2, <2>3 DEF Fits, NamesFit, GuardFits, CountFits
  <2> QED BY <2>4, <2>5, EnterStep
<1> QED BY <1>1, <1>2, <1>3, <1>4

LEMMA BeginOnInviteStep ==
  ASSUME TablesTyped, RolesExist, FramesFit, NEW h \in Handler, BeginOnInvite(h)
  PROVE  FramesFit'
<1>1. \/ \E e \in Email, r \in Role : Enter(h, [Call("invite", "count") EXCEPT !.email = e, !.role = r])
      \/ \E e \in Pending : Enter(h, [Call("accept", "lookup") EXCEPT !.email = e, !.role = invites[e].role])
      \/ Enter(h, [Call("reconcile", "match") EXCEPT !.todo = Pending])
  BY DEF BeginOnInvite
<1>2. CASE \E e \in Email, r \in Role :
             Enter(h, [Call("invite", "count") EXCEPT !.email = e, !.role = r])
  <2>0. PICK e \in Email, r \in Role :
          Enter(h, [Call("invite", "count") EXCEPT !.email = e, !.role = r])
    BY <1>2
  <2> DEFINE c == Call("invite", "count")
             d == [c EXCEPT !.email = e]
             p == [d EXCEPT !.role = r]
  <2>1. c \in Frame
    BY CallFits DEF Op, Label
  <2>2. d \in Frame
    BY <2>1 DEF Frame
  <2>3. p \in Frame
    BY <2>2 DEF Frame
  <2>4. /\ p.op = "invite" /\ p.pc = "count" /\ p.email = e /\ p.role = r
        /\ p.first = Nothing /\ p.second = Nothing
    BY DEF Call, NoCall
  <2>5. Enter(h, p)
    BY <2>0
  <2> HIDE DEF p
  <2>6. Fits(p)
    BY <2>3, <2>4 DEF Fits, NamesFit, GuardFits, CountFits
  <2> QED BY <2>5, <2>6, EnterStep
<1>3. CASE \E e \in Pending :
             Enter(h, [Call("accept", "lookup") EXCEPT !.email = e, !.role = invites[e].role])
  <2>a. PICK e \in Pending :
          Enter(h, [Call("accept", "lookup") EXCEPT !.email = e, !.role = invites[e].role])
    BY <1>3
  <2> DEFINE r == invites[e].role
  <2>b. e \in Email /\ r \in Role
    BY DEF Pending, RolesExist, NoInvite
  <2>0. Enter(h, [Call("accept", "lookup") EXCEPT !.email = e, !.role = r])
    BY <2>a
  <2> HIDE DEF r
  <2> DEFINE c == Call("accept", "lookup")
             d == [c EXCEPT !.email = e]
             p == [d EXCEPT !.role = r]
  <2>1. c \in Frame
    BY CallFits DEF Op, Label
  <2>2. d \in Frame
    BY <2>1, <2>b DEF Frame
  <2>3. p \in Frame
    BY <2>2, <2>b DEF Frame
  <2>4. /\ p.op = "accept" /\ p.pc = "lookup" /\ p.email = e /\ p.role = r
        /\ p.first = Nothing /\ p.second = Nothing
    BY DEF Call, NoCall
  <2>5. Enter(h, p)
    BY <2>0
  <2> HIDE DEF p
  <2>6. Fits(p)
    BY <2>3, <2>4, <2>b DEF Fits, NamesFit, GuardFits, CountFits
  <2> QED BY <2>5, <2>6, EnterStep
<1>4. CASE Enter(h, [Call("reconcile", "match") EXCEPT !.todo = Pending])
  <2> DEFINE c == Call("reconcile", "match")
             t == Pending
             p == [c EXCEPT !.todo = t]
  <2>1. c \in Frame
    BY CallFits DEF Op, Label
  <2>2. t \subseteq User \cup Email
    BY DEF Pending
  <2>3. p \in Frame
    <3> HIDE DEF t
    <3> QED BY <2>1, <2>2 DEF Frame
  <2>4. p.op = "reconcile" /\ p.pc = "match"
    BY DEF Call, NoCall
  <2>5. Enter(h, p)
    BY <1>4
  <2> HIDE DEF p
  <2>6. Fits(p)
    BY <2>3, <2>4 DEF Fits, NamesFit, GuardFits, CountFits
  <2> QED BY <2>5, <2>6, EnterStep
<1> QED BY <1>1, <1>2, <1>3, <1>4

-----------------------------------------------------------------------------
(* Steps of calls: the frames and the causes stay typed.                   *)

LEMMA GuardStep ==
  ASSUME TablesTyped, FramesFit, NEW h \in Handler,
         ReadUsers(h) \/ ReadTeamMembers(h) \/ EnsureOrgHasAdmin(h)
  PROVE  FramesFit' /\ DriftTyped'
<1>0. Fits(proc[h]) /\ DriftTyped /\ Direct \subseteq User /\ ViaTeam \subseteq User
  BY DEF FramesFit, TablesTyped, DriftTyped, Direct, ViaTeam
<1>1. CASE ReadUsers(h)
  <2> DEFINE v == Direct
  <2> DEFINE p == [proc[h] EXCEPT !.first = v]
  <2>1. proc' = [proc EXCEPT ![h] = p] /\ drift' = drift
    BY <1>1 DEF ReadUsers
  <2>2. p \in Frame
    BY <1>0 DEF Fits, Frame, Label
  <2>3. /\ p.op = proc[h].op /\ p.user = proc[h].user /\ p.role = proc[h].role
        /\ p.email = proc[h].email /\ p.todo = proc[h].todo /\ p.second = proc[h].second /\ p.first = v
        /\ p.pc = proc[h].pc
    BY <1>0 DEF Fits, Frame
  <2> HIDE DEF p
  <2>4. p.pc = "guard" /\ p.op = proc[h].op
    BY <1>0, <2>3, <1>1 DEF Fits, NamesFit, ReadUsers, At
  <2>5. Fits(p)
    BY <1>0, <2>2, <2>3, <2>4 DEF Fits, NamesFit, GuardFits, CountFits
  <2> QED BY <2>5, FrameStep, <2>1, <1>0 DEF DriftTyped
<1>2. CASE ReadTeamMembers(h)
  <2> DEFINE v == ViaTeam
  <2> DEFINE p == [proc[h] EXCEPT !.second = v]
  <2>1. proc' = [proc EXCEPT ![h] = p] /\ drift' = drift
    BY <1>2 DEF ReadTeamMembers
  <2>2. p \in Frame
    BY <1>0 DEF Fits, Frame, Label
  <2>3. /\ p.op = proc[h].op /\ p.user = proc[h].user /\ p.role = proc[h].role
        /\ p.email = proc[h].email /\ p.todo = proc[h].todo /\ p.first = proc[h].first /\ p.second = v
        /\ p.pc = proc[h].pc
    BY <1>0 DEF Fits, Frame
  <2> HIDE DEF p
  <2>4. p.pc = "guard" /\ p.op = proc[h].op
    BY <1>0, <2>3, <1>2 DEF Fits, NamesFit, ReadTeamMembers, At
  <2>5. Fits(p)
    BY <1>0, <2>2, <2>3, <2>4 DEF Fits, NamesFit, GuardFits, CountFits
  <2> QED BY <2>5, FrameStep, <2>1, <1>0 DEF DriftTyped
<1>3. CASE EnsureOrgHasAdmin(h)
  <2>f. CASE Fail(h)
    BY <2>f, <1>0, FailStep
  <2>g. CASE Remaining(proc[h]) # {} /\ Goto(h, "delete") /\ UNCHANGED drift
    <3> DEFINE p == [proc[h] EXCEPT !.pc = "delete"]
    <3>1. proc' = [proc EXCEPT ![h] = p] /\ drift' = drift
      BY <2>g DEF Goto
    <3>2. p \in Frame
      BY <1>0 DEF Fits, Frame, Label
    <3>3. /\ p.pc = "delete" /\ p.op = proc[h].op /\ p.user = proc[h].user /\ p.role = proc[h].role
          /\ p.email = proc[h].email /\ p.todo = proc[h].todo
          /\ p.first = proc[h].first /\ p.second = proc[h].second
      BY <1>0 DEF Fits, Frame
    <3> HIDE DEF p
    <3>4. Remaining(p) # {}
      BY <3>3, <2>g DEF Remaining
    <3>5. proc[h].op \in {"deleteUser", "removeMember"}
      BY <1>0, <1>3 DEF EnsureOrgHasAdmin, At, Fits, GuardFits
    <3>6. Fits(p)
      BY <1>0, <3>2, <3>3, <3>4, <3>5 DEF Fits, NamesFit, GuardFits, CountFits
    <3> QED BY <3>1, <3>6, <1>0, FrameStep DEF DriftTyped
  <2> QED BY <1>3, <2>f, <2>g DEF EnsureOrgHasAdmin
<1> QED BY <1>1, <1>2, <1>3

LEMMA RemovalStep ==
  ASSUME TablesTyped, FramesFit, NEW h \in Handler,
         DeleteUser(h) \/ RemoveTeamMember(h) \/ AddTeamMember(h)
  PROVE  FramesFit' /\ DriftTyped'
<1>0. Fits(proc[h]) /\ DriftTyped
  BY DEF FramesFit, TablesTyped, DriftTyped
<1>1. CASE DeleteUser(h)
  <2> DEFINE q1 == [proc[h] EXCEPT !.pc = "fgaRead"]
             p == [q1 EXCEPT !.dirty = TRUE]
  <2>1. proc' = [proc EXCEPT ![h] = p]
    BY <1>1 DEF DeleteUser
  <2>2. p \in Frame
    <3>1. q1 \in Frame
      BY <1>0 DEF Fits, Frame, Label
    <3> QED BY <3>1 DEF Frame, Label
  <2>3. /\ p.op = proc[h].op /\ p.user = proc[h].user /\ p.role = proc[h].role
        /\ p.email = proc[h].email /\ p.todo = proc[h].todo /\ p.first = proc[h].first /\ p.second = proc[h].second /\ p.pc = "fgaRead"
    BY <1>0 DEF Fits, Frame
  <2> HIDE DEF p
  <2>4. p.pc = "fgaRead" /\ p.op = "deleteUser"
    BY <1>0, <2>3, <1>1 DEF Fits, NamesFit, DeleteUser, Doing
  <2>5. Fits(p)
    BY <1>0, <2>2, <2>3, <2>4 DEF Fits, NamesFit, GuardFits, CountFits
  <2>d. drift' = Orphaned(drift, {proc[h].user})
    BY <1>1 DEF DeleteUser
  <2>e. DriftTyped'
    BY <2>d, <1>0, OrphanedTyped DEF DriftTyped
  <2> QED BY <2>1, <2>5, <2>e, FrameStep
<1>2. CASE RemoveTeamMember(h)
  <2> DEFINE q1 == [proc[h] EXCEPT !.pc = "unlink"]
             p == [q1 EXCEPT !.dirty = TRUE]
  <2>1. proc' = [proc EXCEPT ![h] = p] /\ drift' = drift
    BY <1>2 DEF RemoveTeamMember
  <2>2. p \in Frame
    <3>1. q1 \in Frame
      BY <1>0 DEF Fits, Frame, Label
    <3> QED BY <3>1 DEF Frame, Label
  <2>3. /\ p.op = proc[h].op /\ p.user = proc[h].user /\ p.role = proc[h].role
        /\ p.email = proc[h].email /\ p.todo = proc[h].todo /\ p.first = proc[h].first /\ p.second = proc[h].second /\ p.pc = "unlink"
    BY <1>0 DEF Fits, Frame
  <2> HIDE DEF p
  <2>4. p.pc = "unlink" /\ p.op = "removeMember"
    BY <1>0, <2>3, <1>2 DEF Fits, NamesFit, RemoveTeamMember, Doing
  <2>5. Fits(p)
    BY <1>0, <2>2, <2>3, <2>4 DEF Fits, NamesFit, GuardFits, CountFits
  <2> QED BY <2>1, <2>5, <1>0, FrameStep DEF DriftTyped
<1>3. CASE AddTeamMember(h)
  <2>f. CASE Fail(h)
    BY <2>f, <1>0, FailStep
  <2>g. CASE /\ proc' = [proc EXCEPT ![h].pc = "link", ![h].dirty = TRUE]
             /\ UNCHANGED drift
    <3> DEFINE q1 == [proc[h] EXCEPT !.pc = "link"]
               p == [q1 EXCEPT !.dirty = TRUE]
    <3>1. proc' = [proc EXCEPT ![h] = p] /\ drift' = drift
      BY <2>g
    <3>2. p \in Frame
      <4>1. q1 \in Frame
        BY <1>0, <1>3 DEF Fits, Frame, Label
      <4> QED BY <4>1, <1>3 DEF Frame, Label
    <3>3. /\ p.op = proc[h].op /\ p.user = proc[h].user /\ p.role = proc[h].role
          /\ p.email = proc[h].email /\ p.todo = proc[h].todo /\ p.first = proc[h].first /\ p.second = proc[h].second /\ p.pc = "link"
      BY <1>0 DEF Fits, Frame
    <3> HIDE DEF p
    <3>4. p.pc = "link" /\ p.op = "addMember"
      BY <1>0, <3>3, <2>g, <1>3 DEF Fits, NamesFit, AddTeamMember, Doing
    <3>5. Fits(p)
      BY <1>0, <3>2, <3>3, <3>4, <1>3 DEF Fits, NamesFit, GuardFits, CountFits
    <3> QED BY <3>1, <3>5, <1>0, FrameStep DEF DriftTyped
  <2> QED BY <1>3, <2>f, <2>g DEF AddTeamMember
<1> QED BY <1>1, <1>2, <1>3

LEMMA TupleStep ==
  ASSUME TablesTyped, FramesFit, NEW h \in Handler, ReadTuples(h) \/ DeleteTuples(h)
  PROVE  FramesFit' /\ DriftTyped'
<1>0. Fits(proc[h]) /\ DriftTyped
  BY DEF FramesFit, TablesTyped, DriftTyped
<1>1. /\ proc[h].pc \in {"fgaRead", "fgaDelete"}
      /\ proc[h].op \in {"deleteUser", "setUserRole", "setTeamRole", "clearTeamRole", "updateRole"}
  BY <1>0 DEF ReadTuples, DeleteTuples, At, Fits, NamesFit
<1>2. ASSUME proc[h].op \notin {"deleteUser", "clearTeamRole"}, Goto(h, "role"), UNCHANGED drift
      PROVE  FramesFit' /\ DriftTyped'
  <2> DEFINE p == [proc[h] EXCEPT !.pc = "role"]
  <2>1. proc' = [proc EXCEPT ![h] = p]
    BY <1>2 DEF Goto
  <2>2. p \in Frame
    BY <1>0 DEF Fits, Frame, Label
  <2>3. /\ p.pc = "role" /\ p.op = proc[h].op /\ p.user = proc[h].user /\ p.role = proc[h].role
        /\ p.email = proc[h].email /\ p.todo = proc[h].todo
    BY <1>0 DEF Fits, Frame
  <2> HIDE DEF p
  <2>4. Fits(p)
    BY <1>0, <1>1, <1>2, <2>2, <2>3 DEF Fits, NamesFit, GuardFits, CountFits
  <2> QED BY <2>1, <2>4, <1>0, <1>2, FrameStep DEF DriftTyped
<1>3. CASE ReadTuples(h)
  <2>1. CASE AfterRemoval(h)
    <3>1. CASE proc[h].op = "deleteUser"
      BY <2>1, <3>1, <1>0, SucceedStep DEF AfterRemoval
    <3>2. CASE proc[h].op = "clearTeamRole"
      BY <2>1, <3>2, <1>0, GotoStep DEF AfterRemoval, DriftTyped, Label
    <3>3. CASE proc[h].op \notin {"deleteUser", "clearTeamRole"}
      BY <2>1, <3>3, <1>2 DEF AfterRemoval
    <3> QED BY <3>1, <3>2, <3>3
  <2>2. CASE /\ proc' = [proc EXCEPT ![h].pc = "fgaDelete", ![h].got = fga[Subj(h)]]
             /\ UNCHANGED drift
    <3> DEFINE s == Subj(h)
               g == fga[s]
    <3>s. s \in Subject
      <4>1. proc[h].op \notin {"setTeamRole", "clearTeamRole"} => proc[h].user \in User
        BY <1>0, <1>1 DEF Fits, NamesFit
      <4> QED BY <4>1 DEF Subj, Subject
    <3>g. g \in SUBSET Tuple
      BY <3>s DEF TablesTyped
    <3>h. /\ proc' = [proc EXCEPT ![h].pc = "fgaDelete", ![h].got = g]
          /\ UNCHANGED drift
      BY <2>2
    <3> HIDE DEF g
    <3> DEFINE q1 == [proc[h] EXCEPT !.pc = "fgaDelete"]
               p == [q1 EXCEPT !.got = g]
    <3>1. proc' = [proc EXCEPT ![h] = p] /\ drift' = drift
      BY <3>h
    <3>2. p \in Frame
      <4>1. q1 \in Frame
        BY <1>0, <3>g, <1>1 DEF Fits, Frame, Label
      <4> QED BY <4>1, <3>g, <1>1 DEF Frame, Label
    <3>3. /\ p.op = proc[h].op /\ p.user = proc[h].user /\ p.role = proc[h].role
          /\ p.email = proc[h].email /\ p.todo = proc[h].todo /\ p.first = proc[h].first /\ p.second = proc[h].second /\ p.pc = "fgaDelete"
      BY <1>0 DEF Fits, Frame
    <3> HIDE DEF p
    <3>4. p.pc = "fgaDelete"
      BY <1>0, <3>3, <3>h, <3>g, <1>1 DEF Fits, NamesFit
    <3>5. Fits(p)
      BY <1>0, <3>2, <3>3, <3>4, <3>g, <1>1 DEF Fits, NamesFit, GuardFits, CountFits
    <3> QED BY <3>1, <3>5, <1>0, FrameStep DEF DriftTyped
  <2> QED BY <1>3, <2>1, <2>2 DEF ReadTuples
<1>4. CASE DeleteTuples(h)
  <2>1. CASE Succeed(h) \/ Fail(h)
    BY <2>1, <1>0, SucceedStep, FailStep
  <2>2. ASSUME NEW b \in Batches(proc[h].got), NEW left, left = Unsent(proc[h].got, b),
               left # {} \/ proc[h].op # "deleteUser",
               proc' = [proc EXCEPT ![h].dirty = TRUE, ![h].got = left,
                         ![h].pc = IF left # {} THEN @
                                   ELSE IF proc[h].op = "clearTeamRole" THEN "update" ELSE "role"],
               UNCHANGED drift
        PROVE  FramesFit' /\ DriftTyped'
    <3> DEFINE l == IF left # {} THEN proc[h].pc
                    ELSE IF proc[h].op = "clearTeamRole" THEN "update" ELSE "role"
    <3>p. proc[h].pc = "fgaDelete"
      BY <1>4 DEF DeleteTuples, At
    <3>l. /\ l \in {"update", "role", "fgaDelete"}
          /\ l = "role" => proc[h].op \notin {"deleteUser", "clearTeamRole"}
      BY <2>2, <3>p
    <3>g. left \in SUBSET Tuple
      BY <1>0, <2>2, BatchIn DEF Fits, Frame
    <3>h. proc' = [proc EXCEPT ![h].dirty = TRUE, ![h].got = left, ![h].pc = l]
      BY <2>2
    <3> HIDE DEF l
    <3> DEFINE q1 == [proc[h] EXCEPT !.dirty = TRUE]
               q2 == [q1 EXCEPT !.got = left]
               p == [q2 EXCEPT !.pc = l]
    <3>1. proc' = [proc EXCEPT ![h] = p] /\ drift' = drift
      BY <3>h, <2>2
    <3>2. p \in Frame
      <4>1. q1 \in Frame
        BY <1>0, FieldTyped DEF Fits
      <4>2. q2 \in Frame
        BY <4>1, <3>g, FieldTyped
      <4> QED BY <4>2, FieldTyped, <3>l DEF Label
    <3>3. /\ p.op = proc[h].op /\ p.user = proc[h].user /\ p.role = proc[h].role
          /\ p.email = proc[h].email /\ p.todo = proc[h].todo /\ p.first = proc[h].first /\ p.second = proc[h].second /\ p.pc = l
      BY <1>0 DEF Fits, Frame
    <3> HIDE DEF p
    <3>5. Fits(p)
      BY <1>0, <1>1, <3>2, <3>3, <3>l, <3>p DEF Fits, NamesFit, GuardFits, CountFits
    <3> QED BY <3>1, <3>5, <1>0, FrameStep DEF DriftTyped
  <2>3. PICK b \in Batches(proc[h].got) :
          LET left == Unsent(proc[h].got, b) IN
          \/ Succeed(h) \/ Fail(h)
          \/ /\ left # {} \/ proc[h].op # "deleteUser"
             /\ proc' = [proc EXCEPT ![h].dirty = TRUE, ![h].got = left,
                           ![h].pc = IF left # {} THEN @
                                     ELSE IF proc[h].op = "clearTeamRole" THEN "update" ELSE "role"]
             /\ UNCHANGED drift
    BY <1>4 DEF DeleteTuples
  <2> QED BY <2>1, <2>2, <2>3
<1> QED BY <1>3, <1>4

LEMMA LookupStep ==
  ASSUME TablesTyped, FramesFit, NEW h \in Handler, LookupRole(h) \/ FillCache(h)
  PROVE  FramesFit' /\ DriftTyped'
<1>0. Fits(proc[h]) /\ DriftTyped
  BY DEF FramesFit, TablesTyped, DriftTyped
<1>1. CASE LookupRole(h)
  <2> DEFINE r == proc[h].role
             after == IF proc[h].op = "readRole" THEN "return" ELSE "fgaWrite"
  <2>1. r \in Role /\ proc[h].op \in {"setUserRole", "setTeamRole", "updateRole", "readRole", "accept"}
    BY <1>0, <1>1 DEF LookupRole, At, Fits, NamesFit
  <2>2. after \in {"return", "fgaWrite"}
    OBVIOUS
  <2>3. CASE Throw(h, FALSE)
    BY <2>3, <1>0, ThrowStep
  <2>4. CASE /\ cached[r] # Nothing
             /\ proc' = [proc EXCEPT ![h].look = cached[r], ![h].got = Grant(cached[r]), ![h].pc = after,
                           ![h].stale = IF cached[r] = role[r] \/ proc[h].op = "readRole" THEN @ ELSE @ \cup {Subj(h)}]
             /\ UNCHANGED drift
    <3> DEFINE v == cached[r]
               g == Grant(v)
               st == IF cached[r] = role[r] \/ proc[h].op = "readRole" THEN proc[h].stale
                     ELSE proc[h].stale \cup {Subj(h)}
    <3>v. v \in SUBSET Flag
      BY <2>1, <2>4 DEF TablesTyped
    <3>t. Subj(h) \in Subject \cup {Nothing} /\ proc[h].stale \subseteq Subject \cup {Nothing}
      BY <1>0 DEF Subj, Subject, Fits, Frame
    <3>u. st \subseteq Subject \cup {Nothing}
      BY <3>t
    <3>g. g \in SUBSET Tuple
      BY <3>v, GrantTyped
    <3>h. /\ proc' = [proc EXCEPT ![h].look = v, ![h].got = g, ![h].pc = after, ![h].stale = st]
          /\ UNCHANGED drift
      BY <2>4
    <3> HIDE DEF v, g, st, after
    <3> DEFINE q0 == [proc[h] EXCEPT !.got = g]
               q1 == [q0 EXCEPT !.look = v]
               q2 == [q1 EXCEPT !.pc = after]
               p == [q2 EXCEPT !.stale = st]
    <3>1. proc' = [proc EXCEPT ![h] = p] /\ drift' = drift
      BY <3>h
    <3>2. p \in Frame
      <4>0. proc[h] \in Frame /\ after \in Label
        BY <1>0, <2>2 DEF Fits, Label
      <4>a. q0 \in Frame
        BY <4>0, <3>g, FieldTyped
      <4> HIDE DEF q0
      <4>1. q1 \in Frame
        BY <4>a, <3>v DEF Frame
      <4> HIDE DEF q1
      <4>2. q2 \in Frame
        BY <4>0, <4>1 DEF Frame
      <4> HIDE DEF q2
      <4> QED BY <4>2, <3>u DEF Frame
    <3>3. /\ p.op = proc[h].op /\ p.user = proc[h].user /\ p.role = proc[h].role
          /\ p.email = proc[h].email /\ p.todo = proc[h].todo /\ p.first = proc[h].first /\ p.second = proc[h].second /\ p.pc = after
      <4>1. proc[h] \in Frame
        BY <1>0 DEF Fits
      <4>a. /\ q0.op = proc[h].op /\ q0.user = proc[h].user /\ q0.role = proc[h].role
            /\ q0.email = proc[h].email /\ q0.todo = proc[h].todo /\ q0.first = proc[h].first
            /\ q0.second = proc[h].second /\ q0 \in Frame
        BY <4>1, <3>g DEF Frame
      <4> HIDE DEF q0
      <4>2. /\ q1.op = proc[h].op /\ q1.user = proc[h].user /\ q1.role = proc[h].role
            /\ q1.email = proc[h].email /\ q1.todo = proc[h].todo /\ q1.first = proc[h].first
            /\ q1.second = proc[h].second /\ q1 \in Frame
        BY <4>a, <3>v DEF Frame
      <4> HIDE DEF q1
      <4> QED BY <4>2 DEF Frame
    <3> HIDE DEF p
    <3>4. p.pc = after
      BY <1>0, <3>3, <3>h, <3>v, <3>u, <2>2 DEF Fits, NamesFit
    <3>5. Fits(p)
      BY <1>0, <3>2, <3>3, <3>4, <3>v, <3>u, <2>2 DEF Fits, NamesFit, GuardFits, CountFits
    <3> QED BY <3>1, <3>5, <1>0, FrameStep DEF DriftTyped
  <2>5. CASE /\ role[r] # Absent
             /\ proc' = [proc EXCEPT ![h].look = role[r], ![h].pc = "fill"]
             /\ UNCHANGED drift
    <3> DEFINE v == role[r]
    <3>v. v \in SUBSET Flag
      BY <2>1, <2>5 DEF TablesTyped
    <3>h. /\ proc' = [proc EXCEPT ![h].look = v, ![h].pc = "fill"]
          /\ UNCHANGED drift
      BY <2>5
    <3> HIDE DEF v
    <3> DEFINE q1 == [proc[h] EXCEPT !.look = v]
               p == [q1 EXCEPT !.pc = "fill"]
    <3>1. proc' = [proc EXCEPT ![h] = p] /\ drift' = drift
      BY <3>h
    <3>2. p \in Frame
      <4>1. q1 \in Frame
        BY <1>0, <3>v, <2>1 DEF Fits, Frame, Label
      <4> QED BY <4>1, <3>v, <2>1 DEF Frame, Label
    <3>3. /\ p.op = proc[h].op /\ p.user = proc[h].user /\ p.role = proc[h].role
          /\ p.email = proc[h].email /\ p.todo = proc[h].todo /\ p.first = proc[h].first /\ p.second = proc[h].second /\ p.pc = "fill"
      BY <1>0 DEF Fits, Frame
    <3> HIDE DEF p
    <3>4. p.pc = "fill"
      BY <1>0, <3>3, <3>h, <3>v, <2>1 DEF Fits, NamesFit
    <3>5. Fits(p)
      BY <1>0, <3>2, <3>3, <3>4, <3>v, <2>1 DEF Fits, NamesFit, GuardFits, CountFits
    <3> QED BY <3>1, <3>5, <1>0, FrameStep DEF DriftTyped
  <2> QED BY <1>1, <2>3, <2>4, <2>5 DEF LookupRole
<1>2. CASE FillCache(h)
  <2> DEFINE l == IF proc[h].op = "readRole" THEN "return" ELSE "fgaWrite"
             g == Grant(proc[h].look)
  <2>l. l \in {"return", "fgaWrite"}
    OBVIOUS
  <2>g. g \in SUBSET Tuple
    BY <1>0, GrantTyped DEF Fits, Frame
  <2>h. proc' = [proc EXCEPT ![h].got = g, ![h].pc = l] /\ drift' = drift
    BY <1>2 DEF FillCache
  <2> HIDE DEF l, g
  <2> DEFINE q1 == [proc[h] EXCEPT !.got = g]
             p == [q1 EXCEPT !.pc = l]
  <2>1. proc' = [proc EXCEPT ![h] = p]
    BY <2>h
  <2>2. p \in Frame
    <3>1. q1 \in Frame
      BY <1>0, <2>g, FieldTyped DEF Fits
    <3> QED BY <3>1, <2>l, FieldTyped DEF Label
  <2>3. /\ p.op = proc[h].op /\ p.user = proc[h].user /\ p.role = proc[h].role
        /\ p.email = proc[h].email /\ p.todo = proc[h].todo /\ p.first = proc[h].first /\ p.second = proc[h].second /\ p.pc = l
    BY <1>0 DEF Fits, Frame
  <2> HIDE DEF p
  <2>5. Fits(p)
    BY <1>0, <2>2, <2>3, <2>l DEF Fits, NamesFit, GuardFits, CountFits
  <2> QED BY <2>1, <2>5, <2>h, <1>0, FrameStep DEF DriftTyped
<1> QED BY <1>1, <1>2

LEMMA WriteStep ==
  ASSUME TablesTyped, FramesFit, NEW h \in Handler,
         \/ WriteTuples(h) \/ UpdateUserRole(h) \/ UpdateTeamRole(h) \/ LinkTuple(h) \/ UnlinkTuple(h)
         \/ Return(h) \/ InvalidateRole(h)
  PROVE  FramesFit' /\ DriftTyped'
<1>0. Fits(proc[h]) /\ DriftTyped
  BY DEF FramesFit, TablesTyped, DriftTyped
<1>1. CASE WriteTuples(h)
  <2>1. CASE Throw(h, Begun(h))
    BY <2>1, <1>0, ThrowStep DEF Begun
  <2>2. CASE /\ proc' = [proc EXCEPT ![h].dirty = TRUE, ![h].got = {},
                  ![h].done = IF proc[h].op = "updateRole" THEN @ \cup {proc[h].user} ELSE @,
                  ![h].pc = CASE proc[h].op = "updateRole" -> "next" [] proc[h].op = "accept" -> "mark"
                              [] OTHER -> "update"]
             /\ UNCHANGED drift
    <3> DEFINE l == CASE proc[h].op = "updateRole" -> "next" [] proc[h].op = "accept" -> "mark"
                      [] OTHER -> "update"
               d == IF proc[h].op = "updateRole" THEN proc[h].done \cup {proc[h].user} ELSE proc[h].done
    <3>l. l \in {"next", "mark", "update"} /\ (l = "next" => proc[h].op = "updateRole")
      OBVIOUS
    <3>d. d \in SUBSET (User \cup {Nothing})
      BY <1>0 DEF Fits, Frame
    <3>h. /\ proc' = [proc EXCEPT ![h].dirty = TRUE, ![h].got = {}, ![h].done = d, ![h].pc = l]
          /\ UNCHANGED drift
      BY <2>2
    <3> HIDE DEF l, d
    <3> DEFINE q1 == [proc[h] EXCEPT !.dirty = TRUE]
               q2 == [q1 EXCEPT !.got = {}]
               q3 == [q2 EXCEPT !.done = d]
               p == [q3 EXCEPT !.pc = l]
    <3>1. proc' = [proc EXCEPT ![h] = p] /\ drift' = drift
      BY <3>h
    <3>2. p \in Frame
      <4>1. q1 \in Frame
        BY <1>0, FieldTyped DEF Fits
      <4>2. q2 \in Frame
        BY <4>1, FieldTyped
      <4>3. q3 \in Frame
        BY <4>2, FieldTyped, <3>d
      <4> QED BY <4>3, FieldTyped, <3>l DEF Label
    <3>3. /\ p.op = proc[h].op /\ p.user = proc[h].user /\ p.role = proc[h].role
          /\ p.email = proc[h].email /\ p.todo = proc[h].todo /\ p.first = proc[h].first /\ p.second = proc[h].second /\ p.pc = l
      BY <1>0 DEF Fits, Frame
    <3> HIDE DEF p
    <3>5. Fits(p)
      BY <1>0, <3>2, <3>3, <3>d, <3>l DEF Fits, NamesFit, GuardFits, CountFits
    <3> QED BY <3>1, <3>5, <1>0, FrameStep DEF DriftTyped
  <2>3. ASSUME NEW b \in Batches(proc[h].got), NEW left, left = Unsent(proc[h].got, b),
               proc' = [proc EXCEPT ![h].dirty = TRUE, ![h].got = left], UNCHANGED drift
        PROVE  FramesFit' /\ DriftTyped'
    <3>g. left \in SUBSET Tuple
      BY <1>0, <2>3, BatchIn DEF Fits, Frame
    <3> DEFINE q1 == [proc[h] EXCEPT !.dirty = TRUE]
               p == [q1 EXCEPT !.got = left]
    <3>1. proc' = [proc EXCEPT ![h] = p] /\ drift' = drift
      BY <2>3
    <3>2. p \in Frame
      <4>1. q1 \in Frame
        BY <1>0, FieldTyped DEF Fits
      <4> QED BY <4>1, <3>g, FieldTyped
    <3>3. /\ p.op = proc[h].op /\ p.user = proc[h].user /\ p.role = proc[h].role /\ p.pc = proc[h].pc
          /\ p.email = proc[h].email /\ p.todo = proc[h].todo /\ p.first = proc[h].first /\ p.second = proc[h].second
      BY <1>0 DEF Fits, Frame
    <3> HIDE DEF p
    <3>4. Remaining(p) = Remaining(proc[h])
      BY <3>3 DEF Remaining
    <3>5. Fits(p)
      BY <1>0, <3>2, <3>3, <3>4 DEF Fits, NamesFit, GuardFits, CountFits
    <3> QED BY <3>1, <3>5, <1>0, FrameStep DEF DriftTyped
  <2>4. PICK b \in Batches(proc[h].got) :
          LET left == Unsent(proc[h].got, b) IN
          \/ Throw(h, Begun(h))
          \/ proc' = [proc EXCEPT ![h].dirty = TRUE, ![h].got = left] /\ UNCHANGED drift
          \/ /\ proc' = [proc EXCEPT ![h].dirty = TRUE, ![h].got = {},
                  ![h].done = IF proc[h].op = "updateRole" THEN @ \cup {proc[h].user} ELSE @,
                  ![h].pc = CASE proc[h].op = "updateRole" -> "next" [] proc[h].op = "accept" -> "mark"
                              [] OTHER -> "update"]
             /\ UNCHANGED drift
    BY <1>1 DEF WriteTuples
  <2> QED BY <2>1, <2>2, <2>3, <2>4
<1>2. CASE Succeed(h) \/ Fail(h) \/ Throw(h, FALSE)
  BY <1>2, <1>0, SucceedStep, FailStep, ThrowStep
<1> QED BY <1>1, <1>2 DEF UpdateUserRole, UpdateTeamRole, LinkTuple, UnlinkTuple, Return, InvalidateRole

LEMMA UndoStep ==
  ASSUME TablesTyped, FramesFit, NEW h \in Handler, Undo(h)
  PROVE  FramesFit' /\ DriftTyped'
<1> DEFINE why == IF proc[h].lost THEN {"failure"} ELSE {}
           gone == IF proc[h].op = "accept" THEN {proc[h].user} ELSE {}
           d == Verdict(proc[h], {}, why)
<1>1. proc' = [proc EXCEPT ![h] = NoCall] /\ drift' = Orphaned(d, gone)
  BY DEF Undo
<1>2. DriftTyped /\ why \in SUBSET Cause
  BY DEF TablesTyped, DriftTyped, Cause
<1>3. d \in [Thing -> SUBSET Cause]
  BY <1>2, VerdictTyped
<1> HIDE DEF d, gone
<1> QED BY <1>1, <1>3, OrphanedTyped, NoCallFits, FrameStep DEF DriftTyped

-----------------------------------------------------------------------------
(* Steps of calls on roles, the team and invites.                          *)

LEMMA RoleStep ==
  ASSUME TablesTyped, FramesFit, NEW h \in Handler,
         UpdateRole(h) \/ ListHolders(h) \/ ResyncNext(h) \/ DeleteRole(h)
  PROVE  FramesFit' /\ DriftTyped'
<1>0. Fits(proc[h]) /\ DriftTyped
  BY DEF FramesFit, TablesTyped, DriftTyped
<1>1. CASE UpdateRole(h)
  <2> DEFINE q1 == [proc[h] EXCEPT !.pc = "list"]
             p == [q1 EXCEPT !.dirty = TRUE]
  <2>1. proc' = [proc EXCEPT ![h] = p]
    BY <1>1 DEF UpdateRole
  <2>2. p \in Frame
    <3>1. q1 \in Frame
      BY <1>0 DEF Fits, Frame, Label
    <3> QED BY <3>1 DEF Frame, Label
  <2>3. /\ p.op = proc[h].op /\ p.user = proc[h].user /\ p.role = proc[h].role
        /\ p.email = proc[h].email /\ p.todo = proc[h].todo /\ p.first = proc[h].first /\ p.second = proc[h].second /\ p.pc = "list"
    BY <1>0 DEF Fits, Frame
  <2> HIDE DEF p
  <2>4. p.pc = "list" /\ p.op = "updateRole"
    BY <1>0, <2>3, <1>1 DEF Fits, NamesFit, UpdateRole, Doing
  <2>5. Fits(p)
    BY <1>0, <2>2, <2>3, <2>4 DEF Fits, NamesFit, GuardFits, CountFits
  <2>d. DriftTyped'
    <3>1. Team \in Thing /\ "team" \in Cause
      BY DEF Thing, Subject, Cause
    <3>2. drift' = drift \/ drift' = [drift EXCEPT ![Team] = @ \cup {"team"}]
      BY <1>1 DEF UpdateRole
    <3> QED BY <1>0, <3>1, <3>2 DEF DriftTyped
  <2> QED BY <2>1, <2>5, <2>d, FrameStep
<1>2. CASE ListHolders(h)
  <2> DEFINE hs == Holders(proc[h].role)
             t == proc[h].touch \cup hs
  <2>o. proc[h].op = "updateRole"
    BY <1>0, <1>2 DEF ListHolders, At, Fits, NamesFit
  <2>s. hs \subseteq User /\ User \subseteq Thing
    BY DEF Holders, Thing, Subject
  <2>t. t \subseteq Thing \cup Role
    BY <1>0, <2>s DEF Fits, Frame
  <2>h. /\ proc' = Claimed(h, [proc[h] EXCEPT !.pc = "next", !.todo = hs, !.touch = t])
        /\ drift' = drift
    BY <1>2 DEF ListHolders
  <2> HIDE DEF hs, t
  <2> DEFINE q1 == [proc[h] EXCEPT !.pc = "next"]
             q2 == [q1 EXCEPT !.todo = hs]
             p == [q2 EXCEPT !.touch = t]
  <2>1. proc' = Claimed(h, p)
    BY <2>h
  <2>2. p \in Frame
    <3>1. q1 \in Frame
      BY <1>0, FieldTyped DEF Fits, Label
    <3>2. q2 \in Frame
      BY <3>1, FieldTyped, <2>s
    <3> QED BY <3>2, FieldTyped, <2>t
  <2>3. /\ p.op = proc[h].op /\ p.user = proc[h].user /\ p.role = proc[h].role /\ p.email = proc[h].email
        /\ p.pc = "next" /\ p.todo = hs
    BY <1>0 DEF Fits, Frame
  <2> HIDE DEF p
  <2>4. Fits(p)
    BY <1>0, <2>2, <2>3, <2>o, <2>s DEF Fits, NamesFit, GuardFits, CountFits
  <2> QED BY <2>1, <2>4, <2>h, <1>0, ClaimFits DEF DriftTyped
<1>3. CASE ResyncNext(h)
  <2>o. proc[h].op = "updateRole" /\ proc[h].todo \subseteq User
    BY <1>0, <1>3 DEF ResyncNext, At, Fits, NamesFit
  <2>1. CASE Goto(h, "invalidate")
    BY <2>1, <1>3, <1>0, GotoStep DEF ResyncNext, DriftTyped, Label
  <2>2. CASE \E u \in proc[h].todo :
               proc' = [proc EXCEPT ![h].pc = "fgaRead", ![h].user = u, ![h].todo = @ \ {u}]
    <3>u. PICK u \in proc[h].todo :
            proc' = [proc EXCEPT ![h].pc = "fgaRead", ![h].user = u, ![h].todo = @ \ {u}]
      BY <2>2
    <3> DEFINE t == proc[h].todo \ {u}
    <3>h. proc' = [proc EXCEPT ![h].pc = "fgaRead", ![h].user = u, ![h].todo = t] /\ drift' = drift
      BY <3>u, <1>3 DEF ResyncNext
    <3>t. t \subseteq User /\ u \in User
      BY <2>o
    <3> HIDE DEF t
    <3> DEFINE q1 == [proc[h] EXCEPT !.pc = "fgaRead"]
               q2 == [q1 EXCEPT !.user = u]
               p == [q2 EXCEPT !.todo = t]
    <3>1. proc' = [proc EXCEPT ![h] = p] /\ drift' = drift
      BY <3>h
    <3>2. p \in Frame
      <4>1. q1 \in Frame
        BY <1>0, FieldTyped DEF Fits, Label
      <4>2. q2 \in Frame
        BY <4>1, FieldTyped, <3>t
      <4> QED BY <4>2, FieldTyped, <3>t
    <3>3. /\ p.op = proc[h].op /\ p.role = proc[h].role
          /\ p.email = proc[h].email /\ p.first = proc[h].first /\ p.second = proc[h].second /\ p.pc = "fgaRead" /\ p.user = u /\ p.todo = t
      BY <1>0 DEF Fits, Frame
    <3> HIDE DEF p
    <3>4. p.pc = "fgaRead"
      BY <1>0, <3>3, <3>h, <2>o, <3>t DEF Fits, NamesFit
    <3>5. Fits(p)
      BY <1>0, <3>2, <3>3, <3>4, <2>o, <3>t DEF Fits, NamesFit, GuardFits, CountFits
    <3> QED BY <3>1, <3>5, <1>0, FrameStep DEF DriftTyped
  <2> QED BY <1>3, <2>1, <2>2 DEF ResyncNext
<1>4. CASE DeleteRole(h)
  <2> DEFINE r == proc[h].role
             gone == Holders(r)
             t == proc[h].touch \cup gone \cup {Link(u) : u \in gone}
             d == [x \in Thing |-> IF x \in gone \cup TeamIfHolding(r) THEN drift[x] \cup {"cascade"}
                                   ELSE drift[x]]
  <2>g. gone \subseteq User /\ User \subseteq Thing /\ Links \subseteq Thing
    BY DEF Holders, Thing, Subject
  <2>t. t \subseteq Thing \cup Role
    <3>1. {Link(u) : u \in gone} \subseteq Links
      BY <2>g DEF Links
    <3>2. proc[h].touch \subseteq Thing \cup Role
      BY <1>0 DEF Fits, Frame
    <3> QED BY <2>g, <3>1, <3>2
  <2>h. /\ proc' = Claimed(h, [proc[h] EXCEPT !.pc = "invalidate", !.dirty = TRUE, !.touch = t])
        /\ drift' = Orphaned(d, gone)
    BY <1>4 DEF DeleteRole
  <2>d. DriftTyped'
    <3>1. "cascade" \in Cause
      BY DEF Cause
    <3>2. d \in [Thing -> SUBSET Cause]
      BY <1>0, <3>1 DEF DriftTyped
    <3> HIDE DEF d
    <3> QED BY <2>h, <3>2, OrphanedTyped DEF DriftTyped
  <2> HIDE DEF t
  <2> DEFINE q1 == [proc[h] EXCEPT !.pc = "invalidate"]
             q2 == [q1 EXCEPT !.dirty = TRUE]
             p == [q2 EXCEPT !.touch = t]
  <2>1. p \in Frame
    <3>1. q1 \in Frame
      BY <1>0 DEF Fits, Frame, Label
    <3>2. q2 \in Frame
      BY <3>1 DEF Frame
    <3> QED BY <3>2, <2>t DEF Frame
  <2>2. /\ p.op = proc[h].op /\ p.user = proc[h].user /\ p.role = proc[h].role /\ p.email = proc[h].email
        /\ p.todo = proc[h].todo /\ p.pc = "invalidate"
    BY <1>0 DEF Fits, Frame
  <2>3. proc' = Claimed(h, p)
    BY <2>h
  <2> HIDE DEF p
  <2>4. Fits(p)
    BY <1>0, <2>1, <2>2 DEF Fits, NamesFit, GuardFits, CountFits
  <2>5. FramesFit'
    BY <2>3, <2>4, ClaimFits
  <2> QED BY <2>5, <2>d
<1> QED BY <1>1, <1>2, <1>3, <1>4

LEMMA TeamStep ==
  ASSUME TablesTyped, FramesFit, NEW h \in Handler,
         UnlinkAll(h) \/ FailUnlinkAll(h) \/ DeleteTeam(h) \/ ReadLinks(h) \/ DropLinks(h)
  PROVE  FramesFit' /\ DriftTyped'
<1>0. Fits(proc[h]) /\ DriftTyped
  BY DEF FramesFit, TablesTyped, DriftTyped
<1>1. CASE /\ proc' = [proc EXCEPT ![h] = NoCall]
           /\ drift' = Verdict([proc[h] EXCEPT !.dirty = TRUE], {}, {"failure"})
  <2>1. {"failure"} \in SUBSET Cause
    BY DEF Cause
  <2>2. DriftTyped'
    BY <1>0, <1>1, <2>1, VerdictTyped DEF DriftTyped
  <2> QED BY <1>1, <2>2, NoCallFits, FrameStep
<1>2. CASE UnlinkAll(h)
  <2>1. CASE proc' = [proc EXCEPT ![h].pc = "delete", ![h].dirty = TRUE] /\ UNCHANGED drift
    <3> DEFINE q1 == [proc[h] EXCEPT !.pc = "delete"]
               p == [q1 EXCEPT !.dirty = TRUE]
    <3>1. proc' = [proc EXCEPT ![h] = p] /\ drift' = drift
      BY <2>1
    <3>2. p \in Frame
      <4>1. q1 \in Frame
        BY <1>0, <1>2 DEF Fits, Frame, Label
      <4> QED BY <4>1, <1>2 DEF Frame, Label
    <3>3. /\ p.op = proc[h].op /\ p.user = proc[h].user /\ p.role = proc[h].role
          /\ p.email = proc[h].email /\ p.todo = proc[h].todo /\ p.first = proc[h].first /\ p.second = proc[h].second /\ p.pc = "delete"
      BY <1>0 DEF Fits, Frame
    <3> HIDE DEF p
    <3>4. p.pc = "delete" /\ p.op = "deleteTeam"
      BY <1>0, <3>3, <2>1, <1>2 DEF Fits, NamesFit, UnlinkAll, Doing
    <3>5. Fits(p)
      BY <1>0, <3>2, <3>3, <3>4, <1>2 DEF Fits, NamesFit, GuardFits, CountFits
    <3> QED BY <3>1, <3>5, <1>0, FrameStep DEF DriftTyped
  <2> QED BY <1>1, <1>2, <2>1 DEF UnlinkAll
<1>3. CASE DeleteTeam(h)
  BY <1>3, <1>0, GotoStep DEF DeleteTeam, DriftTyped, Label
<1>4. CASE ReadLinks(h)
  <2>m. members \subseteq User /\ members \in SUBSET (User \cup Email)
    BY DEF TablesTyped
  <2>q. proc' = [proc EXCEPT ![h].pc = "dropLinks", ![h].todo = members] /\ drift' = drift
    BY <1>4 DEF ReadLinks
  <2>r. FramesFit' /\ DriftTyped'
    <3> DEFINE q1 == [proc[h] EXCEPT !.pc = "dropLinks"]
               p == [q1 EXCEPT !.todo = members]
    <3>1. proc' = [proc EXCEPT ![h] = p] /\ drift' = drift
      BY <2>q
    <3>2. p \in Frame
      <4>1. q1 \in Frame
        BY <1>0, <2>m DEF Fits, Frame, Label
      <4> QED BY <4>1, <2>m DEF Frame, Label
    <3>3. /\ p.op = proc[h].op /\ p.user = proc[h].user /\ p.role = proc[h].role
          /\ p.email = proc[h].email /\ p.first = proc[h].first /\ p.second = proc[h].second /\ p.pc = "dropLinks" /\ p.todo = members
      BY <1>0 DEF Fits, Frame
    <3> HIDE DEF p
    <3>4. p.pc = "dropLinks"
      BY <1>0, <3>3, <2>q, <2>m DEF Fits, NamesFit
    <3>5. Fits(p)
      BY <1>0, <3>2, <3>3, <3>4, <2>m DEF Fits, NamesFit, GuardFits, CountFits
    <3> QED BY <3>1, <3>5, <1>0, FrameStep DEF DriftTyped
  <2> QED BY <2>r
<1>5. CASE DropLinks(h)
  <2>1. CASE Succeed(h) \/ Fail(h)
    BY <2>1, <1>0, SucceedStep, FailStep
  <2>2. ASSUME NEW t, t \subseteq proc[h].todo, proc' = [proc EXCEPT ![h].todo = t], UNCHANGED drift
        PROVE  FramesFit' /\ DriftTyped'
    <3>t. t \in SUBSET (User \cup Email)
      BY <1>0, <2>2 DEF Fits, Frame
    <3> DEFINE p == [proc[h] EXCEPT !.todo = t]
    <3>1. proc' = [proc EXCEPT ![h] = p] /\ drift' = drift
      BY <2>2
    <3>2. p \in Frame
      BY <1>0, <3>t, FieldTyped DEF Fits
    <3>3. /\ p.op = proc[h].op /\ p.user = proc[h].user /\ p.role = proc[h].role /\ p.pc = proc[h].pc
          /\ p.email = proc[h].email /\ p.first = proc[h].first /\ p.second = proc[h].second /\ p.todo = t
      BY <1>0 DEF Fits, Frame
    <3> HIDE DEF p
    <3>4. Remaining(p) = Remaining(proc[h])
      BY <3>3 DEF Remaining
    <3>5. Fits(p)
      BY <1>0, <2>2, <3>2, <3>3, <3>4 DEF Fits, NamesFit, GuardFits, CountFits
    <3> QED BY <3>1, <3>5, <1>0, FrameStep DEF DriftTyped
  <2>3. PICK b \in Batches(proc[h].todo) :
          LET left == Unsent(proc[h].todo, b) IN
          \/ Succeed(h) \/ Fail(h)
          \/ proc' = [proc EXCEPT ![h].todo = left] /\ UNCHANGED drift
    BY <1>5 DEF DropLinks
  <2>4. Unsent(proc[h].todo, b) \subseteq proc[h].todo
    BY <2>3, BatchIn
  <2> QED BY <2>1, <2>2, <2>3, <2>4
<1> QED BY <1>1, <1>2, <1>3, <1>4, <1>5 DEF FailUnlinkAll

LEMMA CountsNatural ==
  ASSUME TablesTyped
  PROVE  /\ Count \in Nat /\ Cardinality(Pending) \in Nat
         /\ IsFiniteSet({u \in User : IsMember(u)}) /\ IsFiniteSet(Pending)
<1>1. {u \in User : IsMember(u)} \in SUBSET User /\ Pending \in SUBSET Email
  BY DEF Pending
<1>2. IsFiniteSet({u \in User : IsMember(u)}) /\ IsFiniteSet(Pending)
  BY <1>1, OrgMembersAssumption, FS_Subset
<1> QED BY <1>2, FS_CardinalityType DEF Count

LEMMA CountStep ==
  ASSUME TablesTyped, FramesFit, NEW h \in Handler,
         CountMembers(h) \/ CountInvites(h) \/ AssertCount(h) \/ InsertInvite(h)
  PROVE  FramesFit' /\ DriftTyped'
<1>0. Fits(proc[h]) /\ DriftTyped
  BY DEF FramesFit, TablesTyped, DriftTyped
<1>1. CASE CountMembers(h)
  <2> DEFINE v == Count
  <2>v. v \in Nat
    BY CountsNatural
  <2>q. proc' = [proc EXCEPT ![h].first = v] /\ drift' = drift
    BY <1>1 DEF CountMembers
  <2> HIDE DEF v
  <2>r. FramesFit' /\ DriftTyped'
    <3> DEFINE p == [proc[h] EXCEPT !.first = v]
    <3>1. proc' = [proc EXCEPT ![h] = p] /\ drift' = drift
      BY <2>q
    <3>2. p \in Frame
      BY <1>0, <2>v, <1>1 DEF Fits, Frame, Label
    <3>3. /\ p.op = proc[h].op /\ p.user = proc[h].user /\ p.role = proc[h].role
          /\ p.email = proc[h].email /\ p.todo = proc[h].todo /\ p.second = proc[h].second /\ p.first = v
          /\ p.pc = proc[h].pc
      BY <1>0 DEF Fits, Frame
    <3> HIDE DEF p
    <3>4. p.pc = "count"
      BY <1>0, <3>3, <2>q, <2>v, <1>1 DEF Fits, NamesFit, CountMembers, At
    <3>5. Fits(p)
      BY <1>0, <3>2, <3>3, <3>4, <2>v, <1>1 DEF Fits, NamesFit, GuardFits, CountFits
    <3> QED BY <3>1, <3>5, <1>0, FrameStep DEF DriftTyped
  <2> QED BY <2>r
<1>2. CASE CountInvites(h)
  <2> DEFINE v == Cardinality(Pending)
  <2>v. v \in Nat
    BY CountsNatural
  <2>q. proc' = [proc EXCEPT ![h].second = v] /\ drift' = drift
    BY <1>2 DEF CountInvites
  <2> HIDE DEF v
  <2>r. FramesFit' /\ DriftTyped'
    <3> DEFINE p == [proc[h] EXCEPT !.second = v]
    <3>1. proc' = [proc EXCEPT ![h] = p] /\ drift' = drift
      BY <2>q
    <3>2. p \in Frame
      BY <1>0, <2>v, <1>2 DEF Fits, Frame, Label
    <3>3. /\ p.op = proc[h].op /\ p.user = proc[h].user /\ p.role = proc[h].role
          /\ p.email = proc[h].email /\ p.todo = proc[h].todo /\ p.first = proc[h].first /\ p.second = v
          /\ p.pc = proc[h].pc
      BY <1>0 DEF Fits, Frame
    <3> HIDE DEF p
    <3>4. p.pc = "count"
      BY <1>0, <3>3, <2>q, <2>v, <1>2 DEF Fits, NamesFit, CountInvites, At
    <3>5. Fits(p)
      BY <1>0, <3>2, <3>3, <3>4, <2>v, <1>2 DEF Fits, NamesFit, GuardFits, CountFits
    <3> QED BY <3>1, <3>5, <1>0, FrameStep DEF DriftTyped
  <2> QED BY <2>r
<1>3. CASE AssertCount(h)
  <2>1. CASE Fail(h)
    BY <2>1, <1>0, FailStep
  <2>2. CASE ~(Used(proc[h]) + 1 > Limit) /\ Goto(h, "insert") /\ UNCHANGED drift
    <3>a. proc[h].op = "invite" /\ proc[h].first \in Nat /\ proc[h].second \in Nat
      BY <1>0, <1>3 DEF AssertCount, At, Fits, CountFits
    <3>b. proc[h].first + proc[h].second + 1 <= Limit
      BY <2>2, <3>a, OrgMembersAssumption DEF Used
    <3>q. proc' = [proc EXCEPT ![h].pc = "insert"] /\ drift' = drift
      BY <2>2 DEF Goto
    <3> DEFINE p == [proc[h] EXCEPT !.pc = "insert"]
    <3>1. proc' = [proc EXCEPT ![h] = p] /\ drift' = drift
      BY <3>q
    <3>2. p \in Frame
      BY <1>0, <3>a, <3>b DEF Fits, Frame, Label
    <3>3. /\ p.op = proc[h].op /\ p.user = proc[h].user /\ p.role = proc[h].role
          /\ p.email = proc[h].email /\ p.todo = proc[h].todo /\ p.first = proc[h].first /\ p.second = proc[h].second /\ p.pc = "insert"
      BY <1>0 DEF Fits, Frame
    <3> HIDE DEF p
    <3>4. p.pc = "insert"
      BY <1>0, <3>3, <3>q, <3>a, <3>b DEF Fits, NamesFit
    <3>5. Fits(p)
      BY <1>0, <3>2, <3>3, <3>4, <3>a, <3>b DEF Fits, NamesFit, GuardFits, CountFits
    <3> QED BY <3>1, <3>5, <1>0, FrameStep DEF DriftTyped
  <2> QED BY <1>3, <2>1, <2>2 DEF AssertCount
<1>4. CASE InsertInvite(h)
  BY <1>4, <1>0, SucceedStep, FailStep DEF InsertInvite
<1> QED BY <1>1, <1>2, <1>3, <1>4

LEMMA InviteStep ==
  ASSUME TablesTyped, FramesFit, NEW h \in Handler,
         \/ FindMembership(h) \/ InsertUser(h) \/ MarkAccepted(h) \/ MatchMembers(h) \/ MarkMatched(h)
  PROVE  FramesFit' /\ DriftTyped'
<1>0. Fits(proc[h]) /\ DriftTyped
  BY DEF FramesFit, TablesTyped, DriftTyped
<1>1. CASE FindMembership(h)
  <2>1. proc[h].op = "accept"
    BY <1>0, <1>1 DEF FindMembership, At, Fits, NamesFit
  <2>2. Goto(h, "mark") \/ Goto(h, "insert")
    BY <1>1 DEF FindMembership
  <2> QED BY <1>0, <1>1, <2>1, <2>2, GotoStep DEF FindMembership, DriftTyped, Label
<1>2. CASE InsertUser(h)
  <2>1. CASE Fail(h)
    BY <2>1, <1>0, FailStep
  <2>2. CASE \E u \in User :
               /\ proc' = [proc EXCEPT ![h].user = u, ![h].touch = @ \cup {u, Link(u)}, ![h].pc = "role", ![h].dirty = TRUE]
               /\ UNCHANGED drift
    <3>u. PICK u \in User :
            /\ proc' = [proc EXCEPT ![h].user = u, ![h].touch = @ \cup {u, Link(u)}, ![h].pc = "role", ![h].dirty = TRUE]
            /\ UNCHANGED drift
      BY <2>2
    <3> DEFINE t == proc[h].touch \cup {u, Link(u)}
    <3>a. Link(u) \in Thing /\ u \in Thing
      BY DEF Thing, Subject, Links
    <3>t. t \subseteq Thing \cup Role
      BY <1>0, <3>a DEF Fits, Frame
    <3>q. /\ proc' = [proc EXCEPT ![h].user = u, ![h].touch = t, ![h].pc = "role", ![h].dirty = TRUE]
          /\ UNCHANGED drift
      BY <3>u
    <3> HIDE DEF t
    <3> DEFINE q1 == [proc[h] EXCEPT !.user = u]
               q2 == [q1 EXCEPT !.touch = t]
               q3 == [q2 EXCEPT !.pc = "role"]
               p == [q3 EXCEPT !.dirty = TRUE]
    <3>1. proc' = [proc EXCEPT ![h] = p] /\ drift' = drift
      BY <3>q
    <3>2. p \in Frame
      <4>1. q1 \in Frame
        BY <1>0, <3>t, <1>2, FieldTyped DEF Fits
      <4>2. q2 \in Frame
        BY <4>1, <3>t, FieldTyped
      <4>3. q3 \in Frame
        BY <4>2, FieldTyped DEF Label
      <4> QED BY <4>3, FieldTyped
    <3>3. /\ p.op = proc[h].op /\ p.role = proc[h].role
          /\ p.email = proc[h].email /\ p.todo = proc[h].todo /\ p.first = proc[h].first /\ p.second = proc[h].second /\ p.user = u /\ p.pc = "role"
      BY <1>0 DEF Fits, Frame
    <3> HIDE DEF p
    <3>4. p.pc = "role" /\ p.op = "accept"
      BY <1>0, <3>3, <3>q, <3>t, <1>2 DEF Fits, NamesFit, InsertUser, Doing
    <3>5. Fits(p)
      BY <1>0, <3>2, <3>3, <3>4, <3>t, <1>2 DEF Fits, NamesFit, GuardFits, CountFits
    <3> QED BY <3>1, <3>5, <1>0, FrameStep DEF DriftTyped
  <2> QED BY <1>2, <2>1, <2>2 DEF InsertUser
<1>3. CASE MarkAccepted(h) \/ MarkMatched(h)
  BY <1>3, <1>0, SucceedStep DEF MarkAccepted, MarkMatched
<1>4. CASE MatchMembers(h)
  <2> DEFINE t == {e \in proc[h].todo : HasMember(e)}
  <2>o. t \subseteq proc[h].todo /\ t \in SUBSET (User \cup Email)
    BY <1>0 DEF Fits, Frame
  <2>q. proc' = [proc EXCEPT ![h].pc = "mark", ![h].todo = t] /\ drift' = drift
    BY <1>4 DEF MatchMembers
  <2> HIDE DEF t
  <2>r. FramesFit' /\ DriftTyped'
    <3> DEFINE q1 == [proc[h] EXCEPT !.pc = "mark"]
               p == [q1 EXCEPT !.todo = t]
    <3>1. proc' = [proc EXCEPT ![h] = p] /\ drift' = drift
      BY <2>q
    <3>2. p \in Frame
      <4>1. q1 \in Frame
        BY <1>0, <2>o DEF Fits, Frame, Label
      <4> QED BY <4>1, <2>o DEF Frame, Label
    <3>3. /\ p.op = proc[h].op /\ p.user = proc[h].user /\ p.role = proc[h].role
          /\ p.email = proc[h].email /\ p.first = proc[h].first /\ p.second = proc[h].second /\ p.pc = "mark" /\ p.todo = t
      BY <1>0 DEF Fits, Frame
    <3> HIDE DEF p
    <3>4. p.pc = "mark"
      BY <1>0, <3>3, <2>q, <2>o DEF Fits, NamesFit
    <3>5. Fits(p)
      BY <1>0, <3>2, <3>3, <3>4, <2>o DEF Fits, NamesFit, GuardFits, CountFits
    <3> QED BY <3>1, <3>5, <1>0, FrameStep DEF DriftTyped
  <2> QED BY <2>r
<1> QED BY <1>1, <1>2, <1>3, <1>4

LEMMA FaultStep ==
  ASSUME TablesTyped, FramesFit, NEW h \in Handler, FailCall(h) \/ LoseReply(h) \/ Crash(h)
  PROVE  FramesFit' /\ DriftTyped'
<1>0. Fits(proc[h]) /\ DriftTyped
  BY DEF FramesFit, TablesTyped, DriftTyped
<1>1. CASE FailCall(h)
  <2>1. Throw(h, Begun(h)) \/ Succeed(h) \/ Fail(h)
    BY <1>1 DEF FailCall
  <2>2. Begun(h) \in BOOLEAN
    BY DEF Begun
  <2> QED BY <2>1, <2>2, <1>0, ThrowStep, SucceedStep, FailStep
<1>2. CASE LoseReply(h)
  <2>1. CASE Throw(h, TRUE)
    BY <2>1, <1>0, ThrowStep
  <2>2. CASE /\ proc' = [proc EXCEPT ![h] = NoCall]
             /\ drift' = Verdict([proc[h] EXCEPT !.dirty = TRUE], {}, {"failure"})
    <3>1. {"failure"} \in SUBSET Cause
      BY DEF Cause
    <3>2. DriftTyped'
      BY <1>0, <2>2, <3>1, VerdictTyped DEF DriftTyped
    <3> QED BY <2>2, <3>2, NoCallFits, FrameStep
  <2> QED BY <1>2, <2>1, <2>2 DEF LoseReply
<1>3. CASE Crash(h)
  <2>1. {"crash"} \in SUBSET Cause
    BY DEF Cause
  <2> QED BY <1>3, <2>1, <1>0, EndStep DEF Crash
<1> QED BY <1>1, <1>2, <1>3

LEMMA BeginStep ==
  ASSUME TablesTyped, RolesExist, FramesFit, NEW h \in Handler,
         BeginOnUser(h) \/ BeginOnTeam(h) \/ BeginOnRole(h) \/ BeginOnInvite(h)
  PROVE  FramesFit' /\ DriftTyped'
<1>1. drift' = drift
  BY DEF BeginOnUser, BeginOnTeam, BeginOnRole, BeginOnInvite, Enter
<1>2. FramesFit'
  BY BeginOnUserStep, BeginOnTeamStep, BeginOnRoleStep, BeginOnInviteStep
<1> QED BY <1>1, <1>2 DEF TablesTyped, DriftTyped

LEMMA CallStep ==
  ASSUME TablesTyped, RolesExist, FramesFit, NEW h \in Handler, Serve(h)
  PROVE  FramesFit' /\ DriftTyped'
BY BeginStep, GuardStep, RemovalStep, TupleStep, LookupStep, WriteStep, UndoStep, RoleStep, TeamStep,
   CountStep, InviteStep, FaultStep DEF Serve

-----------------------------------------------------------------------------
(* Steps that leave the rows alone.                                        *)

TablesFit == TablesTyped /\ RolesExist /\ OneMember

LEMMA QuietStep ==
  ASSUME TablesFit, UNCHANGED rows, DriftTyped',
         cached' \in [Role -> (SUBSET Flag) \cup {Nothing}],
         fga' \in [Subject -> SUBSET Tuple], members' \subseteq User
  PROVE  TablesFit'
<1>1. TablesTyped'
  BY DEF TablesFit, TablesTyped, DriftTyped, rows, IsMember
<1>2. RolesExist'
  BY DEF TablesFit, RolesExist, rows, IsMember
<1>3. OneMember'
  BY DEF TablesFit, OneMember, rows, IsMember
<1> QED BY <1>1, <1>2, <1>3 DEF TablesFit

LEMMA StillStep ==
  ASSUME TablesFit, UNCHANGED <<rows, cached, tuples>>, DriftTyped'
  PROVE  TablesFit'
<1>1. /\ cached' \in [Role -> (SUBSET Flag) \cup {Nothing}]
      /\ fga' \in [Subject -> SUBSET Tuple] /\ members' \subseteq User
  BY DEF TablesFit, TablesTyped, tuples
<1> QED BY <1>1, QuietStep

LEMMA ReadingStep ==
  ASSUME TablesFit, FramesFit, NEW h \in Handler, DriftTyped',
         \/ BeginOnUser(h) \/ BeginOnTeam(h) \/ BeginOnRole(h) \/ BeginOnInvite(h)
         \/ ReadUsers(h) \/ ReadTeamMembers(h) \/ EnsureOrgHasAdmin(h)
         \/ ReadTuples(h) \/ LookupRole(h) \/ ListHolders(h) \/ ResyncNext(h) \/ Return(h)
         \/ ReadLinks(h) \/ CountMembers(h) \/ CountInvites(h) \/ AssertCount(h)
         \/ FindMembership(h) \/ MatchMembers(h) \/ FailCall(h) \/ Crash(h)
  PROVE  TablesFit'
<1>1. CASE BeginOnUser(h) \/ BeginOnTeam(h) \/ BeginOnRole(h) \/ BeginOnInvite(h)
  BY <1>1, StillStep DEF BeginOnUser, BeginOnTeam, BeginOnRole, BeginOnInvite, Enter
<1>2. CASE ReadUsers(h) \/ ReadTeamMembers(h) \/ EnsureOrgHasAdmin(h) \/ ReadTuples(h) \/ LookupRole(h)
  BY <1>2, StillStep DEF ReadUsers, ReadTeamMembers, EnsureOrgHasAdmin, ReadTuples, LookupRole
<1>3. CASE ListHolders(h) \/ ResyncNext(h) \/ Return(h) \/ ReadLinks(h)
  BY <1>3, StillStep DEF ListHolders, ResyncNext, Return, ReadLinks
<1>4. CASE CountMembers(h) \/ CountInvites(h) \/ AssertCount(h) \/ FindMembership(h) \/ MatchMembers(h)
  BY <1>4, StillStep DEF CountMembers, CountInvites, AssertCount, FindMembership, MatchMembers
<1>5. CASE FailCall(h) \/ Crash(h)
  BY <1>5, StillStep DEF FailCall, Crash
<1> QED BY <1>1, <1>2, <1>3, <1>4, <1>5

LEMMA CacheStep ==
  ASSUME TablesFit, FramesFit, NEW h \in Handler, DriftTyped', FillCache(h) \/ InvalidateRole(h)
  PROVE  TablesFit'
<1>1. proc[h].look \in SUBSET Flag
  BY DEF FramesFit, Fits, Frame
<1>2. PICK v \in (SUBSET Flag) \cup {Nothing} : cached' = [cached EXCEPT ![proc[h].role] = v]
  BY <1>1 DEF FillCache, InvalidateRole
<1>3. cached' \in [Role -> (SUBSET Flag) \cup {Nothing}]
  BY <1>2 DEF TablesFit, TablesTyped
<1>4. fga' \in [Subject -> SUBSET Tuple] /\ members' \subseteq User /\ UNCHANGED rows
  BY DEF TablesFit, TablesTyped, tuples, FillCache, InvalidateRole
<1> QED BY <1>3, <1>4, QuietStep

LEMMA ExpireStep ==
  ASSUME TablesFit, FramesFit, Expire
  PROVE  TablesFit' /\ FramesFit'
<1>1. cached' \in [Role -> (SUBSET Flag) \cup {Nothing}]
  BY DEF TablesFit, TablesTyped, Expire
<1>2. /\ fga' \in [Subject -> SUBSET Tuple] /\ members' \subseteq User /\ UNCHANGED rows
      /\ DriftTyped' /\ proc' = proc
  BY DEF TablesFit, TablesTyped, DriftTyped, tuples, Expire
<1> QED BY <1>1, <1>2, QuietStep DEF FramesFit

LEMMA TuplesStep ==
  ASSUME TablesFit, FramesFit, NEW h \in Handler, DriftTyped',
         \/ DeleteTuples(h) \/ WriteTuples(h) \/ LinkTuple(h) \/ UnlinkTuple(h)
         \/ UnlinkAll(h) \/ FailUnlinkAll(h) \/ DropLinks(h) \/ LoseReply(h)
  PROVE  TablesFit'
<1> DEFINE s == Subj(h)
<1>1. fga \in [Subject -> SUBSET Tuple] /\ members \subseteq User
  BY DEF TablesFit, TablesTyped
<1>2. UNCHANGED rows /\ cached' \in [Role -> (SUBSET Flag) \cup {Nothing}]
  <2>1. cached \in [Role -> (SUBSET Flag) \cup {Nothing}]
    BY DEF TablesFit, TablesTyped
  <2> QED BY <2>1 DEF DeleteTuples, WriteTuples, LinkTuple, UnlinkTuple, UnlinkAll, FailUnlinkAll,
                      DropLinks, LoseReply
<1>3. \A b \in Batches(proc[h].got) : b \in SUBSET Tuple
  BY BatchIn DEF FramesFit, Fits, Frame
<1>4. \/ fga' = fga
      \/ \E b \in Batches(proc[h].got) : \/ fga' = [fga EXCEPT ![s] = @ \ b]
                                         \/ fga' = [fga EXCEPT ![s] = @ \cup b]
  <2>1. CASE DeleteTuples(h) \/ WriteTuples(h)
    BY <2>1 DEF DeleteTuples, WriteTuples
  <2>2. CASE LinkTuple(h) \/ UnlinkTuple(h) \/ UnlinkAll(h) \/ FailUnlinkAll(h) \/ DropLinks(h)
    BY <2>2 DEF LinkTuple, UnlinkTuple, UnlinkAll, FailUnlinkAll, DropLinks
  <2>3. CASE LoseReply(h)
    BY <2>3 DEF LoseReply
  <2> QED BY <2>1, <2>2, <2>3
<1>5. fga' \in [Subject -> SUBSET Tuple]
  <2>1. CASE fga' = fga
    BY <1>1, <2>1
  <2>2. ASSUME NEW b \in SUBSET Tuple, \/ fga' = [fga EXCEPT ![s] = @ \ b]
                                      \/ fga' = [fga EXCEPT ![s] = @ \cup b]
        PROVE  fga' \in [Subject -> SUBSET Tuple]
    BY <1>1, <2>2
  <2> QED BY <1>3, <1>4, <2>1, <2>2
<1>6. members' \subseteq members \/ (At(h, "link") /\ members' = members \cup {proc[h].user})
  <2>1. CASE DeleteTuples(h) \/ WriteTuples(h)
    BY <2>1 DEF DeleteTuples, WriteTuples
  <2>2. CASE LinkTuple(h) \/ UnlinkTuple(h) \/ UnlinkAll(h) \/ FailUnlinkAll(h)
    BY <2>2 DEF LinkTuple, UnlinkTuple, UnlinkAll, FailUnlinkAll
  <2>3. CASE DropLinks(h)
    BY <2>3 DEF DropLinks
  <2>4. CASE LoseReply(h)
    BY <2>4 DEF LoseReply
  <2> QED BY <2>1, <2>2, <2>3, <2>4
<1>7. At(h, "link") => proc[h].user \in User
  BY DEF At, FramesFit, Fits, NamesFit
<1>8. members' \subseteq User
  BY <1>1, <1>6, <1>7
<1> QED BY <1>2, <1>5, <1>8, QuietStep

-----------------------------------------------------------------------------
(* Steps that change the rows.                                             *)

\* What does not depend on the users, the roster, the team, the roles and the
\* invites.
LEMMA RowStep ==
  ASSUME TablesFit, DriftTyped', UNCHANGED <<cached, tuples>>,
         role' \in [Role -> (SUBSET Flag) \cup {Absent}],
         users' \in [User -> Role \cup {Absent}],
         mail' \in [User -> Email \cup {Nothing, "founder"}],
         team' \in [live : BOOLEAN, role : Role \cup {NoRole}],
         roster' \subseteq {u \in User : users'[u] # Absent},
         invites' \in [Email -> [status : {"none", "pending", "accepted"}, role : Role \cup {NoRole}]],
         RolesExist', OneMember'
  PROVE  TablesFit'
BY DEF TablesFit, TablesTyped, DriftTyped, tuples, IsMember

\* Users go, alone or with their role, and nobody else changes.
LEMMA UsersGo ==
  ASSUME TablesFit, NEW gone \in SUBSET User, UNCHANGED mail,
         users' = [u \in User |-> IF u \in gone THEN Absent ELSE users[u]],
         roster' \subseteq roster \ gone
  PROVE  /\ users' \in [User -> Role \cup {Absent}]
         /\ roster' \subseteq {u \in User : users'[u] # Absent}
         /\ OneMember'
         /\ \A u \in User : users'[u] # Absent => users'[u] = users[u]
<1>1. \A u \in User : users'[u] # Absent => users'[u] = users[u] /\ u \notin gone
  OBVIOUS
<1>2. users' \in [User -> Role \cup {Absent}]
  BY DEF TablesFit, TablesTyped
<1>3. roster' \subseteq {u \in User : users'[u] # Absent}
  BY DEF TablesFit, TablesTyped, IsMember
<1>4. OneMember'
  BY <1>1 DEF TablesFit, OneMember, IsMember
<1> QED BY <1>1, <1>2, <1>3, <1>4

LEMMA OneGone ==
  ASSUME TablesFit, NEW v, users' = [users EXCEPT ![v] = Absent]
  PROVE  users' = [u \in User |-> IF u \in {v} \cap User THEN Absent ELSE users[u]]
BY DEF TablesFit, TablesTyped

LEMMA DeleteUserStep ==
  ASSUME TablesFit, FramesFit, NEW h \in Handler, DriftTyped', DeleteUser(h) \/ Undo(h)
  PROVE  TablesFit'
<1> DEFINE v == proc[h].user
<1>0. /\ UNCHANGED <<role, mail, team, invites, cached, tuples>>
      /\ roster' = roster \ {v}
      /\ users' = [users EXCEPT ![v] = Absent] \/ users' = users
  BY DEF DeleteUser, Undo
<1>1. CASE users' = [users EXCEPT ![v] = Absent]
  <2>1. /\ users' = [u \in User |-> IF u \in {v} \cap User THEN Absent ELSE users[u]]
        /\ roster' \subseteq roster \ ({v} \cap User)
    BY <1>0, <1>1, OneGone
  <2>2. /\ users' \in [User -> Role \cup {Absent}]
        /\ roster' \subseteq {u \in User : users'[u] # Absent}
        /\ OneMember'
        /\ \A u \in User : users'[u] # Absent => users'[u] = users[u]
    BY <1>0, <2>1, UsersGo
  <2>3. RolesExist'
    BY <1>0, <2>2 DEF TablesFit, RolesExist, IsMember
  <2> QED BY <1>0, <2>2, <2>3, RowStep DEF TablesFit, TablesTyped
<1>2. CASE users' = users
  <2>1. roster' \subseteq {u \in User : users'[u] # Absent}
    BY <1>0, <1>2 DEF TablesFit, TablesTyped, IsMember
  <2>2. RolesExist' /\ OneMember'
    BY <1>0, <1>2 DEF TablesFit, RolesExist, OneMember, IsMember
  <2> QED BY <1>0, <1>2, <2>1, <2>2, RowStep DEF TablesFit, TablesTyped
<1> QED BY <1>0, <1>1, <1>2

LEMMA RosterStep ==
  ASSUME TablesFit, FramesFit, NEW h \in Handler, DriftTyped',
         RemoveTeamMember(h) \/ AddTeamMember(h) \/ DeleteTeam(h) \/ UpdateTeamRole(h)
  PROVE  TablesFit'
<1>0. UNCHANGED <<role, users, mail, invites, cached, tuples>>
  BY DEF RemoveTeamMember, AddTeamMember, DeleteTeam, UpdateTeamRole
<1>1. roster' \subseteq {u \in User : users'[u] # Absent}
  <2>1. roster' \subseteq roster \/ (roster' = roster \cup {proc[h].user} /\ IsMember(proc[h].user)
                                      /\ proc[h].op = "addMember")
    BY DEF RemoveTeamMember, AddTeamMember, DeleteTeam, UpdateTeamRole, Doing
  <2>2. proc[h].op = "addMember" => proc[h].user \in User
    BY DEF FramesFit, Fits, NamesFit
  <2> QED BY <1>0, <2>1, <2>2 DEF TablesFit, TablesTyped, IsMember
<1>2. /\ team' \in [live : BOOLEAN, role : Role \cup {NoRole}]
      /\ team'.role \in Role => role[team'.role] # Absent
  <2>1. CASE team' = team
    BY <2>1 DEF TablesFit, TablesTyped, RolesExist
  <2>2. CASE team' = [live |-> FALSE, role |-> NoRole]
    BY <2>2, OrgMembersAssumption
  <2>3. CASE UpdateTeamRole(h) /\ team' # team
    <3> DEFINE r == IF proc[h].op = "setTeamRole" THEN proc[h].role ELSE NoRole
    <3>1. r \in Role \cup {NoRole}
      BY DEF FramesFit, Fits, NamesFit
    <3>2. team' = [team EXCEPT !.role = r] /\ (r # NoRole => role[r] # Absent)
      BY <2>3 DEF UpdateTeamRole
    <3> HIDE DEF r
    <3>3. team' \in [live : BOOLEAN, role : Role \cup {NoRole}] /\ team'.role = r
      BY <3>1, <3>2 DEF TablesFit, TablesTyped
    <3> QED BY <3>2, <3>3, OrgMembersAssumption
  <2> QED BY <2>1, <2>2, <2>3 DEF RemoveTeamMember, AddTeamMember, DeleteTeam
<1>3. RolesExist' /\ OneMember'
  BY <1>0, <1>2 DEF TablesFit, RolesExist, OneMember, IsMember
<1> QED BY <1>0, <1>1, <1>2, <1>3, RowStep DEF TablesFit, TablesTyped

LEMMA UserRoleStep ==
  ASSUME TablesFit, FramesFit, NEW h \in Handler, DriftTyped', UpdateUserRole(h)
  PROVE  TablesFit'
<1> DEFINE u == proc[h].user
           r == proc[h].role
<1>0. UNCHANGED <<role, mail, team, roster, invites, cached, tuples>>
  BY DEF UpdateUserRole
<1>1. r \in Role /\ u \in User
  BY DEF UpdateUserRole, Doing, FramesFit, Fits, NamesFit
<1>2. \/ users' = users
      \/ (users' = [users EXCEPT ![u] = r] /\ users[u] # Absent /\ role[r] # Absent)
  BY DEF UpdateUserRole, IsMember
<1>3. users' \in [User -> Role \cup {Absent}]
  BY <1>1, <1>2 DEF TablesFit, TablesTyped
<1>4. \A v \in User : /\ (users'[v] # Absent) <=> (users[v] # Absent)
                      /\ users'[v] = users[v] \/ (users'[v] = r /\ role[r] # Absent)
  BY <1>1, <1>2, OrgMembersAssumption DEF TablesFit, TablesTyped
<1>5. roster' \subseteq {v \in User : users'[v] # Absent}
  BY <1>0, <1>4 DEF TablesFit, TablesTyped, IsMember
<1>6. RolesExist'
  BY <1>0, <1>4 DEF TablesFit, RolesExist, IsMember
<1>7. OneMember'
  BY <1>0, <1>4 DEF TablesFit, OneMember, IsMember
<1> QED BY <1>0, <1>3, <1>5, <1>6, <1>7, RowStep DEF TablesFit, TablesTyped

LEMMA FlagsStep ==
  ASSUME TablesFit, FramesFit, NEW h \in Handler, DriftTyped', UpdateRole(h)
  PROVE  TablesFit'
<1> DEFINE r == proc[h].role
<1>0. UNCHANGED <<users, mail, team, roster, invites, cached, tuples>>
  BY DEF UpdateRole
<1>1. proc[h].flags \in SUBSET Flag /\ r \in Role
  BY DEF UpdateRole, Doing, FramesFit, Fits, NamesFit, Frame
<1>2. proc[h].flags # Absent
  BY <1>1, OrgMembersAssumption DEF Flag
<1>3. role' = role \/ (role' = [role EXCEPT ![r] = proc[h].flags] /\ role[r] # Absent)
  BY DEF UpdateRole
<1>4. role' \in [Role -> (SUBSET Flag) \cup {Absent}]
  BY <1>1, <1>3 DEF TablesFit, TablesTyped
<1>5. \A s \in Role : (role'[s] # Absent) <=> (role[s] # Absent)
  BY <1>1, <1>2, <1>3 DEF TablesFit, TablesTyped
<1>6. RolesExist' /\ OneMember'
  <2>1. \A u \in User : IsMember(u) => users[u] \in Role
    BY DEF TablesFit, TablesTyped, IsMember
  <2> QED BY <1>0, <1>5, <2>1 DEF TablesFit, RolesExist, OneMember, IsMember
<1>7. roster' \subseteq {v \in User : users'[v] # Absent}
  BY <1>0 DEF TablesFit, TablesTyped, IsMember
<1> QED BY <1>0, <1>4, <1>6, <1>7, RowStep DEF TablesFit, TablesTyped

LEMMA DeleteRoleStep ==
  ASSUME TablesFit, FramesFit, NEW h \in Handler, DriftTyped', DeleteRole(h)
  PROVE  TablesFit'
<1> DEFINE r == proc[h].role
           gone == Holders(r)
<1>0. /\ UNCHANGED <<mail, cached, tuples>>
      /\ role' = [role EXCEPT ![r] = Absent]
      /\ users' = [u \in User |-> IF u \in gone THEN Absent ELSE users[u]]
      /\ roster' = roster \ gone
      /\ team' = IF team.role = r THEN [team EXCEPT !.role = NoRole] ELSE team
      /\ invites' = [e \in Email |-> IF invites[e].role = r THEN NoInvite ELSE invites[e]]
  BY DEF DeleteRole
<1>1. gone \in SUBSET User /\ \A u \in User : u \in gone <=> users[u] = r
  BY DEF Holders
<1>2. /\ users' \in [User -> Role \cup {Absent}]
      /\ roster' \subseteq {u \in User : users'[u] # Absent}
      /\ OneMember'
      /\ \A u \in User : users'[u] # Absent => users'[u] = users[u]
  BY <1>0, <1>1, UsersGo
<1>3. \A u \in User : users'[u] # Absent => users[u] # r
  BY <1>0, <1>1
<1>4. /\ role' \in [Role -> (SUBSET Flag) \cup {Absent}]
      /\ \A s \in Role : s # r => role'[s] = role[s]
  BY <1>0 DEF TablesFit, TablesTyped
<1>5. /\ team' \in [live : BOOLEAN, role : Role \cup {NoRole}]
      /\ team'.role \in Role => team'.role = team.role /\ team.role # r
  BY <1>0, OrgMembersAssumption DEF TablesFit, TablesTyped
<1>6. NoInvite \in [status : {"none", "pending", "accepted"}, role : Role \cup {NoRole}]
      /\ NoInvite.role \notin Role
  BY OrgMembersAssumption DEF NoInvite
<1>7. invites' \in [Email -> [status : {"none", "pending", "accepted"}, role : Role \cup {NoRole}]]
  BY <1>0, <1>6 DEF TablesFit, TablesTyped
<1>8. \A e \in Email : invites'[e] = NoInvite \/ (invites'[e] = invites[e] /\ invites[e].role # r)
  BY <1>0
<1>9. RolesExist'
  <2>1. \A u \in User : users'[u] # Absent => users'[u] \in Role
    BY <1>2
  <2>2. \A u \in User : users'[u] # Absent => role'[users'[u]] # Absent
    BY <1>2, <1>3, <1>4, <2>1 DEF TablesFit, RolesExist, IsMember
  <2>3. team'.role \in Role => role'[team'.role] # Absent
    BY <1>4, <1>5 DEF TablesFit, RolesExist
  <2>4. \A e \in Email : invites'[e].role \in Role => role'[invites'[e].role] # Absent
    BY <1>4, <1>6, <1>8 DEF TablesFit, RolesExist
  <2>5. \A e \in Email : invites'[e].role \notin Role => invites'[e] = NoInvite
    BY <1>8 DEF TablesFit, RolesExist
  <2> QED BY <2>2, <2>3, <2>4, <2>5 DEF RolesExist, IsMember
<1> HIDE DEF gone, r
<1> QED BY <1>0, <1>2, <1>4, <1>5, <1>7, <1>9, RowStep DEF TablesFit, TablesTyped

\* Invites come, change and go with roles that exist.
LEMMA InvitesStep ==
  ASSUME TablesFit, UNCHANGED <<role, users, mail, team, roster, cached, tuples>>, DriftTyped',
         invites' = [e \in Email |-> invites'[e]],
         \A e \in Email :
           \/ invites'[e] = invites[e] \/ invites'[e] = NoInvite
           \/ /\ invites'[e] \in [status : {"none", "pending", "accepted"}, role : Role]
              /\ role[invites'[e].role] # Absent
  PROVE  TablesFit'
<1>1. NoInvite \in [status : {"none", "pending", "accepted"}, role : Role \cup {NoRole}]
      /\ NoInvite.role \notin Role
  BY OrgMembersAssumption DEF NoInvite
<1>2. invites' \in [Email -> [status : {"none", "pending", "accepted"}, role : Role \cup {NoRole}]]
  <2>1. \A e \in Email : invites'[e] \in [status : {"none", "pending", "accepted"}, role : Role \cup {NoRole}]
    BY <1>1 DEF TablesFit, TablesTyped
  <2> QED BY <2>1
<1>3. RolesExist'
  BY <1>1 DEF TablesFit, RolesExist, IsMember
<1>4. OneMember' /\ roster' \subseteq {u \in User : users'[u] # Absent}
  BY DEF TablesFit, TablesTyped, OneMember, IsMember
<1> QED BY <1>2, <1>3, <1>4, RowStep DEF TablesFit, TablesTyped

LEMMA InviteRows ==
  ASSUME TablesFit, FramesFit, NEW h \in Handler, DriftTyped',
         InsertInvite(h) \/ MarkAccepted(h) \/ MarkMatched(h)
  PROVE  TablesFit'
<1>0. UNCHANGED <<role, users, mail, team, roster, cached, tuples>>
  BY DEF InsertInvite, MarkAccepted, MarkMatched
<1>a. \A e \in Email :
        invites[e] # NoInvite =>
          /\ invites[e].role \in Role /\ role[invites[e].role] # Absent
          /\ [invites[e] EXCEPT !.status = "accepted"]
               \in [status : {"none", "pending", "accepted"}, role : Role]
          /\ [invites[e] EXCEPT !.status = "accepted"].role = invites[e].role
  <2>1. ASSUME NEW e \in Email, invites[e] # NoInvite
        PROVE  /\ invites[e].role \in Role /\ role[invites[e].role] # Absent
               /\ invites[e] \in [status : {"none", "pending", "accepted"}, role : Role \cup {NoRole}]
    BY <2>1 DEF TablesFit, TablesTyped, RolesExist
  <2> QED BY <2>1
<1>b. invites = [e \in Email |-> invites[e]]
  BY DEF TablesFit, TablesTyped
<1>1. CASE InsertInvite(h)
  <2> DEFINE e == proc[h].email
             r == proc[h].role
             i == [status |-> "pending", role |-> r]
  <2>1. e \in Email /\ r \in Role
    BY <1>1 DEF InsertInvite, Doing, FramesFit, Fits, NamesFit
  <2>2. invites' = invites \/ (invites' = [invites EXCEPT ![e] = i] /\ role[r] # Absent)
    BY <1>1 DEF InsertInvite
  <2>3. i \in [status : {"none", "pending", "accepted"}, role : Role] /\ i.role = r
    BY <2>1
  <2> HIDE DEF i, e, r
  <2>4. /\ invites' = [x \in Email |-> invites'[x]]
        /\ \A x \in Email : invites'[x] = invites[x] \/ (invites'[x] = i /\ role[r] # Absent)
    BY <1>b, <2>1, <2>2
  <2> QED BY <1>0, <2>3, <2>4, InvitesStep
<1>2. CASE MarkAccepted(h)
  <2> DEFINE e == proc[h].email
  <2>1. e \in Email
    BY <1>2 DEF MarkAccepted, Doing, FramesFit, Fits, NamesFit
  <2>a. invites' = [invites EXCEPT ![e] = IF @ = NoInvite THEN @ ELSE [@ EXCEPT !.status = "accepted"]]
    BY <1>2 DEF MarkAccepted
  <2>b. \A x \in Email : invites'[x] = IF x # e THEN invites[x]
                                         ELSE IF invites[x] = NoInvite THEN invites[x]
                                         ELSE [invites[x] EXCEPT !.status = "accepted"]
    BY <1>b, <2>1, <2>a
  <2>3. /\ invites' = [x \in Email |-> invites'[x]]
        /\ \A x \in Email : \/ invites'[x] = invites[x]
                             \/ (invites'[x] = [invites[x] EXCEPT !.status = "accepted"] /\ invites[x] # NoInvite)
    BY <1>b, <2>a, <2>b
  <2>4. \A x \in Email : \/ invites'[x] = invites[x]
                          \/ /\ invites'[x] \in [status : {"none", "pending", "accepted"}, role : Role]
                             /\ role[invites'[x].role] # Absent
    BY <1>a, <2>3
  <2> QED BY <1>0, <2>3, <2>4, InvitesStep
<1>3. CASE MarkMatched(h)
  <2>1. invites' = [e \in Email |-> IF e \in proc[h].todo /\ invites[e] # NoInvite
                                    THEN [invites[e] EXCEPT !.status = "accepted"] ELSE invites[e]]
    BY <1>3 DEF MarkMatched
  <2>m. \A x \in Email : invites'[x] = IF x \in proc[h].todo /\ invites[x] # NoInvite
                                         THEN [invites[x] EXCEPT !.status = "accepted"] ELSE invites[x]
    BY <2>1
  <2>2. /\ invites' = [x \in Email |-> invites'[x]]
        /\ \A x \in Email : \/ invites'[x] = invites[x]
                             \/ (invites'[x] = [invites[x] EXCEPT !.status = "accepted"] /\ invites[x] # NoInvite)
    BY <2>1, <2>m
  <2>3. \A x \in Email : \/ invites'[x] = invites[x]
                          \/ /\ invites'[x] \in [status : {"none", "pending", "accepted"}, role : Role]
                             /\ role[invites'[x].role] # Absent
    BY <1>a, <2>2
  <2> QED BY <1>0, <2>2, <2>3, InvitesStep
<1> QED BY <1>1, <1>2, <1>3

LEMMA InviteEdits ==
  ASSUME TablesFit, NEW e \in Email,
         DeleteInvite(e) \/ \E r \in Role : UpdateInvite(e, r)
  PROVE  TablesFit'
<1>0. UNCHANGED <<role, users, mail, team, roster, cached, tuples, drift>>
  BY DEF DeleteInvite, UpdateInvite
<1>1. DriftTyped'
  BY <1>0 DEF TablesFit, TablesTyped, DriftTyped
<1>b. invites = [x \in Email |-> invites[x]]
  BY DEF TablesFit, TablesTyped
<1>2. CASE DeleteInvite(e)
  <2>1. invites' = [invites EXCEPT ![e] = NoInvite]
    BY <1>2 DEF DeleteInvite
  <2>2. invites' = [x \in Email |-> invites'[x]] /\ \A x \in Email : invites'[x] = invites[x] \/ invites'[x] = NoInvite
    BY <1>b, <2>1
  <2> QED BY <1>0, <1>1, <2>2, InvitesStep
<1>3. CASE \E r \in Role : UpdateInvite(e, r)
  <2>1. PICK r \in Role : invites' = [invites EXCEPT ![e].role = r] /\ role[r] # Absent
    BY <1>3 DEF UpdateInvite
  <2> DEFINE i == [invites[e] EXCEPT !.role = r]
  <2>2. i \in [status : {"none", "pending", "accepted"}, role : Role] /\ i.role = r
    <3>1. invites[e] \in [status : {"none", "pending", "accepted"}, role : Role \cup {NoRole}]
      BY DEF TablesFit, TablesTyped
    <3> QED BY <3>1
  <2>3. invites' = [invites EXCEPT ![e] = i]
    BY <2>1
  <2> HIDE DEF i
  <2>4. /\ invites' = [x \in Email |-> invites'[x]]
        /\ \A x \in Email : invites'[x] = invites[x] \/ invites'[x] = i
    BY <1>b, <2>3
  <2> QED BY <1>0, <1>1, <2>1, <2>2, <2>4, InvitesStep
<1> QED BY <1>2, <1>3

\* A member takes an address that nobody else has.
LEMMA EmailStep ==
  ASSUME TablesFit, NEW u \in User, NEW e \in Email, UpdateEmail(u, e)
  PROVE  TablesFit'
<1>0. UNCHANGED <<role, users, team, roster, invites, cached, tuples, drift>>
  BY DEF UpdateEmail
<1>1. DriftTyped'
  BY <1>0 DEF TablesFit, TablesTyped, DriftTyped
<1>2. mail' = [mail EXCEPT ![u] = e] /\ ~HasMember(e) /\ e # Nothing
  BY OrgMembersAssumption DEF UpdateEmail
<1>3. mail' \in [User -> Email \cup {Nothing, "founder"}] /\ \A v \in User : mail'[v] = IF v = u THEN e ELSE mail[v]
  BY <1>2 DEF TablesFit, TablesTyped
<1>4. \A v \in User : IsMember(v) => mail[v] # e
  BY <1>2 DEF HasMember
<1>5. OneMember'
  BY <1>0, <1>2, <1>3, <1>4 DEF TablesFit, OneMember, IsMember
<1>6. RolesExist'
  BY <1>0 DEF TablesFit, RolesExist, IsMember
<1>7. roster' \subseteq {v \in User : users'[v] # Absent}
  BY <1>0 DEF TablesFit, TablesTyped, IsMember
<1> QED BY <1>0, <1>1, <1>3, <1>5, <1>6, <1>7, RowStep DEF TablesFit, TablesTyped

\* A new member has an address nobody else has.
LEMMA InsertUserStep ==
  ASSUME TablesFit, FramesFit, NEW h \in Handler, DriftTyped', InsertUser(h)
  PROVE  TablesFit'
<1> DEFINE e == proc[h].email
           r == proc[h].role
<1>0. UNCHANGED <<role, team, roster, invites, cached, tuples>>
  BY DEF InsertUser
<1>1. r \in Role /\ e \in Email
  BY DEF InsertUser, Doing, FramesFit, Fits, NamesFit
<1>2. CASE UNCHANGED <<users, mail>>
  <2>1. UNCHANGED rows
    BY <1>0, <1>2 DEF rows
  <2> QED BY <1>0, <2>1, StillStep
<1>3. CASE /\ ~HasMember(e) /\ role[r] # Absent
           /\ \E u \in User : /\ mail[u] = Nothing
                               /\ users' = [users EXCEPT ![u] = r]
                               /\ mail' = [mail EXCEPT ![u] = e]
  <2>1. PICK u \in User : /\ mail[u] = Nothing
                           /\ users' = [users EXCEPT ![u] = r]
                           /\ mail' = [mail EXCEPT ![u] = e]
    BY <1>3
  <2>2. /\ users' \in [User -> Role \cup {Absent}]
        /\ mail' \in [User -> Email \cup {Nothing, "founder"}]
        /\ \A v \in User : /\ users'[v] = (IF v = u THEN r ELSE users[v])
                            /\ mail'[v] = (IF v = u THEN e ELSE mail[v])
    BY <1>1, <2>1 DEF TablesFit, TablesTyped
  <2>3. \A v \in User : users[v] # Absent => mail[v] # e
    BY <1>3 DEF HasMember, IsMember
  <2>4. RolesExist'
    BY <1>0, <1>1, <1>3, <2>2 DEF TablesFit, RolesExist, IsMember
  <2>5. OneMember'
    BY <1>1, <2>2, <2>3, OrgMembersAssumption DEF TablesFit, OneMember, IsMember
  <2>6. roster' \subseteq {v \in User : users'[v] # Absent}
    BY <1>0, <1>1, <2>2, OrgMembersAssumption DEF TablesFit, TablesTyped, IsMember
  <2> QED BY <1>0, <2>2, <2>4, <2>5, <2>6, RowStep DEF TablesFit, TablesTyped
<1> QED BY <1>2, <1>3 DEF InsertUser

-----------------------------------------------------------------------------

LEMMA TablesStep ==
  ASSUME TablesFit, FramesFit, NEW h \in Handler, DriftTyped', Serve(h)
  PROVE  TablesFit'
BY ReadingStep, CacheStep, TuplesStep, DeleteUserStep, RosterStep, UserRoleStep, FlagsStep, DeleteRoleStep,
   InviteRows, InsertUserStep DEF Serve

LEMMA InvInit == Init => Inv
<1> SUFFICES ASSUME Init PROVE Inv
  OBVIOUS
<1>0. PICK f \in Founding :
        LET at == [u \in User |-> IF u = Founders.owner THEN Own
                                  ELSE IF u = Founders.other THEN CHOOSE r \in Role : r # Own ELSE Absent]
            fl == [r \in Role |-> IF r = Own THEN Flag ELSE f.flags]
        IN /\ role = fl /\ cached = fl
           /\ users = at
           /\ mail = [u \in User |-> IF at[u] = Absent THEN Nothing ELSE "founder"]
           /\ team = [live |-> TRUE, role |-> f.teamRole]
           /\ roster = f.roster /\ members = f.roster
           /\ invites = [e \in Email |-> IF e \in f.invited THEN [status |-> "pending", role |-> Own]
                                         ELSE NoInvite]
           /\ fga = [s \in Subject |-> IF s = Team THEN IF f.teamRole = NoRole THEN {} ELSE Grant(fl[f.teamRole])
                                       ELSE IF at[s] = Absent THEN {} ELSE Grant(fl[at[s]])]
           /\ proc = [h \in Handler |-> NoCall]
           /\ drift = [x \in Thing |-> {}]
  BY DEF Init
<1> DEFINE other == CHOOSE r \in Role : r # Own
           at == [u \in User |-> IF u = Founders.owner THEN Own
                                 ELSE IF u = Founders.other THEN other ELSE Absent]
           fl == [r \in Role |-> IF r = Own THEN Flag ELSE f.flags]
<1>1. other \in Role /\ Own \in Role /\ other # Absent /\ Own # Absent
  BY OrgMembersAssumption
<1>2. /\ f.flags \in SUBSET Flag /\ f.teamRole \in Role \cup {NoRole}
      /\ f.roster \subseteq {Founders.owner, Founders.other} /\ f.invited \subseteq Email
      /\ Founders.owner \in User /\ Founders.other \in User /\ Founders.owner # Founders.other
  BY OrgMembersAssumption DEF Flag
<1>3. \A x \in SUBSET Flag : x # Absent
  BY OrgMembersAssumption DEF Flag
<1> HIDE DEF other
<1>4. /\ fl \in [Role -> SUBSET Flag]
      /\ \A r \in Role : fl[r] # Absent
  BY <1>2, <1>3
<1>5. /\ at \in [User -> Role \cup {Absent}]
      /\ at[Founders.owner] # Absent /\ at[Founders.other] # Absent
  BY <1>1, <1>2
<1>6. /\ role = fl /\ cached = fl /\ users = at
      /\ mail = [u \in User |-> IF at[u] = Absent THEN Nothing ELSE "founder"]
      /\ team = [live |-> TRUE, role |-> f.teamRole]
      /\ roster = f.roster /\ members = f.roster
      /\ invites = [e \in Email |-> IF e \in f.invited THEN [status |-> "pending", role |-> Own] ELSE NoInvite]
      /\ fga = [s \in Subject |-> IF s = Team THEN IF f.teamRole = NoRole THEN {} ELSE Grant(fl[f.teamRole])
                                  ELSE IF at[s] = Absent THEN {} ELSE Grant(fl[at[s]])]
      /\ proc = [h \in Handler |-> NoCall]
      /\ drift = [x \in Thing |-> {}]
  BY <1>0 DEF other
<1> HIDE DEF fl, at
<1>7. role \in [Role -> (SUBSET Flag) \cup {Absent}] /\ cached \in [Role -> (SUBSET Flag) \cup {Nothing}]
  BY <1>4, <1>6
<1>8. fga \in [Subject -> SUBSET Tuple]
  <2>1. \A r \in Role : Grant(fl[r]) \in SUBSET Tuple
    BY <1>4, GrantTyped
  <2>2. \A s \in Subject : s # Team => at[s] \in Role \cup {Absent}
    BY <1>5 DEF Subject
  <2> QED BY <1>2, <1>6, <2>1, <2>2
<1>9. NoInvite \in [status : {"none", "pending", "accepted"}, role : Role \cup {NoRole}] /\ NoInvite.role \notin Role
  BY OrgMembersAssumption DEF NoInvite
<1>10. invites \in [Email -> [status : {"none", "pending", "accepted"}, role : Role \cup {NoRole}]]
  BY <1>1, <1>6, <1>9
<1>11. TablesTyped
  <2>1. mail \in [User -> Email \cup {Nothing, "founder"}]
    BY <1>6
  <2>2. team \in [live : BOOLEAN, role : Role \cup {NoRole}]
    BY <1>2, <1>6
  <2>3. roster \subseteq {u \in User : IsMember(u)} /\ members \subseteq User
    BY <1>2, <1>5, <1>6 DEF IsMember
  <2>4. drift \in [Thing -> SUBSET Cause] /\ users \in [User -> Role \cup {Absent}]
    BY <1>5, <1>6
  <2> QED BY <1>7, <1>8, <1>10, <2>1, <2>2, <2>3, <2>4 DEF TablesTyped
<1>12. RolesExist
  <2>1. \A e \in Email : invites[e] = NoInvite \/ invites[e].role = Own
    BY <1>6
  <2>2. \A u \in User : IsMember(u) => users[u] \in Role
    BY <1>5, <1>6 DEF IsMember
  <2> QED BY <1>1, <1>4, <1>6, <1>9, <2>1, <2>2 DEF RolesExist
<1>13. OneMember
  BY <1>6, OrgMembersAssumption DEF OneMember, IsMember
<1>14. FramesFit
  BY <1>6, NoCallFits DEF FramesFit
<1> QED BY <1>11, <1>12, <1>13, <1>14 DEF Inv

LEMMA InvNext == Inv /\ [Next]_vars => Inv'
<1> SUFFICES ASSUME Inv, [Next]_vars PROVE Inv'
  OBVIOUS
<1>0. TablesFit /\ FramesFit
  BY DEF Inv, TablesFit
<1>1. ASSUME NEW h \in Handler, Serve(h) PROVE TablesFit' /\ FramesFit'
  <2>1. FramesFit' /\ DriftTyped'
    BY <1>0, <1>1, CallStep DEF TablesFit
  <2> QED BY <1>0, <1>1, <2>1, TablesStep
<1>2. ASSUME Expire PROVE TablesFit' /\ FramesFit'
  BY <1>0, <1>2, ExpireStep
<1>3. ASSUME NEW e \in Email, DeleteInvite(e) \/ \E r \in Role : UpdateInvite(e, r)
      PROVE  TablesFit' /\ FramesFit'
  <2>1. proc' = proc
    BY <1>3 DEF DeleteInvite, UpdateInvite
  <2> QED BY <1>0, <1>3, <2>1, InviteEdits DEF FramesFit
<1>6. ASSUME NEW u \in User, NEW e \in Email, UpdateEmail(u, e) PROVE TablesFit' /\ FramesFit'
  <2>1. proc' = proc
    BY <1>6 DEF UpdateEmail
  <2> QED BY <1>0, <1>6, <2>1, EmailStep DEF FramesFit
<1>4. ASSUME UNCHANGED vars PROVE TablesFit' /\ FramesFit'
  <2>1. UNCHANGED <<rows, cached, tuples, drift, proc>>
    BY <1>4 DEF vars, rows, tuples
  <2>2. DriftTyped'
    BY <1>0, <2>1 DEF TablesFit, TablesTyped, DriftTyped
  <2> QED BY <1>0, <2>1, <2>2, StillStep DEF FramesFit
<1>5. TablesFit' /\ FramesFit'
  BY <1>1, <1>2, <1>3, <1>4, <1>6 DEF Next
<1> QED BY <1>5 DEF Inv, TablesFit

LEMMA InvTypes == Inv => TypeOK
<1> SUFFICES ASSUME Inv PROVE TypeOK
  OBVIOUS
<1>1. \A h \in Handler : proc[h].op \in Op \cup {"none"} /\ proc[h].touch \subseteq Thing \cup Role
  BY DEF Inv, FramesFit, Fits, Frame
<1>2. \A r \in {users[u] : u \in User} \cup {team.role} \cup {invites[e].role : e \in Email} :
        r \in Role => role[r] # Absent
  BY OrgMembersAssumption DEF Inv, TablesTyped, RolesExist, IsMember
<1>3. \A u, v \in User : IsMember(u) /\ IsMember(v) /\ mail[u] = mail[v] /\ mail[u] \in Email => u = v
  BY DEF Inv, OneMember
<1>4. roster \in SUBSET {u \in User : IsMember(u)} /\ members \in SUBSET User
  BY DEF Inv, TablesTyped
<1> QED BY <1>1, <1>2, <1>3, <1>4 DEF Inv, TablesTyped, TypeOK

LEMMA InvAlways == Spec => []Inv
BY InvInit, InvNext, PTL DEF Spec

\* The tables of an organization keep their keys, whatever calls overlap and
\* fail: a role a user, the team or an invite names exists, an address has at
\* most one member, the team consists of members.
THEOREM TypeCorrect == Spec => []TypeOK
BY InvAlways, InvTypes, PTL

-----------------------------------------------------------------------------
(* The guard of the last admin.                                            *)

AdminRows == <<role, users, team, roster>>

\* A call whose guard is about the admins removes one of those it has read.
LEMMA GuardedRemoval ==
  ASSUME Inv, NEW h \in Handler, DeleteUser(h) \/ RemoveTeamMember(h), Admins' = {}
  PROVE  proc[h].first # Direct \/ proc[h].second # ViaTeam
<1> SUFFICES ASSUME proc[h].first = Direct, proc[h].second = ViaTeam
             PROVE  FALSE
  OBVIOUS
<1> DEFINE u == proc[h].user
<1>1. Remaining(proc[h]) # {} /\ u \in User
  BY DEF Inv, FramesFit, Fits, GuardFits, NamesFit, DeleteUser, RemoveTeamMember, Doing, At
<1>2. UNCHANGED <<role, team>>
  BY DEF DeleteUser, RemoveTeamMember
<1>3. CASE DeleteUser(h)
  <2>1. /\ proc[h].op = "deleteUser" /\ users' = [users EXCEPT ![u] = Absent] /\ roster' = roster \ {u}
    BY <1>3 DEF DeleteUser, Doing
  <2>2. \A v \in User : users'[v] = IF v = u THEN Absent ELSE users[v]
    BY <2>1 DEF Inv, TablesTyped
  <2>3. Direct \ {u} \subseteq Direct'
    BY <1>2, <2>2 DEF Direct, IsMember, Capable
  <2>4. ViaTeam \ {u} \subseteq ViaTeam'
    BY <1>2, <2>1 DEF ViaTeam, Capable
  <2>5. Remaining(proc[h]) = (Direct \cup ViaTeam) \ {u}
    BY <2>1 DEF Remaining
  <2> QED BY <1>1, <2>3, <2>4, <2>5 DEF Admins
<1>4. CASE RemoveTeamMember(h)
  <2>1. /\ proc[h].op = "removeMember" /\ users' = users /\ roster' = roster \ {u}
    BY <1>4 DEF RemoveTeamMember, Doing
  <2>2. Direct' = Direct
    BY <1>2, <2>1 DEF Direct, IsMember, Capable
  <2>3. ViaTeam \ {u} \subseteq ViaTeam'
    BY <1>2, <2>1 DEF ViaTeam, Capable
  <2>4. Remaining(proc[h]) = Direct \cup (ViaTeam \ {u})
    BY <2>1 DEF Remaining
  <2> QED BY <1>1, <2>2, <2>3, <2>4 DEF Admins
<1> QED BY <1>3, <1>4

\* The calls the guard does not look at.
LEMMA UnguardedChange ==
  ASSUME Inv, NEW h \in Handler,
         \/ AddTeamMember(h) \/ UpdateUserRole(h) \/ UpdateTeamRole(h) \/ Undo(h) \/ UpdateRole(h)
         \/ DeleteRole(h) \/ DeleteTeam(h) \/ InsertUser(h)
  PROVE  proc[h].op \notin {"deleteUser", "removeMember"}
BY DEF Inv, FramesFit, Fits, NamesFit, AddTeamMember, UpdateUserRole, UpdateTeamRole, Undo, UpdateRole,
       DeleteRole, DeleteTeam, InsertUser, Doing, At

\* A step that changes who is an admin moves its own call.
LEMMA MoverMoves ==
  ASSUME Inv, NEW h \in Handler,
         \/ DeleteUser(h) \/ RemoveTeamMember(h)
         \/ AddTeamMember(h) \/ UpdateUserRole(h) \/ UpdateTeamRole(h) \/ Undo(h) \/ UpdateRole(h)
         \/ DeleteRole(h) \/ DeleteTeam(h) \/ InsertUser(h) \/ InsertInvite(h)
  PROVE  proc'[h] # proc[h]
<1>0. /\ proc = [g \in Handler |-> proc[g]]
      /\ proc[h] \in Frame
  BY DEF Inv, FramesFit, Fits
<1>1. proc[h].pc # "idle"
  BY DEF DeleteUser, RemoveTeamMember, AddTeamMember, UpdateUserRole, UpdateTeamRole, Undo, UpdateRole,
         DeleteRole, DeleteTeam, InsertUser, InsertInvite, Doing, At
<1>2. ASSUME proc' = [proc EXCEPT ![h] = NoCall] PROVE proc'[h] # proc[h]
  BY <1>0, <1>1, <1>2 DEF NoCall
<1>3. CASE Succeed(h) \/ Fail(h)
  BY <1>2, <1>3 DEF Succeed, Fail, End
<1>4. CASE DeleteUser(h) \/ RemoveTeamMember(h) \/ AddTeamMember(h)
  <2>1. \/ Fail(h)
        \/ \E l \in {"fgaRead", "unlink", "link"} :
             proc[h].pc # l /\ proc' = [proc EXCEPT ![h].pc = l, ![h].dirty = TRUE]
    BY <1>4 DEF DeleteUser, RemoveTeamMember, AddTeamMember, Doing, At
  <2> QED BY <1>0, <1>3, <2>1 DEF Frame
<1>5. CASE UpdateUserRole(h) \/ UpdateTeamRole(h) \/ InsertInvite(h)
  BY <1>3, <1>5 DEF UpdateUserRole, UpdateTeamRole, InsertInvite
<1>6. CASE Undo(h)
  BY <1>2, <1>6 DEF Undo
<1>7. CASE UpdateRole(h) \/ DeleteTeam(h)
  <2>1. \/ proc[h].pc # "list" /\ proc' = [proc EXCEPT ![h].pc = "list", ![h].dirty = TRUE]
        \/ proc[h].pc # "links" /\ proc' = [proc EXCEPT ![h].pc = "links"]
    BY <1>7 DEF UpdateRole, DeleteTeam, Doing, At, Goto
  <2> QED BY <1>0, <2>1 DEF Frame
<1>8. CASE DeleteRole(h)
  <2> DEFINE t == proc[h].touch \cup Holders(proc[h].role) \cup {Link(u) : u \in Holders(proc[h].role)}
             p == [proc[h] EXCEPT !.pc = "invalidate", !.dirty = TRUE, !.touch = t]
  <2>1. proc' = Claimed(h, p) /\ proc[h].pc = "start"
    BY <1>8 DEF DeleteRole, Doing, At
  <2> HIDE DEF t
  <2>2. proc'[h].pc = "invalidate"
    BY <1>0, <2>1 DEF Claimed, Frame
  <2> QED BY <2>1, <2>2
<1>9. CASE InsertUser(h)
  <2>1. CASE Fail(h)
    BY <1>3, <2>1
  <2>2. CASE \E u \in User :
          proc' = [proc EXCEPT ![h].user = u, ![h].touch = @ \cup {u, Link(u)}, ![h].pc = "role", ![h].dirty = TRUE]
    <3>1. proc[h].pc = "insert"
      BY <1>9 DEF InsertUser, Doing, At
    <3>2. proc'[h].pc = "role"
      BY <1>0, <2>2 DEF Frame
    <3> QED BY <3>1, <3>2
  <2> QED BY <1>9, <2>1, <2>2 DEF InsertUser
<1> QED BY <1>4, <1>5, <1>6, <1>7, <1>8, <1>9

\* The other steps leave the admins as they are.
LEMMA AdminsStay ==
  ASSUME Inv, NEW h \in Handler, Serve(h),
         ~(\/ DeleteUser(h) \/ RemoveTeamMember(h)
           \/ AddTeamMember(h) \/ UpdateUserRole(h) \/ UpdateTeamRole(h) \/ Undo(h) \/ UpdateRole(h)
           \/ DeleteRole(h) \/ DeleteTeam(h) \/ InsertUser(h))
  PROVE  UNCHANGED AdminRows
<1>1. CASE BeginOnUser(h) \/ BeginOnTeam(h) \/ BeginOnRole(h) \/ BeginOnInvite(h)
  BY <1>1 DEF BeginOnUser, BeginOnTeam, BeginOnRole, BeginOnInvite, Enter, AdminRows, rows
<1>2. CASE ReadUsers(h) \/ ReadTeamMembers(h) \/ EnsureOrgHasAdmin(h) \/ ReadTuples(h) \/ LookupRole(h)
  BY <1>2 DEF ReadUsers, ReadTeamMembers, EnsureOrgHasAdmin, ReadTuples, LookupRole, AdminRows, rows
<1>3. CASE ListHolders(h) \/ ResyncNext(h) \/ Return(h) \/ ReadLinks(h) \/ FillCache(h) \/ InvalidateRole(h)
  BY <1>3 DEF ListHolders, ResyncNext, Return, ReadLinks, FillCache, InvalidateRole, AdminRows, rows
<1>4. CASE CountMembers(h) \/ CountInvites(h) \/ AssertCount(h) \/ FindMembership(h) \/ MatchMembers(h)
  BY <1>4 DEF CountMembers, CountInvites, AssertCount, FindMembership, MatchMembers, AdminRows, rows
<1>5. CASE FailCall(h) \/ Crash(h) \/ LoseReply(h) \/ FailUnlinkAll(h)
  BY <1>5 DEF FailCall, Crash, LoseReply, FailUnlinkAll, AdminRows, rows
<1>6. CASE DeleteTuples(h) \/ WriteTuples(h) \/ LinkTuple(h) \/ UnlinkTuple(h) \/ UnlinkAll(h) \/ DropLinks(h)
  BY <1>6 DEF DeleteTuples, WriteTuples, LinkTuple, UnlinkTuple, UnlinkAll, DropLinks, AdminRows, rows
<1>7. CASE InsertInvite(h) \/ MarkAccepted(h) \/ MarkMatched(h)
  BY <1>7 DEF InsertInvite, MarkAccepted, MarkMatched, AdminRows
<1> QED BY <1>1, <1>2, <1>3, <1>4, <1>5, <1>6, <1>7 DEF Serve

LEMMA LastAdminStep ==
  ASSUME Inv, [Next]_vars, Admins # {}, Admins' = {}
  PROVE  \E h \in Handler :
           /\ proc'[h] # proc[h]
           /\ \/ proc[h].op \notin {"deleteUser", "removeMember"}
              \/ proc[h].first # Direct \/ proc[h].second # ViaTeam
<1>1. ~UNCHANGED AdminRows
  <2>1. UNCHANGED AdminRows => Admins' = Admins
    BY DEF AdminRows, Admins, Direct, ViaTeam, IsMember, Capable
  <2> QED BY <2>1
<1>2. PICK h \in Handler : Serve(h)
  <2>1. ~Expire
    BY <1>1 DEF Expire, AdminRows, rows
  <2>2. \A e \in Email : /\ ~DeleteInvite(e) /\ \A r \in Role : ~UpdateInvite(e, r)
                         /\ \A u \in User : ~UpdateEmail(u, e)
    BY <1>1 DEF DeleteInvite, UpdateInvite, UpdateEmail, AdminRows
  <2>3. ~UNCHANGED vars
    BY <1>1 DEF vars, AdminRows
  <2> QED BY <2>1, <2>2, <2>3 DEF Next
<1>3. CASE DeleteUser(h) \/ RemoveTeamMember(h)
  BY <1>3, GuardedRemoval, MoverMoves
<1>4. CASE \/ AddTeamMember(h) \/ UpdateUserRole(h) \/ UpdateTeamRole(h) \/ Undo(h) \/ UpdateRole(h)
           \/ DeleteRole(h) \/ DeleteTeam(h) \/ InsertUser(h)
  BY <1>4, UnguardedChange, MoverMoves
<1> QED BY <1>1, <1>2, <1>3, <1>4, AdminsStay

\* "At least one org admin must remain": however many removals race, the last
\* admin goes only through a call the guard does not look at, or in a removal
\* whose guard read something else than what stood when it deleted.
THEOREM LastAdminGuarded == Spec => LastAdminLeavesUnguarded
<1>1. Inv /\ [Next]_vars =>
        [Admins # {} /\ Admins' = {} =>
           \E h \in Handler :
             /\ proc'[h] # proc[h]
             /\ \/ proc[h].op \notin {"deleteUser", "removeMember"}
                \/ proc[h].first # Direct \/ proc[h].second # ViaTeam]_vars
  BY LastAdminStep
<1> QED BY <1>1, InvAlways, PTL DEF Spec, LastAdminLeavesUnguarded

-----------------------------------------------------------------------------
(* The member limit.                                                       *)

MemberSet == {u \in User : IsMember(u)}
Open == {e \in Pending : ~HasMember(e)}

LEMMA SeatsFinite ==
  ASSUME TablesFit
  PROVE  /\ IsFiniteSet(MemberSet) /\ IsFiniteSet(Pending) /\ IsFiniteSet(Open)
         /\ Cardinality(MemberSet) \in Nat /\ Cardinality(Pending) \in Nat /\ Cardinality(Open) \in Nat
         /\ Cardinality(Open) <= Cardinality(Pending)
         /\ Seats = Cardinality(MemberSet) + Cardinality(Open) /\ Count = Cardinality(MemberSet)
<1>1. IsFiniteSet(MemberSet) /\ IsFiniteSet(Pending)
  BY CountsNatural DEF TablesFit, MemberSet
<1>2. Open \in SUBSET Pending
  BY DEF Open
<1>3. IsFiniteSet(Open) /\ Cardinality(Open) <= Cardinality(Pending)
  BY <1>1, <1>2, FS_Subset
<1>4. Seats = Cardinality(MemberSet) + Cardinality(Open) /\ Count = Cardinality(MemberSet)
  BY DEF Seats, Count, MemberSet, Open
<1> QED BY <1>1, <1>3, <1>4, FS_CardinalityType

\* When members and pending invites go, no more seats are taken: a member who
\* goes leaves at most the one invite to its address without a member.
LEMMA SeatsShrink ==
  ASSUME NEW M, IsFiniteSet(M), NEW N \in SUBSET M, NEW P, IsFiniteSet(P), NEW Q \in SUBSET P, NEW f
  PROVE  Cardinality(N) + Cardinality({e \in Q : ~\E u \in N : f[u] = e})
           <= Cardinality(M) + Cardinality({e \in P : ~\E u \in M : f[u] = e})
<1> DEFINE A == {e \in Q : ~\E u \in N : f[u] = e}
           B == {e \in P : ~\E u \in M : f[u] = e}
           D == M \ N
           g == [u \in D |-> f[u]]
           R == {f[u] : u \in D}
<1>1. IsFiniteSet(D) /\ IsFiniteSet(B) /\ IsFiniteSet(N)
  <2>1. D \in SUBSET M /\ B \in SUBSET P
    OBVIOUS
  <2> QED BY <2>1, FS_Subset
<1>2. Cardinality(D) = Cardinality(M) - Cardinality(N)
  <2>1. M \cap N = N
    OBVIOUS
  <2> QED BY <2>1, FS_Difference
<1>3. IsFiniteSet(R) /\ Cardinality(R) <= Cardinality(D)
  <2>1. g \in Surjection(D, R)
    BY DEF Surjection
  <2> HIDE DEF g, R, D
  <2> QED BY <1>1, <2>1, FS_Surjection DEF ExistsSurjection
<1>4. A \in SUBSET (B \cup R)
  OBVIOUS
<1> HIDE DEF A, B, D, R, g
<1>5. IsFiniteSet(B \cup R) /\ Cardinality(B \cup R) = Cardinality(B) + Cardinality(R) - Cardinality(B \cap R)
  BY <1>1, <1>3, FS_Union
<1>6. IsFiniteSet(B \cap R)
  <2>1. B \cap R \in SUBSET B
    OBVIOUS
  <2> QED BY <1>1, <2>1, FS_Subset
<1>7. IsFiniteSet(A) /\ Cardinality(A) <= Cardinality(B \cup R)
  BY <1>4, <1>5, FS_Subset
<1>8. /\ Cardinality(A) \in Nat /\ Cardinality(B) \in Nat /\ Cardinality(R) \in Nat /\ Cardinality(D) \in Nat
      /\ Cardinality(M) \in Nat /\ Cardinality(N) \in Nat /\ Cardinality(B \cap R) \in Nat
      /\ Cardinality(B \cup R) \in Nat
  BY <1>1, <1>3, <1>5, <1>6, <1>7, FS_CardinalityType
<1>9. Cardinality(N) + Cardinality(A) <= Cardinality(M) + Cardinality(B)
  BY <1>2, <1>3, <1>5, <1>7, <1>8
<1> QED BY <1>9 DEF A, B

LEMMA SeatsStay ==
  ASSUME TablesFit, mail' = mail,
         \A u \in User : users'[u] # Absent => users[u] # Absent,
         \A e \in Email : invites'[e].status = "pending" => invites[e].status = "pending"
  PROVE  Seats' <= Seats
<1>1. MemberSet' \in SUBSET MemberSet /\ Pending' \in SUBSET Pending
  BY DEF MemberSet, IsMember, Pending
<1>2. IsFiniteSet(MemberSet) /\ IsFiniteSet(Pending)
  BY SeatsFinite
<1>3. /\ Open = {e \in Pending : ~\E u \in MemberSet : mail[u] = e}
      /\ Open' = {e \in Pending' : ~\E u \in MemberSet' : mail[u] = e}
  BY DEF Open, HasMember, MemberSet
<1>4. /\ Seats = Cardinality(MemberSet) + Cardinality(Open)
      /\ Seats' = Cardinality(MemberSet') + Cardinality(Open')
  BY DEF Seats, Count, MemberSet, Open
<1>5. \A N \in SUBSET MemberSet : \A Q \in SUBSET Pending :
        Cardinality(N) + Cardinality({e \in Q : ~\E u \in N : mail[u] = e})
          <= Cardinality(MemberSet) + Cardinality({e \in Pending : ~\E u \in MemberSet : mail[u] = e})
  BY <1>2, SeatsShrink
<1> QED BY <1>1, <1>3, <1>4, <1>5

\* An invite takes at most one seat more than its counts.
LEMMA InviteSeat ==
  ASSUME Inv, TablesFit', NEW h \in Handler, InsertInvite(h), Seats' > Limit, Seats' > Seats
  PROVE  proc[h].op = "invite" /\ (proc[h].first # Count \/ proc[h].second # Cardinality(Pending))
<1> DEFINE e == proc[h].email
<1>0. TablesFit
  BY DEF Inv, TablesFit
<1>1. /\ proc[h].op = "invite"
      /\ proc[h].first \in Nat /\ proc[h].second \in Nat
      /\ proc[h].first + proc[h].second + 1 <= Limit
  BY DEF InsertInvite, Doing, At, Inv, FramesFit, Fits, CountFits
<1>2. UNCHANGED <<users, mail>>
  BY DEF InsertInvite
<1>3. MemberSet' = MemberSet
  BY <1>2 DEF MemberSet, IsMember
<1>4. Pending' \subseteq Pending \cup {e}
  BY <1>0 DEF InsertInvite, Pending, TablesFit, TablesTyped
<1>5. Cardinality(Pending') <= Cardinality(Pending) + 1
  <2>1. IsFiniteSet(Pending)
    BY <1>0, SeatsFinite
  <2>2. /\ IsFiniteSet(Pending \cup {e})
        /\ Cardinality(Pending \cup {e}) = IF e \in Pending THEN Cardinality(Pending) ELSE Cardinality(Pending) + 1
    BY <2>1, FS_AddElement
  <2>3. Cardinality(Pending') <= Cardinality(Pending \cup {e})
    BY <1>4, <2>2, FS_Subset
  <2>4. Cardinality(Pending) \in Nat /\ Cardinality(Pending') \in Nat
    <3>1. IsFiniteSet(Pending')
      BY <1>4, <2>2, FS_Subset
    <3> QED BY <2>1, <3>1, FS_CardinalityType
  <2> QED BY <2>2, <2>3, <2>4
<1>6. /\ Cardinality(MemberSet) \in Nat /\ Cardinality(Pending) \in Nat /\ Count = Cardinality(MemberSet)
  BY <1>0, SeatsFinite
<1>7. /\ Cardinality(Open') <= Cardinality(Pending') /\ Cardinality(Open') \in Nat
      /\ Seats' = Cardinality(MemberSet') + Cardinality(Open') /\ Cardinality(Pending') \in Nat
  <2>1. (TablesFit => /\ Cardinality(Open) <= Cardinality(Pending) /\ Cardinality(Open) \in Nat
                      /\ Seats = Cardinality(MemberSet) + Cardinality(Open) /\ Cardinality(Pending) \in Nat)'
    BY SeatsFinite, PTL
  <2> QED BY <2>1
<1> QED BY <1>1, <1>3, <1>5, <1>6, <1>7, OrgMembersAssumption

\* A member with a pending invite takes the seat the invite has held.
LEMMA AcceptSeat ==
  ASSUME Inv, NEW h \in Handler, InsertUser(h), Seats' > Seats
  PROVE  proc[h].op = "accept" /\ proc[h].email \notin Pending
<1> DEFINE e == proc[h].email
           r == proc[h].role
<1>0. TablesFit
  BY DEF Inv, TablesFit
<1>1. proc[h].op = "accept" /\ e \in Email /\ r \in Role
  BY DEF InsertUser, Doing, Inv, FramesFit, Fits, NamesFit
<1>2. /\ IsFiniteSet(MemberSet) /\ IsFiniteSet(Open)
      /\ Cardinality(MemberSet) \in Nat /\ Cardinality(Open) \in Nat
      /\ Seats = Cardinality(MemberSet) + Cardinality(Open)
  BY <1>0, SeatsFinite
<1>3. Seats' = Cardinality(MemberSet') + Cardinality(Open')
  BY DEF Seats, Count, MemberSet, Open
<1>4. CASE UNCHANGED <<users, mail>>
  <2>1. invites' = invites
    BY DEF InsertUser
  <2>2. Seats' = Seats
    BY <1>4, <2>1 DEF Seats, Count, Pending, HasMember, IsMember
  <2> QED BY <1>2, <2>2
<1>5. CASE /\ ~HasMember(e)
           /\ \E u \in User : /\ mail[u] = Nothing
                               /\ users' = [users EXCEPT ![u] = r]
                               /\ mail' = [mail EXCEPT ![u] = e]
  <2> SUFFICES ASSUME e \in Pending PROVE FALSE
    BY <1>1
  <2>1. PICK u \in User : /\ mail[u] = Nothing
                           /\ users' = [users EXCEPT ![u] = r]
                           /\ mail' = [mail EXCEPT ![u] = e]
    BY <1>5
  <2>2. \A v \in User : /\ users'[v] = (IF v = u THEN r ELSE users[v])
                         /\ mail'[v] = (IF v = u THEN e ELSE mail[v])
    BY <2>1, <1>0 DEF TablesFit, TablesTyped
  <2>3. u \notin MemberSet
    BY <1>0, <2>1 DEF TablesFit, OneMember, MemberSet
  <2>4. MemberSet' = MemberSet \cup {u}
    BY <1>1, <2>2, OrgMembersAssumption DEF MemberSet, IsMember
  <2>5. Pending' = Pending
    BY DEF InsertUser, Pending
  <2>6. \A x \in Email : HasMember(x)' <=> (HasMember(x) \/ x = e)
    <3>1. \A v \in User : users[v] # Absent => v # u
      BY <2>3 DEF MemberSet, IsMember
    <3> QED BY <1>1, <2>1, <2>2, <3>1, OrgMembersAssumption DEF HasMember, IsMember
  <2>7. Open' = Open \ {e} /\ e \in Open
    BY <1>5, <2>5, <2>6 DEF Open, Pending
  <2>8. Cardinality(MemberSet') = Cardinality(MemberSet) + 1
    BY <1>2, <2>3, <2>4, FS_AddElement
  <2>9. Cardinality(Open') = Cardinality(Open) - 1
    BY <1>2, <2>7, FS_RemoveElement
  <2> QED BY <1>2, <1>3, <2>8, <2>9
<1> QED BY <1>4, <1>5 DEF InsertUser

\* A member's new address takes a seat only when an invite to the old one is
\* pending.
LEMMA EmailSeat ==
  ASSUME Inv, NEW u \in User, NEW e \in Email, UpdateEmail(u, e), Seats' > Seats
  PROVE  IsMember(u) /\ mail[u] \in Pending /\ mail'[u] # mail[u]
<1>0. TablesFit
  BY DEF Inv, TablesFit
<1>1. /\ IsMember(u) /\ ~HasMember(e) /\ mail' = [mail EXCEPT ![u] = e]
      /\ users' = users /\ invites' = invites
  BY DEF UpdateEmail
<1>2. \A v \in User : mail'[v] = IF v = u THEN e ELSE mail[v]
  BY <1>0, <1>1 DEF TablesFit, TablesTyped
<1>3. mail'[u] # mail[u]
  BY <1>1, <1>2 DEF HasMember
<1>4. ASSUME mail[u] \notin Pending PROVE FALSE
  <2>1. MemberSet' = MemberSet /\ Pending' = Pending
    BY <1>1 DEF MemberSet, IsMember, Pending
  <2>2. \A x \in Pending : HasMember(x) => HasMember(x)'
    BY <1>1, <1>2, <1>4 DEF HasMember, IsMember
  <2>3. Open' \in SUBSET Open
    BY <2>1, <2>2 DEF Open
  <2>4. /\ IsFiniteSet(Open) /\ Cardinality(MemberSet) \in Nat /\ Cardinality(Open) \in Nat
        /\ Seats = Cardinality(MemberSet) + Cardinality(Open)
    BY <1>0, SeatsFinite
  <2>5. Seats' = Cardinality(MemberSet') + Cardinality(Open')
    BY DEF Seats, Count, MemberSet, Open
  <2>6. IsFiniteSet(Open') /\ Cardinality(Open') <= Cardinality(Open)
    BY <2>3, <2>4, FS_Subset
  <2>7. Cardinality(Open') \in Nat
    BY <2>6, FS_CardinalityType
  <2> QED BY <2>1, <2>4, <2>5, <2>6, <2>7
<1> QED BY <1>1, <1>3, <1>4

\* No other step takes a seat.
LEMMA OthersTakeNone ==
  ASSUME Inv, [Next]_vars,
         \A h \in Handler : ~InsertInvite(h) /\ ~InsertUser(h),
         \A u \in User, e \in Email : ~UpdateEmail(u, e)
  PROVE  Seats' <= Seats
<1>0. TablesFit /\ FramesFit
  BY DEF Inv, TablesFit
<1> DEFINE Shrink == /\ mail' = mail
                     /\ \A u \in User : users'[u] # Absent => users[u] # Absent
                     /\ \A e \in Email : invites'[e].status = "pending" => invites[e].status = "pending"
<1> SUFFICES Shrink
  BY <1>0, SeatsStay
<1>1. ASSUME UNCHANGED <<users, mail, invites>> PROVE Shrink
  BY <1>1
<1>2. ASSUME NEW h \in Handler, Serve(h) PROVE Shrink
  <2>1. CASE DeleteUser(h) \/ Undo(h)
    <3>1. UNCHANGED <<mail, invites>> /\ (users' = [users EXCEPT ![proc[h].user] = Absent] \/ users' = users)
      BY <2>1 DEF DeleteUser, Undo
    <3> QED BY <1>0, <3>1 DEF TablesFit, TablesTyped
  <2>2. CASE UpdateUserRole(h)
    <3>1. /\ UNCHANGED <<mail, invites>>
          /\ \/ users' = users
             \/ users[proc[h].user] # Absent /\ users' = [users EXCEPT ![proc[h].user] = proc[h].role]
      BY <2>2 DEF UpdateUserRole, IsMember
    <3> QED BY <1>0, <3>1 DEF TablesFit, TablesTyped
  <2>3. CASE DeleteRole(h)
    <3>1. /\ mail' = mail
          /\ \A u \in User : users'[u] = Absent \/ users'[u] = users[u]
          /\ \A e \in Email : invites'[e] = NoInvite \/ invites'[e] = invites[e]
      BY <2>3 DEF DeleteRole
    <3> QED BY <3>1 DEF NoInvite
  <2>4. CASE MarkAccepted(h)
    <3>1. UNCHANGED <<mail, users>>
      BY <2>4 DEF MarkAccepted
    <3>2. proc[h].email \in Email
      BY <1>0, <2>4 DEF MarkAccepted, Doing, FramesFit, Fits, NamesFit
    <3>3. \/ invites' = invites
          \/ invites' = [invites EXCEPT ![proc[h].email] = [@ EXCEPT !.status = "accepted"]]
      <4>1. invites' = [invites EXCEPT ![proc[h].email] = IF @ = NoInvite THEN @ ELSE [@ EXCEPT !.status = "accepted"]]
        BY <2>4 DEF MarkAccepted
      <4>2. invites = [e \in Email |-> invites[e]]
        BY <1>0 DEF TablesFit, TablesTyped
      <4>3. CASE invites[proc[h].email] = NoInvite
        BY <3>2, <4>1, <4>2, <4>3
      <4>4. CASE invites[proc[h].email] # NoInvite
        BY <3>2, <4>1, <4>2, <4>4
      <4> QED BY <4>3, <4>4
    <3>4. \A e \in Email : invites'[e] = invites[e] \/ invites'[e].status = "accepted"
      <4>1. \A e \in Email : [invites[e] EXCEPT !.status = "accepted"].status = "accepted"
        BY <1>0 DEF TablesFit, TablesTyped
      <4> QED BY <1>0, <3>2, <3>3, <4>1 DEF TablesFit, TablesTyped
    <3> QED BY <3>1, <3>4
  <2>5. CASE MarkMatched(h)
    <3>1. UNCHANGED <<mail, users>>
      BY <2>5 DEF MarkMatched
    <3>2. \A e \in Email : invites'[e] = invites[e] \/ invites'[e] = [invites[e] EXCEPT !.status = "accepted"]
      BY <2>5 DEF MarkMatched
    <3>3. \A e \in Email : [invites[e] EXCEPT !.status = "accepted"].status = "accepted"
      BY <1>0 DEF TablesFit, TablesTyped
    <3> QED BY <3>1, <3>2, <3>3
  <2>6. CASE RemoveTeamMember(h) \/ AddTeamMember(h) \/ UpdateTeamRole(h) \/ UpdateRole(h) \/ DeleteTeam(h)
    BY <1>1, <2>6 DEF RemoveTeamMember, AddTeamMember, UpdateTeamRole, UpdateRole, DeleteTeam
  <2>7. CASE BeginOnUser(h) \/ BeginOnTeam(h) \/ BeginOnRole(h) \/ BeginOnInvite(h)
    BY <1>1, <2>7 DEF BeginOnUser, BeginOnTeam, BeginOnRole, BeginOnInvite, Enter, rows
  <2>8. CASE ReadUsers(h) \/ ReadTeamMembers(h) \/ EnsureOrgHasAdmin(h) \/ ReadTuples(h) \/ LookupRole(h)
    BY <1>1, <2>8 DEF ReadUsers, ReadTeamMembers, EnsureOrgHasAdmin, ReadTuples, LookupRole, rows
  <2>9. CASE ListHolders(h) \/ ResyncNext(h) \/ Return(h) \/ ReadLinks(h) \/ FillCache(h) \/ InvalidateRole(h)
    BY <1>1, <2>9 DEF ListHolders, ResyncNext, Return, ReadLinks, FillCache, InvalidateRole, rows
  <2>10. CASE CountMembers(h) \/ CountInvites(h) \/ AssertCount(h) \/ FindMembership(h) \/ MatchMembers(h)
    BY <1>1, <2>10 DEF CountMembers, CountInvites, AssertCount, FindMembership, MatchMembers, rows
  <2>11. CASE FailCall(h) \/ Crash(h) \/ LoseReply(h) \/ FailUnlinkAll(h)
    BY <1>1, <2>11 DEF FailCall, Crash, LoseReply, FailUnlinkAll, rows
  <2>12. CASE DeleteTuples(h) \/ WriteTuples(h) \/ LinkTuple(h) \/ UnlinkTuple(h) \/ UnlinkAll(h) \/ DropLinks(h)
    BY <1>1, <2>12 DEF DeleteTuples, WriteTuples, LinkTuple, UnlinkTuple, UnlinkAll, DropLinks, rows
  <2> HIDE DEF Shrink
  <2> QED BY <1>2, <2>1, <2>2, <2>3, <2>4, <2>5, <2>6, <2>7, <2>8, <2>9, <2>10, <2>11, <2>12 DEF Serve
<1>3. CASE Expire \/ UNCHANGED vars
  BY <1>1, <1>3 DEF Expire, rows, vars
<1>4. ASSUME NEW e \in Email, DeleteInvite(e) PROVE Shrink
  <2>1. UNCHANGED <<mail, users>> /\ invites' = [invites EXCEPT ![e] = NoInvite]
    BY <1>4 DEF DeleteInvite
  <2> QED BY <1>0, <2>1 DEF TablesFit, TablesTyped, NoInvite
<1>5. ASSUME NEW e \in Email, NEW r \in Role, UpdateInvite(e, r) PROVE Shrink
  <2>1. UNCHANGED <<mail, users>> /\ invites' = [invites EXCEPT ![e].role = r]
    BY <1>5 DEF UpdateInvite
  <2> QED BY <1>0, <2>1 DEF TablesFit, TablesTyped
<1> HIDE DEF Shrink
<1> QED BY <1>2, <1>3, <1>4, <1>5 DEF Next

\* The seats of the plan are overrun only by an invite that was counted before
\* another one, by an accept of an invite that is no longer pending, or when a
\* member gives up the address of an invite that is.
THEOREM LimitGuarded == Spec => LimitPassedByRace
<1> DEFINE Raced ==
      \/ \E h \in Handler :
           /\ proc'[h] # proc[h]
           /\ LET p == proc[h] IN
              \/ p.op = "invite" /\ (p.first # Count \/ p.second # Cardinality(Pending))
              \/ p.op = "accept" /\ p.email \notin Pending
      \/ \E u \in User : IsMember(u) /\ mail[u] \in Pending /\ mail'[u] # mail[u]
<1>1. ASSUME Inv, Inv', [Next]_vars, Seats' > Limit, Seats' > Seats PROVE Raced
  <2>1. TablesFit /\ TablesFit'
    BY <1>1 DEF Inv, TablesFit
  <2>2. Seats \in Nat /\ Seats' \in Nat
    <3>1. Seats \in Nat
      BY <2>1, SeatsFinite
    <3>2. (TablesFit => /\ Cardinality(MemberSet) \in Nat /\ Cardinality(Open) \in Nat
                        /\ Seats = Cardinality(MemberSet) + Cardinality(Open))'
      BY SeatsFinite, PTL
    <3> QED BY <2>1, <3>1, <3>2
  <2>3. \/ \E h \in Handler : InsertInvite(h) \/ InsertUser(h)
        \/ \E u \in User, e \in Email : UpdateEmail(u, e)
    BY <1>1, <2>2, OthersTakeNone
  <2>4. ASSUME NEW h \in Handler, InsertInvite(h) PROVE Raced
    <3>1. proc'[h] # proc[h]
      BY <1>1, <2>4, MoverMoves
    <3>2. proc[h].op = "invite" /\ (proc[h].first # Count \/ proc[h].second # Cardinality(Pending))
      BY <1>1, <2>1, <2>4, InviteSeat
    <3> QED BY <3>1, <3>2
  <2>5. ASSUME NEW h \in Handler, InsertUser(h) PROVE Raced
    <3>1. proc'[h] # proc[h]
      BY <1>1, <2>5, MoverMoves
    <3>2. proc[h].op = "accept" /\ proc[h].email \notin Pending
      BY <1>1, <2>5, AcceptSeat
    <3> QED BY <3>1, <3>2
  <2>6. ASSUME NEW u \in User, NEW e \in Email, UpdateEmail(u, e) PROVE Raced
    <3>1. IsMember(u) /\ mail[u] \in Pending /\ mail'[u] # mail[u]
      BY <1>1, <2>6, EmailSeat
    <3> QED BY <3>1
  <2> HIDE DEF Raced
  <2> QED BY <2>3, <2>4, <2>5, <2>6
<1>2. Inv /\ Inv' /\ [Next]_vars => [Seats' > Limit /\ Seats' > Seats => Raced]_vars
  <2> HIDE DEF Raced
  <2> QED BY <1>1
<1> QED BY <1>2, InvAlways, PTL DEF Spec, LimitPassedByRace

-----------------------------------------------------------------------------
(***************************************************************************)
(* Drift.  What the tuples say follows the rows, but for the causes named. *)
(* The invariant is stated of a function f of frames and of a record w of  *)
(* the tables, so that a step leads from f and w to g and v.               *)
(***************************************************************************)

World == [role |-> role, users |-> users, mail |-> mail, team |-> team, roster |-> roster,
          fga |-> fga, members |-> members, drift |-> drift]

GrantedIn(s, w) ==
  IF s = Team THEN IF w.team.role = NoRole THEN {} ELSE Grant(w.role[w.team.role])
  ELSE IF w.users[s] # Absent THEN Grant(w.role[w.users[s]]) ELSE {}

AgreesIn(x, w) ==
  IF x \in Links THEN \A u \in User : x = Link(u) => (u \in w.roster <=> u \in w.members)
  ELSE (x = Team /\ ~w.team.live) \/ w.fga[x] = GrantedIn(x, w)

Kept(x, w) == AgreesIn(x, w) \/ w.drift[x] # {}

HoldersIn(r, w) == {u \in User : w.users[u] = r}

\* A call at work on x has changed something.
Working(x, f) == \E h \in Handler : x \in f[h].touch /\ f[h].dirty

Resyncing == {"fgaRead", "fgaDelete", "role", "fill", "fgaWrite"}

\* What a call has taken hold of.
TouchFits(p) ==
  /\ p.op \in {"none", "readRole", "invite", "reconcile"} => p.touch = {}
  /\ p.op = "deleteUser" => p.touch = {p.user, Link(p.user)}
  /\ p.op \in {"addMember", "removeMember"} => p.touch = {Link(p.user)}
  /\ p.op = "setUserRole" => p.touch = {p.user, p.role}
  /\ p.op = "setTeamRole" => p.touch = {Team, p.role}
  /\ p.op = "clearTeamRole" => p.touch = {Team}
  /\ p.op = "deleteTeam" => p.touch = {Team} \cup Links
  /\ p.op = "updateRole" =>
       /\ p.role \in p.touch /\ p.touch \subseteq {p.role} \cup Subject
       /\ p.todo \subseteq p.touch
       /\ p.pc \in Resyncing => p.user \in p.touch \cap User
  /\ p.op = "deleteRole" => p.role \in p.touch /\ p.touch \subseteq {p.role} \cup Thing
  /\ p.op = "accept" => p.touch = {p.role} \cup (IF p.dirty THEN {p.user, Link(p.user)} ELSE {})

\* From which step on a call has changed something.
DirtyFits(p) ==
  /\ p.pc \in {"start", "lookup", "insert", "count"} => ~p.dirty
  /\ p.pc \in {"link", "unlink", "undo", "links", "dropLinks"} => p.dirty
  /\ p.pc = "delete" /\ p.op = "deleteTeam" => p.dirty
  /\ p.pc \in {"fgaRead", "fgaDelete"} /\ p.op = "deleteUser" => p.dirty
  /\ p.pc = "update" /\ p.op \in {"setUserRole", "setTeamRole"} => p.dirty
  /\ p.pc \in {"role", "fill", "fgaWrite"} /\ p.op = "accept" => p.dirty

\* The steps of a call, and the ids it names.
StepsFit(p) ==
  /\ p.pc = "idle" => p = NoCall
  /\ p.pc = "start" => p.op \in {"addMember", "deleteTeam", "updateRole", "deleteRole"}
  /\ p.pc = "update" => p.op \in {"setUserRole", "setTeamRole", "clearTeamRole"}
  /\ p.pc = "fgaWrite" => p.op \in {"setUserRole", "setTeamRole", "updateRole", "accept"}
  /\ p.pc = "unlink" => p.op = "removeMember"
  /\ p.pc \in {"links", "dropLinks"} => p.op = "deleteTeam"
  /\ p.pc = "mark" => p.op \in {"accept", "reconcile"}
  /\ p.pc = "invalidate" => p.op \in {"updateRole", "deleteRole"}
  /\ p.pc = "return" => p.op = "readRole"
  /\ p.pc = "match" => p.op = "reconcile"
  /\ p.op = "accept" /\ p.dirty => p.user \in User
  /\ p.op = "updateRole" /\ p.pc \in {"start", "list"} => p.done = {}

\* Whoever has been touched has an address.
NamesKnown(p, m) ==
  \A u \in User :
    u \in p.touch \/ (Link(u) \in p.touch /\ p.op # "deleteTeam") => m[u] # Nothing

Shape(p, m) == TouchFits(p) /\ DirtyFits(p) /\ StepsFit(p) /\ NamesKnown(p, m)

\* Nothing is known of an id that was not given out.
Untouched(w) ==
  \A u \in User : w.mail[u] = Nothing =>
    w.users[u] = Absent /\ w.fga[u] = {} /\ u \notin w.roster /\ u \notin w.members

\* Calls on a common thing know of each other, but for the link of a user who
\* is being created while the team goes.
Excepted(p, q) == p.op = "accept" /\ q.op = "deleteTeam" /\ p.touch \cap q.touch \subseteq Links

Apart(f) ==
  \A g, h \in Handler : g # h =>
    \/ f[g].touch \cap f[h].touch = {}
    \/ f[g].over /\ f[h].over
    \/ Excepted(f[g], f[h]) \/ Excepted(f[h], f[g])

\* On the way to replace the tuples of s by those of a role.
Replacing(p, s, w) ==
  /\ p.pc = "fgaDelete" => w.fga[s] = p.got
  /\ p.pc \in {"role", "fill"} => w.fga[s] = {}
  /\ p.pc = "fgaWrite" => p.got \subseteq Grant(p.look) /\ w.fga[s] = Grant(p.look) \ p.got
  /\ p.pc = "fill" => p.look = w.role[p.role]
  /\ p.pc = "fgaWrite" => s \in p.stale \/ p.look = w.role[p.role]

Replaced(p, s, w) == s \in p.stale \/ w.fga[s] = Grant(w.role[p.role])

\* How far a call has come that no other call overlaps.
SoundDeleteUser(p, w) ==
  /\ p.pc \in {"fgaRead", "fgaDelete"} => w.users[p.user] = Absent /\ Kept(Link(p.user), w)
  /\ p.pc = "fgaDelete" => w.fga[p.user] = p.got

SoundSetUserRole(p, w) ==
  /\ w.users[p.user] # Absent /\ Replacing(p, p.user, w)
  /\ p.pc = "update" => Replaced(p, p.user, w)

SoundSetTeamRole(p, w) == Replacing(p, Team, w) /\ (p.pc = "update" => Replaced(p, Team, w))

SoundClearTeamRole(p, w) == Replacing(p, Team, w) /\ (p.pc = "update" /\ p.dirty => w.fga[Team] = {})

SoundAccept(p, w) ==
  p.dirty =>
    /\ w.users[p.user] = p.role /\ p.user \notin w.roster /\ p.user \notin w.members
    /\ Replacing(p, p.user, w)
    /\ p.pc = "undo" /\ ~p.lost => w.fga[p.user] = {}
    /\ p.pc = "mark" => Replaced(p, p.user, w)

SoundAddMember(p, w) ==
  /\ p.pc = "link" => p.user \in w.roster
  /\ p.pc = "link" \/ (p.pc = "undo" /\ ~p.lost) => p.user \notin w.members \/ w.drift[Link(p.user)] # {}

SoundRemoveMember(p, w) == p.pc = "unlink" => p.user \notin w.roster

SoundDeleteTeam(p, w) ==
  /\ p.pc \in {"links", "dropLinks"} => ~w.team.live /\ w.roster = {}
  /\ p.pc = "dropLinks" => p.todo = w.members

\* The holders are done, at hand or to do.
SoundUpdateRole(p, w) ==
  /\ p.touch \cap User \subseteq HoldersIn(p.role, w)
  /\ p.pc # "start" /\ Team \in p.touch => Kept(Team, w)
  /\ p.pc \in Resyncing \cup {"next", "invalidate"} =>
       /\ p.touch \cap User \subseteq p.todo \cup p.done \cup {p.user}
       /\ p.todo \cap p.done = {} /\ p.done \subseteq p.touch \cap User
       /\ \A u \in p.done : Replaced(p, u, w)
  /\ p.pc \in {"next", "invalidate"} => p.touch \cap User \subseteq p.todo \cup p.done
  /\ p.pc = "invalidate" => p.todo = {}
  /\ p.pc \in Resyncing => p.user \notin p.done \cup p.todo /\ Replacing(p, p.user, w)

SoundDeleteRole(p, w) ==
  /\ p.pc = "start" => p.touch \cap User \subseteq HoldersIn(p.role, w)
  /\ p.pc = "invalidate" =>
       \A x \in p.touch \cap Thing : IF x \in User THEN w.drift[x] # {} ELSE Kept(x, w)

Sound(p, w) ==
  /\ p.op = "deleteUser" => SoundDeleteUser(p, w)
  /\ p.op = "setUserRole" => SoundSetUserRole(p, w)
  /\ p.op = "setTeamRole" => SoundSetTeamRole(p, w)
  /\ p.op = "clearTeamRole" => SoundClearTeamRole(p, w)
  /\ p.op = "accept" => SoundAccept(p, w)
  /\ p.op = "addMember" => SoundAddMember(p, w)
  /\ p.op = "removeMember" => SoundRemoveMember(p, w)
  /\ p.op = "deleteTeam" => SoundDeleteTeam(p, w)
  /\ p.op = "updateRole" => SoundUpdateRole(p, w)
  /\ p.op = "deleteRole" => SoundDeleteRole(p, w)

Shapes(f, w) == \A h \in Handler : Shape(f[h], w.mail)
Sounds(f, w) == \A h \in Handler : ~f[h].over => Sound(f[h], w)
AllKept(f, w) == \A x \in Thing : Working(x, f) \/ Kept(x, w)

\* Who holds a role whose flags are about to change is known to the call that
\* changes them, or wrong already.
HoldersKnown(f, w) ==
  \A h \in Handler : f[h].op = "updateRole" /\ f[h].pc = "start" =>
    \A u \in HoldersIn(f[h].role, w) \ f[h].touch : Working(u, f) \/ w.drift[u] # {}

\* A call that takes the team's role away and found no tuples.
ClearFits(f, w) ==
  \A h \in Handler : f[h].op = "clearTeamRole" /\ f[h].pc = "update" /\ ~f[h].dirty =>
    w.fga[Team] = {} \/ w.drift[Team] # {} \/ Working(Team, f)

Drift(f, w) ==
  /\ Shapes(f, w) /\ Untouched(w) /\ Apart(f) /\ Sounds(f, w)
  /\ AllKept(f, w) /\ HoldersKnown(f, w) /\ ClearFits(f, w)

DriftInv == Drift(proc, World)

-----------------------------------------------------------------------------
(* A step of the call p, which holds T, changes nothing elsewhere.         *)

Elsewhere(p, T, w, v) ==
  /\ \A u \in User \ T : v.users[u] = w.users[u] /\ v.fga[u] = w.fga[u]
  /\ \A u \in User : Link(u) \notin T =>
       (u \in v.roster <=> u \in w.roster) /\ (u \in v.members <=> u \in w.members)
  /\ Team \notin T => /\ v.fga[Team] = w.fga[Team]
                      /\ Kept(Team, w) => Kept(Team, v)
                      /\ w.drift[Team] # {} => v.drift[Team] # {}
  /\ \A r \in Role \ T : v.role[r] = w.role[r]
  /\ \A x \in Thing \ (T \cup {Team}) : v.drift[x] = w.drift[x]
  /\ ~w.team.live => ~v.team.live
  /\ p.op \in {"accept", "deleteTeam"} => v.roster \subseteq w.roster /\ v.members \subseteq w.members
  /\ p.op = "accept" => v.members = w.members

\* Flags that change elsewhere leave no holder without a cause.
Outside(T, f, w, v) == \A u \in User \ T : Kept(u, w) => Working(u, f) \/ Kept(u, v)

InTeam(w) == w.roster \subseteq User /\ w.members \subseteq User

LEMMA Kinds ==
  /\ Team \in Thing /\ Team \notin User /\ Team \notin Role /\ Team \notin Links
  /\ User \subseteq Thing /\ Links \subseteq Thing /\ Thing = User \cup {Team} \cup Links
  /\ \A u \in User : Link(u) \in Links /\ u \notin Role /\ u \notin Links
  /\ \A r \in Role : r \notin Links /\ r \notin User /\ r # Team
  /\ \A u, v \in User : Link(u) = Link(v) => u = v
  /\ \A u, v \in User : Link(u) # v /\ Link(u) # Team
  /\ Absent \notin Role /\ NoRole \notin Role
<1>1. \A u, v : Link(u) = Link(v) => u = v
  BY DEF Link
<1>2. \A u \in User : Link(u) \in Links
  BY DEF Links
<1>3. Subject = User \cup {Team} /\ Thing = Subject \cup Links
  BY DEF Subject, Thing
<1> QED BY <1>1, <1>2, <1>3, KindsApart, OrgMembersAssumption

LEMMA LinkAgrees ==
  ASSUME NEW u \in User, NEW w
  PROVE  AgreesIn(Link(u), w) <=> (u \in w.roster <=> u \in w.members)
BY Kinds DEF AgreesIn

LEMMA UserAgrees ==
  ASSUME NEW u \in User, NEW w
  PROVE  AgreesIn(u, w) <=> w.fga[u] = IF w.users[u] # Absent THEN Grant(w.role[w.users[u]]) ELSE {}
BY Kinds DEF AgreesIn, GrantedIn

LEMMA TeamAgrees ==
  ASSUME NEW w
  PROVE  AgreesIn(Team, w) <=>
           ~w.team.live \/ w.fga[Team] = IF w.team.role = NoRole THEN {} ELSE Grant(w.role[w.team.role])
BY Kinds DEF AgreesIn, GrantedIn

\* What is known of a link a step does not touch stays known.
LEMMA LinkKept ==
  ASSUME NEW u \in User, NEW p, NEW T, NEW w, NEW v, Elsewhere(p, T, w, v), Link(u) \notin T
  PROVE  Kept(Link(u), w) <=> Kept(Link(u), v)
<1>1. (u \in v.roster <=> u \in w.roster) /\ (u \in v.members <=> u \in w.members)
  BY DEF Elsewhere
<1>2. v.drift[Link(u)] = w.drift[Link(u)]
  BY Kinds DEF Elsewhere
<1> QED BY <1>1, <1>2, LinkAgrees DEF Kept

\* A user apart from the step, whose role has kept its flags.
LEMMA UserKept ==
  ASSUME NEW u \in User, NEW p, NEW T, NEW w, NEW v, Elsewhere(p, T, w, v), u \notin T,
         w.users[u] # Absent => v.role[w.users[u]] = w.role[w.users[u]]
  PROVE  Kept(u, w) <=> Kept(u, v)
<1>1. v.users[u] = w.users[u] /\ v.fga[u] = w.fga[u] /\ v.drift[u] = w.drift[u]
  BY Kinds DEF Elsewhere
<1> QED BY <1>1, UserAgrees DEF Kept

LEMMA OutsideSame ==
  ASSUME NEW p, NEW T, NEW f, NEW w, NEW v, Elsewhere(p, T, w, v), v.role = w.role
  PROVE  Outside(T, f, w, v)
BY UserKept DEF Outside

LEMMA ReplacingStays ==
  ASSUME NEW p, NEW s, NEW w, NEW v, v.fga[s] = w.fga[s], v.role[p.role] = w.role[p.role],
         Replacing(p, s, w)
  PROVE  Replacing(p, s, v)
BY DEF Replacing

\* A call that does not overlap with the step is as far as it was.
LEMMA StaysSound ==
  ASSUME NEW q, NEW T, NEW w, NEW v, NEW p \in Frame, NamesFit(p), Elsewhere(q, T, w, v),
         InTeam(w), InTeam(v), TouchFits(p), StepsFit(p), p.touch \cap T = {}, Sound(p, w)
  PROVE  Sound(p, v)
<1>u. \A u \in User : u \in p.touch => /\ v.users[u] = w.users[u] /\ v.fga[u] = w.fga[u]
                                       /\ v.drift[u] = w.drift[u]
  BY Kinds DEF Elsewhere
<1>l. \A u \in User : Link(u) \in p.touch =>
        /\ (u \in v.roster <=> u \in w.roster) /\ (u \in v.members <=> u \in w.members)
        /\ v.drift[Link(u)] = w.drift[Link(u)] /\ (Kept(Link(u), w) <=> Kept(Link(u), v))
  <2> SUFFICES ASSUME NEW u \in User, Link(u) \in p.touch
               PROVE  /\ (u \in v.roster <=> u \in w.roster) /\ (u \in v.members <=> u \in w.members)
                      /\ v.drift[Link(u)] = w.drift[Link(u)] /\ (Kept(Link(u), w) <=> Kept(Link(u), v))
    OBVIOUS
  <2>1. Link(u) \notin T
    OBVIOUS
  <2>2. (u \in v.roster <=> u \in w.roster) /\ (u \in v.members <=> u \in w.members)
    BY <2>1 DEF Elsewhere
  <2>3. v.drift[Link(u)] = w.drift[Link(u)]
    BY <2>1, Kinds DEF Elsewhere
  <2>4. Kept(Link(u), w) <=> Kept(Link(u), v)
    BY <2>1, LinkKept
  <2> QED BY <2>2, <2>3, <2>4
<1>t. Team \in p.touch => v.fga[Team] = w.fga[Team] /\ (Kept(Team, w) => Kept(Team, v))
  BY DEF Elsewhere
<1>r. p.role \in Role /\ p.role \in p.touch => v.role[p.role] = w.role[p.role]
  BY DEF Elsewhere
<1>1. CASE p.op = "deleteUser"
  <2>1. p.user \in User /\ p.user \in p.touch /\ Link(p.user) \in p.touch
    BY <1>1 DEF NamesFit, TouchFits
  <2>2. SoundDeleteUser(p, w)
    BY <1>1 DEF Sound
  <2>3. SoundDeleteUser(p, v)
    BY <2>1, <2>2, <1>u, <1>l DEF SoundDeleteUser
  <2> QED BY <1>1, <2>3 DEF Sound
<1>2. CASE p.op = "setUserRole"
  <2>1. p.user \in User /\ p.user \in p.touch /\ p.role \in Role /\ p.role \in p.touch
    BY <1>2 DEF NamesFit, TouchFits
  <2>2. SoundSetUserRole(p, w)
    BY <1>2 DEF Sound
  <2>3. SoundSetUserRole(p, v)
    BY <2>1, <2>2, <1>u, <1>r, ReplacingStays DEF SoundSetUserRole, Replaced
  <2> QED BY <1>2, <2>3 DEF Sound
<1>3. CASE p.op = "setTeamRole"
  <2>1. p.role \in Role /\ p.role \in p.touch /\ Team \in p.touch
    BY <1>3 DEF NamesFit, TouchFits
  <2>2. SoundSetTeamRole(p, w)
    BY <1>3 DEF Sound
  <2>3. SoundSetTeamRole(p, v)
    BY <2>1, <2>2, <1>t, <1>r, ReplacingStays DEF SoundSetTeamRole, Replaced
  <2> QED BY <1>3, <2>3 DEF Sound
<1>4. CASE p.op = "clearTeamRole"
  <2>1. Team \in p.touch
    BY <1>4 DEF TouchFits
  <2>2. SoundClearTeamRole(p, w)
    BY <1>4 DEF Sound
  <2>3. Replacing(p, Team, v)
    <3>1. p.pc \notin {"fill", "fgaWrite", "role"}
      BY <1>4 DEF NamesFit, StepsFit
    <3> QED BY <3>1, <2>1, <2>2, <1>t DEF SoundClearTeamRole, Replacing
  <2>4. SoundClearTeamRole(p, v)
    BY <2>1, <2>2, <2>3, <1>t DEF SoundClearTeamRole
  <2> QED BY <1>4, <2>4 DEF Sound
<1>5. CASE p.op = "accept"
  <2>1. CASE p.dirty
    <3>1. p.user \in User /\ p.user \in p.touch /\ Link(p.user) \in p.touch /\ p.role \in Role
          /\ p.role \in p.touch
      BY <1>5, <2>1 DEF NamesFit, StepsFit, TouchFits
    <3>2. SoundAccept(p, w)
      BY <1>5 DEF Sound
    <3>3. SoundAccept(p, v)
      BY <2>1, <3>1, <3>2, <1>u, <1>l, <1>r, ReplacingStays DEF SoundAccept, Replaced
    <3> QED BY <1>5, <3>3 DEF Sound
  <2>2. CASE ~p.dirty
    BY <1>5, <2>2 DEF Sound, SoundAccept
  <2> QED BY <2>1, <2>2
<1>6. CASE p.op \in {"addMember", "removeMember"}
  <2>1. p.user \in User /\ Link(p.user) \in p.touch
    BY <1>6 DEF NamesFit, TouchFits
  <2>2. /\ p.op = "addMember" => SoundAddMember(p, w)
        /\ p.op = "removeMember" => SoundRemoveMember(p, w)
    BY <1>6 DEF Sound
  <2>3. /\ p.op = "addMember" => SoundAddMember(p, v)
        /\ p.op = "removeMember" => SoundRemoveMember(p, v)
    BY <2>1, <2>2, <1>l DEF SoundAddMember, SoundRemoveMember
  <2> QED BY <1>6, <2>3 DEF Sound
<1>7. CASE p.op = "deleteTeam"
  <2>1. \A u \in User : Link(u) \in p.touch
    BY <1>7, Kinds DEF TouchFits
  <2>2. v.roster = w.roster /\ v.members = w.members
    BY <2>1, <1>l DEF InTeam
  <2>3. SoundDeleteTeam(p, w)
    BY <1>7 DEF Sound
  <2>4. SoundDeleteTeam(p, v)
    BY <2>2, <2>3 DEF SoundDeleteTeam, Elsewhere
  <2> QED BY <1>7, <2>4 DEF Sound
<1>8. CASE p.op = "updateRole"
  <2>1. p.role \in Role /\ p.role \in p.touch
    BY <1>8 DEF NamesFit, TouchFits
  <2>2. SoundUpdateRole(p, w)
    BY <1>8 DEF Sound
  <2>3. p.touch \cap User \subseteq HoldersIn(p.role, v)
    BY <2>2, <1>u DEF SoundUpdateRole, HoldersIn
  <2>4. p.pc \in Resyncing \cup {"next", "invalidate"} =>
          p.done \subseteq p.touch \cap User /\ \A u \in p.done : Replaced(p, u, v)
    BY <2>1, <2>2, <1>u, <1>r DEF SoundUpdateRole, Replaced
  <2>5. p.pc \in Resyncing => Replacing(p, p.user, v)
    <3>1. p.pc \in Resyncing => p.user \in p.touch \cap User /\ Replacing(p, p.user, w)
      BY <1>8, <2>2 DEF TouchFits, SoundUpdateRole
    <3> QED BY <3>1, <2>1, <1>u, <1>r, ReplacingStays
  <2>6. SoundUpdateRole(p, v)
    BY <2>2, <2>3, <2>4, <2>5, <1>t DEF SoundUpdateRole
  <2> QED BY <1>8, <2>6 DEF Sound
<1>9. CASE p.op = "deleteRole"
  <2>1. p.role \in Role
    BY <1>9 DEF NamesFit
  <2>2. SoundDeleteRole(p, w)
    BY <1>9 DEF Sound
  <2>3. \A x \in p.touch \cap Thing : x \in User \/ x = Team \/ \E u \in User : x = Link(u)
    BY Kinds DEF Links
  <2>4. \A x \in p.touch \cap Thing : /\ x \in User => v.drift[x] = w.drift[x]
                                      /\ x \notin User /\ Kept(x, w) => Kept(x, v)
    BY <2>3, <1>u, <1>l, <1>t
  <2>5. SoundDeleteRole(p, v)
    BY <2>2, <2>4, <1>u DEF SoundDeleteRole, HoldersIn
  <2> QED BY <1>9, <2>5 DEF Sound
<1>10. CASE p.op \notin {"deleteUser", "setUserRole", "setTeamRole", "clearTeamRole", "accept", "addMember",
                         "removeMember", "deleteTeam", "updateRole", "deleteRole"}
  BY <1>10 DEF Sound
<1> QED BY <1>1, <1>2, <1>3, <1>4, <1>5, <1>6, <1>7, <1>8, <1>9, <1>10

\* An acceptance and the end of the team share a link and leave each other as
\* far as they are.
LEMMA ExceptedSound ==
  ASSUME NEW q, NEW T, NEW w, NEW v, NEW p \in Frame, NamesFit(p), Elsewhere(q, T, w, v),
         TouchFits(p), StepsFit(p), p.touch \cap T \subseteq Links, Sound(p, w),
         \/ p.op = "accept" /\ q.op = "deleteTeam"
         \/ p.op = "deleteTeam" /\ q.op = "accept"
  PROVE  Sound(p, v)
<1>1. v.roster \subseteq w.roster /\ v.members \subseteq w.members
  BY DEF Elsewhere
<1>2. CASE p.op = "accept"
  <2>1. CASE p.dirty
    <3>1. p.user \in User /\ p.user \in p.touch /\ p.role \in Role /\ p.role \in p.touch
      BY <1>2, <2>1 DEF NamesFit, StepsFit, TouchFits
    <3>2. p.user \notin T /\ p.role \notin T
      BY <3>1, Kinds
    <3>3. v.users[p.user] = w.users[p.user] /\ v.fga[p.user] = w.fga[p.user] /\ v.role[p.role] = w.role[p.role]
      BY <3>1, <3>2 DEF Elsewhere
    <3>4. SoundAccept(p, w)
      BY <1>2 DEF Sound
    <3>5. SoundAccept(p, v)
      BY <1>1, <2>1, <3>3, <3>4, ReplacingStays DEF SoundAccept, Replaced
    <3> QED BY <1>2, <3>5 DEF Sound
  <2>2. CASE ~p.dirty
    BY <1>2, <2>2 DEF Sound, SoundAccept
  <2> QED BY <2>1, <2>2
<1>3. CASE p.op = "deleteTeam" /\ q.op = "accept"
  <2>1. v.members = w.members /\ (~w.team.live => ~v.team.live)
    BY <1>3 DEF Elsewhere
  <2>2. SoundDeleteTeam(p, w)
    BY <1>3 DEF Sound
  <2>3. SoundDeleteTeam(p, v)
    BY <1>1, <2>1, <2>2 DEF SoundDeleteTeam
  <2> QED BY <1>3, <2>3 DEF Sound
<1> QED BY <1>2, <1>3

-----------------------------------------------------------------------------
(* A step of one call.                                                     *)

\* A frame that differs at most in that another call overlaps.
Same(p, q) ==
  /\ q.op = p.op /\ q.pc = p.pc /\ q.user = p.user /\ q.role = p.role /\ q.todo = p.todo
  /\ q.done = p.done /\ q.got = p.got /\ q.look = p.look /\ q.touch = p.touch /\ q.stale = p.stale
  /\ q.dirty = p.dirty /\ q.lost = p.lost
  /\ q = [p EXCEPT !.over = q.over]
  /\ p.over => q.over
  /\ p.touch = {} => q.over = p.over

LEMMA SameSound ==
  ASSUME NEW p, NEW q, NEW w, Same(p, q), Sound(p, w)
  PROVE  Sound(q, w)
BY DEF Same, Sound, SoundDeleteUser, SoundSetUserRole, SoundSetTeamRole, SoundClearTeamRole, SoundAccept,
       SoundAddMember, SoundRemoveMember, SoundDeleteTeam, SoundUpdateRole, SoundDeleteRole,
       Replacing, Replaced

LEMMA SameShape ==
  ASSUME NEW p \in Frame, NEW q, NEW m, NEW n, Same(p, q), Shape(p, m), \A u \in User : m[u] # Nothing => n[u] # Nothing
  PROVE  Shape(q, n)
<1>1. p = NoCall => q = NoCall
  <2>0. NoCall.touch = {}
    BY DEF NoCall
  <2>1. p = NoCall => q.over = p.over
    BY <2>0 DEF Same
  <2>2. [p EXCEPT !.over = p.over] = p
    BY DEF Frame
  <2> QED BY <2>1, <2>2 DEF Same
<1> QED BY <1>1 DEF Same, Shape, TouchFits, DirtyFits, StepsFit, NamesKnown

\* What a step of p leaves of a thing p was or is at work on: it is at work
\* still, a cause is recorded, the step has not changed it, or all is well.
Left(x, f, p, q, w, v) ==
  \/ x \in q.touch /\ q.dirty
  \/ v.drift[x] # {}
  \/ /\ ~p.dirty /\ v.drift[x] = w.drift[x]
     /\ x \in Subject => v.fga[x] = w.fga[x]
     /\ x \in User => v.users[x] = w.users[x]
     /\ Working(x, f) \/ Kept(x, v)
  \/ /\ ~p.over /\ x \in p.touch /\ AgreesIn(x, v)
     /\ x \in User => v.users[x] \in {Absent} \cup p.touch

Moves(f, g, h, w, v) ==
  LET p == f[h]
      q == g[h]
      T == p.touch \cup q.touch
  IN /\ \A k \in Handler \ {h} : Same(f[k], g[k])
     /\ q.op = p.op \/ q.touch = {} \/ v = w
     /\ Apart(g)
     /\ Elsewhere(p, T, w, v) /\ Outside(T, f, w, v)
     /\ Shape(q, v.mail) /\ Untouched(v)
     /\ \A u \in User : w.mail[u] # Nothing => v.mail[u] # Nothing
     /\ ~q.over => Sound(q, v)
     /\ \A x \in T \cap Thing : Left(x, f, p, q, w, v)
     /\ q.op = "updateRole" /\ q.pc = "start" => HoldersIn(q.role, v) \subseteq q.touch
     /\ q.op = "clearTeamRole" /\ q.pc = "update" /\ ~q.dirty =>
          v.fga[Team] = {} \/ v.drift[Team] # {} \/ Working(Team, g)

\* Another call that is at work on x is so still.
LEMMA WorkGoesOn ==
  ASSUME NEW f, NEW g, NEW h \in Handler, \A k \in Handler \ {h} : Same(f[k], g[k]), NEW x,
         x \notin f[h].touch \/ ~f[h].dirty, Working(x, f)
  PROVE  Working(x, g)
<1>1. PICK k \in Handler : x \in f[k].touch /\ f[k].dirty
  BY DEF Working
<1>2. k # h
  BY <1>1
<1>3. Same(f[k], g[k])
  BY <1>2
<1> QED BY <1>1, <1>3 DEF Working, Same

\* Two calls on a common thing overlap, a role or a user above all.
LEMMA Overlap ==
  ASSUME NEW f, Apart(f), NEW h \in Handler, NEW k \in Handler, h # k,
         NEW x, x \in f[h].touch, x \in f[k].touch,
         x \notin Links \/ (f[h].op # "accept" /\ f[k].op # "accept")
  PROVE  f[h].over /\ f[k].over
<1>1. f[h].touch \cap f[k].touch # {}
  OBVIOUS
<1>2. ~Excepted(f[h], f[k]) /\ ~Excepted(f[k], f[h])
  BY DEF Excepted
<1> QED BY <1>1, <1>2 DEF Apart

LEMMA MovesSound ==
  ASSUME NEW f, NEW g, NEW h \in Handler, NEW w, NEW v, InTeam(w), InTeam(v),
         \A k \in Handler : Fits(f[k]), Drift(f, w), Moves(f, g, h, w, v)
  PROVE  Sounds(g, v)
<1> DEFINE p == f[h]
           q == g[h]
           T == p.touch \cup q.touch
<1>1. ASSUME NEW k \in Handler, k # h, ~g[k].over
      PROVE  Sound(g[k], v)
  <2>1. Same(f[k], g[k])
    BY <1>1 DEF Moves
  <2>2. ~f[k].over /\ g[k].touch = f[k].touch /\ g[k].op = f[k].op
    BY <1>1, <2>1 DEF Same
  <2>3. Sound(f[k], w) /\ TouchFits(f[k]) /\ StepsFit(f[k])
    BY <2>2 DEF Drift, Sounds, Shapes, Shape
  <2>4. f[k] \in Frame /\ NamesFit(f[k])
    BY DEF Fits
  <2>5. Sound(f[k], v)
    <3>1. CASE v = w
      BY <3>1, <2>3
    <3>2. CASE q.op = p.op \/ q.touch = {}
      <4>e. Elsewhere(p, T, w, v)
        BY DEF Moves
      <4>1. \/ f[k].touch \cap p.touch = {}
            \/ Excepted(f[k], p) \/ Excepted(p, f[k])
        BY <1>1, <2>2 DEF Drift, Apart
      <4>2. \/ f[k].touch \cap q.touch = {}
            \/ Excepted(g[k], q) \/ Excepted(q, g[k])
        BY <1>1, <2>2 DEF Moves, Apart
      <4>3. CASE f[k].touch \cap T = {}
        BY <4>e, <4>3, <2>3, <2>4, StaysSound
      <4>4. CASE f[k].touch \cap T # {}
        <5>1. \/ f[k].op = "accept" /\ p.op = "deleteTeam"
              \/ f[k].op = "deleteTeam" /\ p.op = "accept"
          BY <3>2, <4>1, <4>2, <4>4, <2>2 DEF Excepted
        <5>2. f[k].touch \cap T \subseteq Links
          BY <3>2, <4>1, <4>2, <4>4, <2>2 DEF Excepted
        <5> HIDE DEF p, q, T
        <5> QED BY <4>e, <5>1, <5>2, <2>3, <2>4, ExceptedSound
      <4> QED BY <4>3, <4>4
    <3> QED BY <3>1, <3>2 DEF Moves
  <2> QED BY <2>1, <2>5, SameSound
<1>2. ~g[h].over => Sound(g[h], v)
  BY DEF Moves
<1> QED BY <1>1, <1>2 DEF Sounds

LEMMA MovesKept ==
  ASSUME NEW f, NEW g, NEW h \in Handler, NEW w, NEW v, Drift(f, w), Moves(f, g, h, w, v)
  PROVE  AllKept(g, v)
<1> DEFINE p == f[h]
           q == g[h]
           T == p.touch \cup q.touch
<1>s. \A k \in Handler \ {h} : Same(f[k], g[k])
  BY DEF Moves
<1>e. Elsewhere(p, T, w, v) /\ Outside(T, f, w, v)
  BY DEF Moves
<1> SUFFICES ASSUME NEW x \in Thing PROVE Working(x, g) \/ Kept(x, v)
  BY DEF AllKept
<1>0. Working(x, f) \/ Kept(x, w)
  BY DEF Drift, AllKept
<1>1. CASE x \in T
  <2>1. Left(x, f, p, q, w, v)
    BY <1>1 DEF Moves
  <2>2. CASE x \in q.touch /\ q.dirty
    BY <2>2 DEF Working
  <2>3. CASE ~p.dirty /\ Working(x, f)
    BY <2>3, <1>s, WorkGoesOn
  <2>4. CASE Kept(x, v)
    BY <2>4
  <2> QED BY <2>1, <2>2, <2>3, <2>4 DEF Left, Kept
<1>2. CASE x \notin T
  <2>1. Working(x, f) => Working(x, g)
    BY <1>2, <1>s, WorkGoesOn
  <2>2. CASE x \in User
    BY <1>0, <1>2, <1>e, <2>1, <2>2 DEF Outside
  <2>3. CASE x = Team
    BY <1>0, <1>2, <1>e, <2>1, <2>3 DEF Elsewhere
  <2>4. CASE x \in Links
    <3>1. PICK u \in User : x = Link(u)
      BY <2>4 DEF Links
    <3> HIDE DEF p, q, T
    <3> QED BY <1>0, <1>2, <1>e, <2>1, <3>1, LinkKept
  <2> QED BY <2>2, <2>3, <2>4, Kinds
<1> QED BY <1>1, <1>2

LEMMA MovesHolders ==
  ASSUME NEW f, NEW g, NEW h \in Handler, NEW w, NEW v, \A k \in Handler : Fits(f[k]),
         Drift(f, w), Moves(f, g, h, w, v)
  PROVE  HoldersKnown(g, v)
<1> DEFINE p == f[h]
           q == g[h]
           T == p.touch \cup q.touch
<1>s. \A k \in Handler \ {h} : Same(f[k], g[k])
  BY DEF Moves
<1>e. Elsewhere(p, T, w, v)
  BY DEF Moves
<1> SUFFICES ASSUME NEW k \in Handler, g[k].op = "updateRole", g[k].pc = "start",
                    NEW u \in HoldersIn(g[k].role, v) \ g[k].touch
             PROVE  Working(u, g) \/ v.drift[u] # {}
  BY DEF HoldersKnown
<1>1. k # h
  BY DEF Moves
<1>2. /\ f[k].op = "updateRole" /\ f[k].pc = "start" /\ f[k].role = g[k].role
      /\ f[k].touch = g[k].touch
  BY <1>1, <1>s DEF Same
<1>3. u \in User /\ u \in Thing /\ v.users[u] = g[k].role /\ u \notin g[k].touch
  BY Kinds DEF HoldersIn
<1>4. f[k].role \in Role /\ f[k].role \in f[k].touch
  <2>1. NamesFit(f[k])
    BY DEF Fits
  <2> QED BY <1>2, <2>1 DEF Drift, Shapes, Shape, TouchFits, NamesFit
<1>5. v.users[u] = w.users[u] => Working(u, f) \/ w.drift[u] # {}
  BY <1>2, <1>3 DEF Drift, HoldersKnown, HoldersIn
<1>6. CASE u \notin T
  <2>1. v.users[u] = w.users[u] /\ v.drift[u] = w.drift[u]
    BY <1>3, <1>6, <1>e, Kinds DEF Elsewhere
  <2>2. Working(u, f) => Working(u, g)
    BY <1>6, <1>s, WorkGoesOn
  <2> QED BY <1>5, <2>1, <2>2
<1>7. CASE u \in T
  <2>1. Left(u, f, p, q, w, v)
    BY <1>3, <1>7 DEF Moves
  <2>2. CASE u \in q.touch /\ q.dirty
    BY <2>2 DEF Working
  <2>3. CASE ~p.dirty /\ v.drift[u] = w.drift[u] /\ v.users[u] = w.users[u]
    BY <1>5, <2>3, <1>s, WorkGoesOn
  <2>4. CASE ~p.over /\ v.users[u] \in {Absent} \cup p.touch
    <3>1. f[k].role \in p.touch
      BY <1>2, <1>3, <1>4, <2>4, Kinds
    <3>2. p.over
      BY <1>1, <1>4, <3>1, Overlap, Kinds DEF Drift
    <3> QED BY <2>4, <3>2
  <2> QED BY <1>3, <2>1, <2>2, <2>3, <2>4 DEF Left
<1> QED BY <1>6, <1>7

LEMMA MovesClear ==
  ASSUME NEW f, NEW g, NEW h \in Handler, NEW w, NEW v, Drift(f, w), Moves(f, g, h, w, v)
  PROVE  ClearFits(g, v)
<1> DEFINE p == f[h]
           q == g[h]
           T == p.touch \cup q.touch
<1>s. \A k \in Handler \ {h} : Same(f[k], g[k])
  BY DEF Moves
<1>e. Elsewhere(p, T, w, v)
  BY DEF Moves
<1> SUFFICES ASSUME NEW k \in Handler, g[k].op = "clearTeamRole", g[k].pc = "update", ~g[k].dirty
             PROVE  v.fga[Team] = {} \/ v.drift[Team] # {} \/ Working(Team, g)
  BY DEF ClearFits
<1>1. CASE k = h
  BY <1>1 DEF Moves
<1>2. CASE k # h
  <2>1. f[k].op = "clearTeamRole" /\ f[k].pc = "update" /\ ~f[k].dirty /\ f[k].touch = g[k].touch
    BY <1>2, <1>s DEF Same
  <2>2. w.fga[Team] = {} \/ w.drift[Team] # {} \/ Working(Team, f)
    BY <2>1 DEF Drift, ClearFits
  <2>3. Team \in f[k].touch
    BY <2>1 DEF Drift, Shapes, Shape, TouchFits
  <2>4. CASE Team \notin T
    <3>1. v.fga[Team] = w.fga[Team] /\ (w.drift[Team] # {} => v.drift[Team] # {})
      BY <1>e, <2>4 DEF Elsewhere
    <3> QED BY <2>2, <2>4, <3>1, <1>s, WorkGoesOn
  <2>5. CASE Team \in T
    <3>1. Left(Team, f, p, q, w, v)
      BY <2>5, Kinds DEF Moves
    <3>2. CASE Team \in q.touch /\ q.dirty
      BY <3>2 DEF Working
    <3>3. CASE ~p.dirty /\ v.drift[Team] = w.drift[Team] /\ v.fga[Team] = w.fga[Team]
      BY <2>2, <3>3, <1>s, WorkGoesOn
    <3>4. CASE ~p.over /\ Team \in p.touch
      BY <1>2, <2>3, <3>4, Overlap, Kinds DEF Drift
    <3> QED BY <3>1, <3>2, <3>3, <3>4 DEF Left, Subject
  <2> QED BY <2>4, <2>5
<1> QED BY <1>1, <1>2

LEMMA MovesDrift ==
  ASSUME NEW f, NEW g, NEW h \in Handler, NEW w, NEW v, InTeam(w), InTeam(v),
         \A k \in Handler : Fits(f[k]), Drift(f, w), Moves(f, g, h, w, v)
  PROVE  Drift(g, v)
<1>1. Shapes(g, v)
  <2>1. ASSUME NEW k \in Handler, k # h PROVE Shape(g[k], v.mail)
    <3>1. Same(f[k], g[k]) /\ \A u \in User : w.mail[u] # Nothing => v.mail[u] # Nothing
      BY <2>1 DEF Moves
    <3>2. f[k] \in Frame /\ Shape(f[k], w.mail)
      BY DEF Fits, Drift, Shapes
    <3> QED BY <3>1, <3>2, SameShape
  <2>2. Shape(g[h], v.mail)
    BY DEF Moves
  <2> QED BY <2>1, <2>2 DEF Shapes
<1>2. Untouched(v) /\ Apart(g)
  BY DEF Moves
<1> QED BY <1>1, <1>2, MovesSound, MovesKept, MovesHolders, MovesClear DEF Drift

-----------------------------------------------------------------------------
(* The tables before and after a step.                                     *)

LEMMA Worlds ==
  /\ World.role = role /\ World.users = users /\ World.mail = mail /\ World.team = team
  /\ World.roster = roster /\ World.fga = fga /\ World.members = members /\ World.drift = drift
  /\ World'.role = role' /\ World'.users = users' /\ World'.mail = mail' /\ World'.team = team'
  /\ World'.roster = roster' /\ World'.fga = fga' /\ World'.members = members' /\ World'.drift = drift'
<1>1. /\ World.role = role /\ World.users = users /\ World.mail = mail /\ World.team = team
      /\ World.roster = roster /\ World.fga = fga /\ World.members = members /\ World.drift = drift
  BY DEF World
<1>2. /\ World'.role = role' /\ World'.users = users' /\ World'.mail = mail' /\ World'.team = team'
      /\ World'.roster = roster' /\ World'.fga = fga' /\ World'.members = members' /\ World'.drift = drift'
  BY DEF World
<1> QED BY <1>1, <1>2

LEMMA WorldSame ==
  ASSUME UNCHANGED <<role, users, mail, team, roster, fga, members, drift>>
  PROVE  World' = World
BY DEF World

LEMMA DriftInvIs ==
  /\ DriftInv <=> Drift(proc, World)
  /\ DriftInv' <=> Drift(proc', World')
BY DEF DriftInv

LEMMA InTeams ==
  /\ Inv => InTeam(World)
  /\ Inv' => InTeam(World')
<1>1. Inv => InTeam(World)
  BY Worlds DEF Inv, TablesTyped, InTeam
<1>2. Inv' => InTeam(World')
  BY Worlds DEF Inv, TablesTyped, InTeam
<1> QED BY <1>1, <1>2

-----------------------------------------------------------------------------
(* Steps within a call and its end.                                        *)

LEMMA SameSelf ==
  ASSUME NEW p \in Frame
  PROVE  Same(p, p)
<1>1. [p EXCEPT !.over = p.over] = p
  BY DEF Frame
<1> QED BY <1>1 DEF Same

LEMMA NoCallShape ==
  /\ NoCall.op = "none" /\ NoCall.pc = "idle" /\ NoCall.touch = {} /\ NoCall.dirty = FALSE
  /\ \A m : Shape(NoCall, m)
  /\ \A w : Sound(NoCall, w)
<1>1. NoCall.op = "none" /\ NoCall.pc = "idle" /\ NoCall.touch = {} /\ NoCall.dirty = FALSE
  BY DEF NoCall
<1>2. \A m : Shape(NoCall, m)
  BY <1>1 DEF Shape, TouchFits, DirtyFits, StepsFit, NamesKnown
<1>3. \A w : Sound(NoCall, w)
  BY <1>1 DEF Sound
<1> QED BY <1>1, <1>2, <1>3

LEMMA Untouchables ==
  ASSUME NEW p, NEW w, NEW v, Elsewhere(p, p.touch, w, v), NamesKnown(p, w.mail),
         Untouched(w), v.mail = w.mail
  PROVE  Untouched(v)
<1> SUFFICES ASSUME NEW u \in User, v.mail[u] = Nothing
             PROVE  v.users[u] = Absent /\ v.fga[u] = {} /\ u \notin v.roster /\ u \notin v.members
  BY DEF Untouched
<1>1. w.users[u] = Absent /\ w.fga[u] = {} /\ u \notin w.roster /\ u \notin w.members
  BY DEF Untouched
<1>2. u \notin p.touch /\ (Link(u) \notin p.touch \/ p.op = "deleteTeam")
  BY DEF NamesKnown
<1> QED BY <1>1, <1>2 DEF Elsewhere

\* A step that keeps what its call has taken hold of, or ends the call.
LEMMA StepDrift ==
  ASSUME Inv, Inv', DriftInv, NEW h \in Handler, NEW q, proc' = [proc EXCEPT ![h] = q], mail' = mail,
         \/ q = NoCall
         \/ /\ q.op = proc[h].op /\ q.touch = proc[h].touch /\ q.over = proc[h].over
            /\ q.pc # "start" /\ TouchFits(q) /\ DirtyFits(q) /\ StepsFit(q)
            /\ ~q.over => Sound(q, World'),
         Elsewhere(proc[h], proc[h].touch, World, World'), Outside(proc[h].touch, proc, World, World'),
         \A x \in proc[h].touch \cap Thing : Left(x, proc, proc[h], q, World, World'),
         q.op = "clearTeamRole" /\ q.pc = "update" /\ ~q.dirty => fga'[Team] = {}
  PROVE  DriftInv'
<1> DEFINE p == proc[h]
<1>1. \A k \in Handler : Fits(proc[k]) /\ proc[k] \in Frame
  BY DEF Inv, FramesFit, Fits
<1>2. proc'[h] = q /\ \A k \in Handler \ {h} : proc'[k] = proc[k]
  BY DEF Inv, FramesFit
<1>3. q.touch \in {{}, p.touch} /\ p.touch \cup q.touch = p.touch
  BY NoCallShape
<1>4. Drift(proc, World)
  BY DriftInvIs
<1>5. \A k \in Handler \ {h} : Same(proc[k], proc'[k])
  BY <1>1, <1>2, SameSelf
<1>6. Apart(proc')
  <2>1. ASSUME NEW g \in Handler, NEW k \in Handler, g # k
        PROVE  \/ proc'[g].touch \cap proc'[k].touch = {}
               \/ proc'[g].over /\ proc'[k].over
               \/ Excepted(proc'[g], proc'[k]) \/ Excepted(proc'[k], proc'[g])
    <3>1. \/ proc[g].touch \cap proc[k].touch = {}
          \/ proc[g].over /\ proc[k].over
          \/ Excepted(proc[g], proc[k]) \/ Excepted(proc[k], proc[g])
      BY <2>1, <1>4 DEF Drift, Apart
    <3>2. ASSUME NEW l \in {g, k}
          PROVE  \/ proc'[l].touch = {}
                 \/ /\ proc'[l].touch = proc[l].touch /\ proc'[l].op = proc[l].op
                    /\ proc'[l].over = proc[l].over
      BY <1>2, <3>2, NoCallShape
    <3>3. CASE proc'[g].touch = {} \/ proc'[k].touch = {}
      BY <3>3
    <3>4. CASE \A l \in {g, k} : /\ proc'[l].touch = proc[l].touch /\ proc'[l].op = proc[l].op
                                 /\ proc'[l].over = proc[l].over
      BY <3>1, <3>4 DEF Excepted
    <3> QED BY <3>2, <3>3, <3>4
  <2> QED BY <2>1 DEF Apart
<1>7. World'.mail = World.mail
  BY Worlds
<1>8. NamesKnown(p, World.mail) /\ Untouched(World)
  BY <1>4 DEF Drift, Shapes, Shape
<1>9. Untouched(World')
  BY <1>7, <1>8, Untouchables
<1>10. Shape(q, World'.mail)
  <2>1. CASE q = NoCall
    BY <2>1, NoCallShape
  <2>2. CASE q.op = p.op /\ q.touch = p.touch /\ TouchFits(q) /\ DirtyFits(q) /\ StepsFit(q)
    BY <2>2, <1>7, <1>8 DEF Shape, NamesKnown
  <2> QED BY <2>1, <2>2
<1>11. Moves(proc, proc', h, World, World')
  <2>1. ~q.over => Sound(q, World')
    BY NoCallShape
  <2>2. q.op = p.op \/ q.touch = {}
    BY NoCallShape
  <2>3. ~(q.op = "updateRole" /\ q.pc = "start")
    BY NoCallShape
  <2>4. q.op = "clearTeamRole" /\ q.pc = "update" /\ ~q.dirty => World'.fga[Team] = {}
    BY Worlds
  <2>5. proc[h].touch \cup proc'[h].touch = proc[h].touch
    BY <1>2, <1>3
  <2>6. /\ Elsewhere(proc[h], proc[h].touch \cup proc'[h].touch, World, World')
        /\ Outside(proc[h].touch \cup proc'[h].touch, proc, World, World')
    BY <2>5
  <2>7. \A x \in (proc[h].touch \cup proc'[h].touch) \cap Thing :
          Left(x, proc, proc[h], proc'[h], World, World')
    BY <1>2, <2>5
  <2>8. /\ Shape(proc'[h], World'.mail) /\ (~proc'[h].over => Sound(proc'[h], World'))
        /\ proc'[h].op = proc[h].op \/ proc'[h].touch = {}
        /\ ~(proc'[h].op = "updateRole" /\ proc'[h].pc = "start")
        /\ proc'[h].op = "clearTeamRole" /\ proc'[h].pc = "update" /\ ~proc'[h].dirty
             => World'.fga[Team] = {}
    BY <1>2, <1>10, <2>1, <2>2, <2>3, <2>4
  <2> QED BY <1>5, <1>6, <1>7, <1>9, <2>6, <2>7, <2>8 DEF Moves
<1> QED BY <1>1, <1>4, <1>11, InTeams, MovesDrift, DriftInvIs

\* What a step may do to the tables that changes nothing elsewhere.
LEMMA ElsewhereHolds ==
  ASSUME NEW p, NEW T, role' = role, Team \in T \/ team' = team, ~team.live => ~team'.live,
         \A u \in User \ T : users'[u] = users[u],
         \A s \in Subject \ T : fga'[s] = fga[s],
         \A u \in User : Link(u) \notin T =>
           (u \in roster' <=> u \in roster) /\ (u \in members' <=> u \in members),
         \A x \in Thing \ T : drift'[x] = drift[x],
         p.op \in {"accept", "deleteTeam"} => roster' \subseteq roster /\ members' \subseteq members,
         p.op = "accept" => members' = members
  PROVE  Elsewhere(p, T, World, World') /\ Outside(T, proc, World, World')
<1>1. User \subseteq Subject /\ Team \in Subject
  BY DEF Subject
<1>2. Team \notin T => /\ fga'[Team] = fga[Team] /\ drift'[Team] = drift[Team]
                       /\ Kept(Team, World) => Kept(Team, World')
  <2> SUFFICES ASSUME Team \notin T
               PROVE  /\ fga'[Team] = fga[Team] /\ drift'[Team] = drift[Team]
                      /\ Kept(Team, World) => Kept(Team, World')
    OBVIOUS
  <2>1. fga'[Team] = fga[Team] /\ drift'[Team] = drift[Team] /\ team' = team
    BY <1>1, Kinds
  <2> QED BY <2>1, Worlds, TeamAgrees DEF Kept
<1>3. Elsewhere(p, T, World, World')
  BY <1>1, <1>2, Worlds, Kinds DEF Elsewhere
<1> QED BY <1>3, Worlds, OutsideSame

\* A step that leaves what the tuples follow from and the tuples alone.
LEMMA SilentStep ==
  ASSUME Inv, Inv', DriftInv, NEW h \in Handler, NEW q, proc' = [proc EXCEPT ![h] = q],
         UNCHANGED <<role, users, mail, team, roster, fga, members, drift>>,
         q.op = proc[h].op, q.touch = proc[h].touch, q.over = proc[h].over, q.dirty = proc[h].dirty,
         q.pc # "start", TouchFits(q), DirtyFits(q), StepsFit(q),
         ~q.over => Sound(q, World),
         q.op = "clearTeamRole" /\ q.pc = "update" => fga[Team] = {}
  PROVE  DriftInv'
<1>1. World' = World
  BY WorldSame
<1>2. Elsewhere(proc[h], proc[h].touch, World, World') /\ Outside(proc[h].touch, proc, World, World')
  BY ElsewhereHolds
<1>3. ASSUME NEW x \in proc[h].touch \cap Thing
      PROVE  Left(x, proc, proc[h], q, World, World')
  <2>1. Working(x, proc) \/ Kept(x, World)
    BY DriftInvIs DEF Drift, AllKept
  <2> QED BY <1>1, <2>1 DEF Left
<1>4. ~q.over => Sound(q, World')
  BY <1>1
<1> QED BY <1>2, <1>3, <1>4, StepDrift

\* A step after which the call is at work on what it holds.
LEMMA BusyStep ==
  ASSUME Inv, Inv', DriftInv, NEW h \in Handler, NEW q, proc' = [proc EXCEPT ![h] = q], mail' = mail,
         q.op = proc[h].op, q.touch = proc[h].touch, q.over = proc[h].over, q.dirty,
         q.pc # "start", TouchFits(q), DirtyFits(q), StepsFit(q),
         ~q.over => Sound(q, World'),
         Elsewhere(proc[h], proc[h].touch, World, World'), Outside(proc[h].touch, proc, World, World')
  PROVE  DriftInv'
<1>1. \A x \in proc[h].touch \cap Thing : Left(x, proc, proc[h], q, World, World')
  BY DEF Left
<1> QED BY <1>1, StepDrift

\* A call ends and whatever it was at work on is all right or has a cause.
LEMMA EndDrift ==
  ASSUME Inv, Inv', DriftInv, NEW h \in Handler, NEW healed, NEW why, End(h, healed, why), mail' = mail,
         Elsewhere(proc[h], proc[h].touch, World, World'), Outside(proc[h].touch, proc, World, World'),
         ~proc[h].dirty => UNCHANGED <<role, users, team, roster, fga, members>>,
         proc[h].dirty /\ why = {} /\ ~proc[h].over =>
           \A x \in proc[h].touch \cap Thing :
             \/ drift'[x] # {}
             \/ AgreesIn(x, World') /\ (x \in User => users'[x] \in {Absent} \cup proc[h].touch)
  PROVE  DriftInv'
<1> DEFINE p == proc[h]
<1>1. proc' = [proc EXCEPT ![h] = NoCall] /\ drift' = Verdict(p, healed, why)
  BY DEF End
<1>2. ASSUME NEW x \in p.touch \cap Thing
      PROVE  Left(x, proc, p, NoCall, World, World')
  <2>1. CASE ~p.dirty
    <3>1. drift'[x] = drift[x]
      BY <1>1, <2>1 DEF Verdict
    <3>2. AgreesIn(x, World) <=> AgreesIn(x, World')
      BY <2>1, Worlds DEF AgreesIn, GrantedIn
    <3>3. Working(x, proc) \/ Kept(x, World)
      BY DriftInvIs DEF Drift, AllKept
    <3> QED BY <2>1, <3>1, <3>2, <3>3, Worlds DEF Left, Kept
  <2>2. CASE p.dirty /\ (why # {} \/ p.over)
    <3>1. drift'[x] # {}
      BY <1>1, <2>2 DEF Verdict
    <3> QED BY <3>1, Worlds DEF Left
  <2>3. CASE p.dirty /\ why = {} /\ ~p.over
    BY <2>3, Worlds DEF Left
  <2> QED BY <2>1, <2>2, <2>3
<1> QED BY <1>1, <1>2, NoCallShape, StepDrift

\* A call that ends where it has changed nothing else is no cause of a doubt.
LEMMA EndElsewhere ==
  ASSUME NEW h \in Handler, NEW healed, NEW why, drift' = Verdict(proc[h], healed, why)
  PROVE  \A x \in Thing \ proc[h].touch : drift'[x] = drift[x]
BY DEF Verdict

\* A call fails or dies and has changed nothing in this step.
LEMMA BreakDrift ==
  ASSUME Inv, Inv', DriftInv, NEW h \in Handler, NEW healed, NEW why, End(h, healed, why), why # {},
         UNCHANGED <<role, users, mail, team, roster, fga, members>>
  PROVE  DriftInv'
<1>1. \A x \in Thing \ proc[h].touch : drift'[x] = drift[x]
  BY EndElsewhere DEF End
<1>2. Elsewhere(proc[h], proc[h].touch, World, World') /\ Outside(proc[h].touch, proc, World, World')
  BY <1>1, ElsewhereHolds
<1> QED BY <1>2, EndDrift

\* A call fails after a step whose effect on what it holds is not known.
LEMMA LossDrift ==
  ASSUME Inv, Inv', DriftInv, NEW h \in Handler, proc' = [proc EXCEPT ![h] = NoCall], mail' = mail,
         drift' = Verdict([proc[h] EXCEPT !.dirty = TRUE], {}, {"failure"}),
         Elsewhere(proc[h], proc[h].touch, World, World'), Outside(proc[h].touch, proc, World, World')
  PROVE  DriftInv'
<1> DEFINE d == [proc[h] EXCEPT !.dirty = TRUE]
<1>1. proc[h] \in Frame
  BY DEF Inv, FramesFit, Fits
<1>2. d.touch = proc[h].touch /\ d.dirty
  BY <1>1 DEF Frame
<1>3. ASSUME NEW x \in proc[h].touch \cap Thing
      PROVE  Left(x, proc, proc[h], NoCall, World, World')
  <2> HIDE DEF d
  <2>1. drift'[x] # {}
    BY <1>2 DEF Verdict
  <2> QED BY <2>1, Worlds DEF Left
<1> QED BY <1>3, NoCallShape, StepDrift

-----------------------------------------------------------------------------
(* Steps that look and decide.                                             *)

\* What is known of the call of a handler.
LEMMA Here ==
  ASSUME Inv, DriftInv, NEW h \in Handler
  PROVE  /\ proc[h] \in Frame /\ Fits(proc[h]) /\ NamesFit(proc[h]) /\ GuardFits(proc[h]) /\ CountFits(proc[h])
         /\ TouchFits(proc[h]) /\ DirtyFits(proc[h]) /\ StepsFit(proc[h]) /\ NamesKnown(proc[h], mail)
         /\ ~proc[h].over => Sound(proc[h], World)
         /\ proc[h].touch \subseteq Thing \cup Role
<1>1. Fits(proc[h]) /\ Drift(proc, World)
  BY DriftInvIs DEF Inv, FramesFit
<1>2. Shape(proc[h], mail) /\ (~proc[h].over => Sound(proc[h], World))
  BY <1>1, Worlds DEF Drift, Shapes, Sounds
<1>3. proc[h] \in Frame
  BY <1>1 DEF Fits
<1>4. proc[h].touch \subseteq Thing \cup Role
  BY <1>3 DEF Frame
<1> QED BY <1>1, <1>2, <1>3, <1>4 DEF Shape, Fits

\* What a call that no other overlaps is about to change is still all right.
LEMMA LoneKept ==
  ASSUME Inv, DriftInv, NEW h \in Handler, NEW x \in proc[h].touch \cap Thing,
         ~proc[h].over, ~proc[h].dirty, proc[h].op \notin {"accept", "deleteTeam"}
  PROVE  Kept(x, World)
<1>1. Drift(proc, World)
  BY DriftInvIs
<1>2. ASSUME Working(x, proc)
      PROVE  FALSE
  <2>1. PICK k \in Handler : x \in proc[k].touch /\ proc[k].dirty
    BY <1>2 DEF Working
  <2>2. k # h /\ proc[h].touch \cap proc[k].touch # {}
    BY <2>1
  <2>3. Excepted(proc[h], proc[k]) \/ Excepted(proc[k], proc[h])
    BY <1>1, <2>2 DEF Drift, Apart
  <2> QED BY <2>3 DEF Excepted
<1> QED BY <1>1, <1>2 DEF Drift, AllKept

\* A frame that goes on to a step.
LEMMA GoesTo ==
  ASSUME NEW p \in Frame, NEW l
  PROVE  LET q == [p EXCEPT !.pc = l]
         IN /\ q.pc = l /\ q.op = p.op /\ q.user = p.user /\ q.role = p.role /\ q.todo = p.todo
            /\ q.done = p.done /\ q.got = p.got /\ q.look = p.look /\ q.touch = p.touch
            /\ q.stale = p.stale /\ q.over = p.over /\ q.dirty = p.dirty /\ q.lost = p.lost
BY DEF Frame

LEMMA CountingDrift ==
  ASSUME Inv, Inv', DriftInv, NEW h \in Handler,
         ReadUsers(h) \/ ReadTeamMembers(h) \/ CountMembers(h) \/ CountInvites(h)
  PROVE  DriftInv'
<1> DEFINE p == proc[h]
<1>h. /\ p \in Frame /\ NamesFit(p) /\ GuardFits(p) /\ CountFits(p) /\ TouchFits(p) /\ DirtyFits(p)
      /\ StepsFit(p) /\ (~p.over => Sound(p, World))
  BY Here
<1>1. PICK q : /\ proc' = [proc EXCEPT ![h] = q]
               /\ q \in {[p EXCEPT !.first = x] : x \in {Direct, Count}}
                        \cup {[p EXCEPT !.second = x] : x \in {ViaTeam, Cardinality(Pending)}}
  BY DEF ReadUsers, ReadTeamMembers, CountMembers, CountInvites
<1>2. UNCHANGED <<role, users, mail, team, roster, fga, members, drift>>
  BY DEF ReadUsers, ReadTeamMembers, CountMembers, CountInvites, rows, tuples
<1>3. p.pc \in {"guard", "count"}
  BY DEF ReadUsers, ReadTeamMembers, CountMembers, CountInvites, At
<1>4. /\ q.pc = p.pc /\ q.op = p.op /\ q.user = p.user /\ q.role = p.role /\ q.todo = p.todo
      /\ q.done = p.done /\ q.got = p.got /\ q.look = p.look /\ q.touch = p.touch
      /\ q.stale = p.stale /\ q.over = p.over /\ q.dirty = p.dirty /\ q.lost = p.lost
  BY <1>h, <1>1 DEF Frame
<1>5. p.op \in {"deleteUser", "removeMember", "invite"}
  BY <1>h, <1>3 DEF GuardFits, CountFits
<1> HIDE DEF p
<1>6. TouchFits(q) /\ DirtyFits(q) /\ StepsFit(q)
  BY <1>h, <1>3, <1>4, <1>5 DEF TouchFits, DirtyFits, StepsFit
<1>7. ~q.over => Sound(q, World)
  BY <1>3, <1>4, <1>5 DEF Sound, SoundDeleteUser, SoundRemoveMember
<1> QED BY <1>1, <1>2, <1>3, <1>4, <1>5, <1>6, <1>7, SilentStep DEF p

LEMMA FailDrift ==
  ASSUME Inv, Inv', DriftInv, NEW h \in Handler, Fail(h),
         UNCHANGED <<role, users, mail, team, roster, fga, members>>
  PROVE  DriftInv'
BY BreakDrift DEF Fail

LEMMA EnsureOrgHasAdminDrift ==
  ASSUME Inv, Inv', DriftInv, NEW h \in Handler, EnsureOrgHasAdmin(h)
  PROVE  DriftInv'
<1> DEFINE p == proc[h]
           q == [p EXCEPT !.pc = "delete"]
<1>h. p \in Frame /\ GuardFits(p) /\ TouchFits(p) /\ StepsFit(p)
  BY Here
<1>1. UNCHANGED <<role, users, mail, team, roster, fga, members>>
  BY DEF EnsureOrgHasAdmin, rows, tuples
<1>2. CASE Fail(h)
  BY <1>1, <1>2, FailDrift
<1>3. CASE Goto(h, "delete") /\ UNCHANGED drift
  <2>1. p.op \in {"deleteUser", "removeMember"}
    BY <1>h DEF EnsureOrgHasAdmin, At, GuardFits
  <2>2. proc' = [proc EXCEPT ![h] = q]
    BY <1>3 DEF Goto
  <2>3. /\ q.pc = "delete" /\ q.op = p.op /\ q.touch = p.touch /\ q.over = p.over /\ q.dirty = p.dirty
        /\ q.user = p.user
    BY <1>h, GoesTo
  <2> HIDE DEF p, q
  <2>4. TouchFits(q) /\ DirtyFits(q) /\ StepsFit(q)
    BY <1>h, <2>1, <2>3 DEF TouchFits, DirtyFits, StepsFit
  <2>5. Sound(q, World)
    BY <2>1, <2>3 DEF Sound, SoundDeleteUser, SoundRemoveMember
  <2> QED BY <1>1, <1>3, <2>1, <2>2, <2>3, <2>4, <2>5, SilentStep DEF p
<1> QED BY <1>2, <1>3 DEF EnsureOrgHasAdmin

LEMMA AssertCountDrift ==
  ASSUME Inv, Inv', DriftInv, NEW h \in Handler, AssertCount(h)
  PROVE  DriftInv'
<1> DEFINE p == proc[h]
           q == [p EXCEPT !.pc = "insert"]
<1>h. p \in Frame /\ CountFits(p) /\ TouchFits(p) /\ DirtyFits(p) /\ StepsFit(p)
  BY Here
<1>1. UNCHANGED <<role, users, mail, team, roster, fga, members>>
  BY DEF AssertCount, rows, tuples
<1>2. CASE Fail(h)
  BY <1>1, <1>2, FailDrift
<1>3. CASE Goto(h, "insert") /\ UNCHANGED drift
  <2>1. p.op = "invite" /\ p.pc = "count"
    BY <1>h DEF AssertCount, At, CountFits
  <2>2. proc' = [proc EXCEPT ![h] = q]
    BY <1>3 DEF Goto
  <2>3. q.pc = "insert" /\ q.op = p.op /\ q.touch = p.touch /\ q.over = p.over /\ q.dirty = p.dirty
    BY <1>h, GoesTo
  <2> HIDE DEF p, q
  <2>4. TouchFits(q) /\ DirtyFits(q) /\ StepsFit(q)
    BY <1>h, <2>1, <2>3 DEF TouchFits, DirtyFits, StepsFit
  <2>5. Sound(q, World)
    BY <2>1, <2>3 DEF Sound
  <2> QED BY <1>1, <1>3, <2>1, <2>2, <2>3, <2>4, <2>5, SilentStep DEF p
<1> QED BY <1>2, <1>3 DEF AssertCount

LEMMA FindMembershipDrift ==
  ASSUME Inv, Inv', DriftInv, NEW h \in Handler, FindMembership(h)
  PROVE  DriftInv'
<1> DEFINE p == proc[h]
           l == IF HasMember(p.email) THEN "mark" ELSE "insert"
           q == [p EXCEPT !.pc = l]
<1>h. p \in Frame /\ NamesFit(p) /\ TouchFits(p) /\ DirtyFits(p) /\ StepsFit(p)
  BY Here
<1>1. UNCHANGED <<role, users, mail, team, roster, fga, members, drift>>
  BY DEF FindMembership, rows, tuples
<1>2. p.op = "accept" /\ ~p.dirty
  BY <1>h DEF FindMembership, At, NamesFit, DirtyFits
<1>3. proc' = [proc EXCEPT ![h] = q]
  BY DEF FindMembership, Goto
<1>4. /\ q.pc \in {"mark", "insert"} /\ q.op = p.op /\ q.touch = p.touch /\ q.over = p.over
      /\ q.dirty = p.dirty /\ q.role = p.role
  BY <1>h, GoesTo
<1> HIDE DEF p, q
<1>5. TouchFits(q) /\ DirtyFits(q) /\ StepsFit(q)
  BY <1>h, <1>2, <1>4 DEF TouchFits, DirtyFits, StepsFit
<1>6. Sound(q, World)
  BY <1>2, <1>4 DEF Sound, SoundAccept
<1> QED BY <1>1, <1>2, <1>3, <1>4, <1>5, <1>6, SilentStep DEF p

LEMMA MatchMembersDrift ==
  ASSUME Inv, Inv', DriftInv, NEW h \in Handler, MatchMembers(h)
  PROVE  DriftInv'
<1> DEFINE p == proc[h]
           q == [p EXCEPT !.pc = "mark", !.todo = {e \in @ : HasMember(e)}]
<1>h. p \in Frame /\ TouchFits(p) /\ DirtyFits(p) /\ StepsFit(p)
  BY Here
<1>1. UNCHANGED <<role, users, mail, team, roster, fga, members, drift>>
  BY DEF MatchMembers, rows, tuples
<1>2. p.op = "reconcile"
  BY <1>h DEF MatchMembers, At, StepsFit
<1>3. proc' = [proc EXCEPT ![h] = q]
  BY DEF MatchMembers
<1>4. q.pc = "mark" /\ q.op = p.op /\ q.touch = p.touch /\ q.over = p.over /\ q.dirty = p.dirty
  BY <1>h DEF Frame
<1> HIDE DEF p, q
<1>5. TouchFits(q) /\ DirtyFits(q) /\ StepsFit(q)
  BY <1>h, <1>2, <1>4 DEF TouchFits, DirtyFits, StepsFit
<1>6. Sound(q, World)
  BY <1>2, <1>4 DEF Sound
<1> QED BY <1>1, <1>2, <1>3, <1>4, <1>5, <1>6, SilentStep DEF p

-----------------------------------------------------------------------------
(* Steps on the tuples of a user or of the team.                           *)

Replacer == {"setUserRole", "setTeamRole", "clearTeamRole", "accept", "updateRole"}

LEMMA SubjHere ==
  ASSUME Inv, DriftInv, NEW h \in Handler, proc[h].pc \in {"fgaRead", "fgaDelete", "role", "fill", "fgaWrite"},
         proc[h].op # "readRole"
  PROVE  /\ proc[h].op \in Replacer \cup {"deleteUser"}
         /\ Subj(h) \in proc[h].touch /\ Subj(h) \in Subject
         /\ IF proc[h].op \in {"setTeamRole", "clearTeamRole"} THEN Subj(h) = Team
            ELSE Subj(h) = proc[h].user /\ proc[h].user \in User
         /\ proc[h].op = "accept" => proc[h].dirty
<1> DEFINE p == proc[h]
<1>h. NamesFit(p) /\ TouchFits(p) /\ DirtyFits(p) /\ StepsFit(p)
  BY Here
<1>1. p.op \in Replacer \cup {"deleteUser"}
  BY <1>h DEF NamesFit, StepsFit, Replacer
<1>2. p.op = "accept" => p.dirty
  BY <1>h DEF NamesFit, DirtyFits
<1>3. CASE p.op \in {"setTeamRole", "clearTeamRole"}
  BY <1>h, <1>1, <1>3 DEF TouchFits, Subj, Subject
<1>4. CASE p.op \in {"deleteUser", "setUserRole", "accept", "updateRole"}
  <2>1. Subj(h) = p.user
    BY <1>4 DEF Subj
  <2>2. p.user \in User /\ p.user \in p.touch
    BY <1>h, <1>2, <1>4 DEF NamesFit, TouchFits, StepsFit, Resyncing
  <2> QED BY <1>1, <1>2, <1>4, <2>1, <2>2 DEF Subject
<1> QED BY <1>1, <1>3, <1>4 DEF Replacer

LEMMA ReplacingHere ==
  ASSUME Inv, DriftInv, NEW h \in Handler, proc[h].pc \in {"fgaRead", "fgaDelete", "role", "fill", "fgaWrite"},
         proc[h].op \in Replacer, ~proc[h].over
  PROVE  Replacing(proc[h], Subj(h), World)
<1> DEFINE p == proc[h]
<1>h. Sound(p, World)
  BY Here
<1>1. p.op # "readRole"
  BY DEF Replacer
<1>2. /\ IF p.op \in {"setTeamRole", "clearTeamRole"} THEN Subj(h) = Team ELSE Subj(h) = p.user
      /\ p.op = "accept" => p.dirty
  BY <1>1, SubjHere
<1> QED BY <1>h, <1>2 DEF Replacer, Sound, SoundSetUserRole, SoundSetTeamRole, SoundClearTeamRole,
                         SoundAccept, SoundUpdateRole, Resyncing

\* The call goes on to replace the tuples of its subject.
LEMMA GoesOnSound ==
  ASSUME Inv, DriftInv, NEW h \in Handler, proc[h].pc \in {"fgaRead", "fgaDelete", "role", "fill", "fgaWrite"},
         proc[h].op \in Replacer, ~proc[h].over,
         NEW q, q.op = proc[h].op, q.user = proc[h].user, q.role = proc[h].role, q.todo = proc[h].todo,
         q.done = proc[h].done, q.touch = proc[h].touch, proc[h].stale \subseteq q.stale,
         q.pc \in {"fgaDelete", "role", "fill", "fgaWrite"},
         UNCHANGED <<role, users, team, roster, members, drift>>,
         \A s \in Subject \ {Subj(h)} : fga'[s] = fga[s],
         Replacing(q, Subj(h), World')
  PROVE  Sound(q, World')
<1> DEFINE p == proc[h]
<1>h. Sound(p, World) /\ NamesFit(p) /\ TouchFits(p) /\ StepsFit(p)
  BY Here
<1>1. p.op # "readRole"
  BY DEF Replacer
<1>2. /\ IF p.op \in {"setTeamRole", "clearTeamRole"} THEN Subj(h) = Team
         ELSE Subj(h) = p.user /\ p.user \in User
      /\ p.op = "accept" => p.dirty
  BY <1>1, SubjHere
<1>3. CASE p.op = "setUserRole"
  BY <1>h, <1>2, <1>3, Worlds DEF Sound, SoundSetUserRole
<1>4. CASE p.op \in {"setTeamRole", "clearTeamRole"}
  BY <1>h, <1>2, <1>4, Worlds DEF Sound, SoundSetTeamRole, SoundClearTeamRole
<1>5. CASE p.op = "accept"
  BY <1>h, <1>2, <1>5, Worlds DEF Sound, SoundAccept
<1>6. CASE p.op = "updateRole"
  <2>1. SoundUpdateRole(p, World) /\ p.pc \in Resyncing /\ q.pc \in Resyncing
    BY <1>h, <1>6 DEF Sound, Resyncing
  <2>2. p.user \notin p.done \cup p.todo /\ p.done \subseteq User
    BY <2>1 DEF SoundUpdateRole
  <2>3. \A u \in p.done : Replaced(q, u, World')
    <3>1. \A u \in p.done : fga'[u] = fga[u]
      BY <1>2, <1>6, <2>2 DEF Subject
    <3>2. \A u \in p.done : Replaced(p, u, World)
      BY <2>1 DEF SoundUpdateRole
    <3> QED BY <3>1, <3>2, Worlds DEF Replaced
  <2>4. Kept(Team, World) => Kept(Team, World')
    <3>1. fga'[Team] = fga[Team]
      BY <1>2, <1>6, Kinds DEF Subject
    <3> QED BY <3>1, Worlds, TeamAgrees DEF Kept
  <2>5. q.pc \notin {"start", "next", "invalidate"} /\ p.pc # "start"
    BY DEF Resyncing
  <2>6. HoldersIn(p.role, World') = HoldersIn(p.role, World)
    BY Worlds DEF HoldersIn
  <2>7. SoundUpdateRole(q, World')
    BY <1>2, <1>6, <2>1, <2>2, <2>3, <2>4, <2>5, <2>6 DEF SoundUpdateRole
  <2> QED BY <1>6, <2>7 DEF Sound
<1> QED BY <1>3, <1>4, <1>5, <1>6 DEF Replacer

\* A saga whose step has failed, without effect or with one that is known.
LEMMA ThrowDrift ==
  ASSUME Inv, Inv', DriftInv, NEW h \in Handler, NEW effect \in BOOLEAN, Throw(h, effect),
         UNCHANGED <<role, users, mail, team, roster, fga, members>>,
         ~proc[h].over /\ proc[h].dirty =>
           /\ proc[h].op = "accept" => effect \/ fga[proc[h].user] = {}
           /\ proc[h].op = "addMember" =>
                proc[h].user \notin members \/ drift[Link(proc[h].user)] # {}
  PROVE  DriftInv'
<1> DEFINE p == proc[h]
           q == [p EXCEPT !.pc = "undo", !.lost = effect]
<1>h. p \in Frame /\ TouchFits(p) /\ StepsFit(p) /\ (~p.over => Sound(p, World))
  BY Here
<1>1. CASE Fail(h)
  BY <1>1, FailDrift
<1>2. CASE p.op \in {"accept", "addMember"} /\ p.dirty /\ proc' = [proc EXCEPT ![h] = q] /\ UNCHANGED drift
  <2>1. /\ q.pc = "undo" /\ q.op = p.op /\ q.user = p.user /\ q.role = p.role /\ q.todo = p.todo
        /\ q.touch = p.touch /\ q.over = p.over /\ q.dirty = p.dirty
        /\ q.lost = effect
    BY <1>h DEF Frame
  <2> HIDE DEF p, q
  <2>2. TouchFits(q) /\ DirtyFits(q) /\ StepsFit(q)
    BY <1>h, <1>2, <2>1 DEF TouchFits, DirtyFits, StepsFit
  <2>3. ~q.over => Sound(q, World)
    <3>1. CASE p.op = "accept"
      BY <1>h, <1>2, <2>1, <3>1, Worlds DEF Sound, SoundAccept, Replacing, p
    <3>2. CASE p.op = "addMember"
      BY <1>h, <1>2, <2>1, <3>2, Worlds DEF Sound, SoundAddMember, p
    <3> QED BY <1>2, <3>1, <3>2
  <2> QED BY <1>2, <2>1, <2>2, <2>3, SilentStep DEF p
<1> QED BY <1>1, <1>2 DEF Throw

\* The tuples of a deleted user are gone.
LEMMA DeletedDrift ==
  ASSUME Inv, Inv', DriftInv, NEW h \in Handler, proc[h].op = "deleteUser",
         proc[h].pc \in {"fgaRead", "fgaDelete"}, Succeed(h),
         UNCHANGED <<role, users, mail, team, roster, members>>,
         \A s \in Subject \ {proc[h].user} : fga'[s] = fga[s],
         ~proc[h].over => fga'[proc[h].user] = {}
  PROVE  DriftInv'
<1> DEFINE p == proc[h]
<1>h. NamesFit(p) /\ TouchFits(p) /\ DirtyFits(p) /\ (~p.over => Sound(p, World))
  BY Here
<1>1. p.user \in User /\ p.touch = {p.user, Link(p.user)} /\ p.dirty
  BY <1>h DEF NamesFit, TouchFits, DirtyFits
<1>2. End(h, {p.user}, {})
  BY DEF Succeed, Healed
<1>3. drift' = Verdict(p, {p.user}, {})
  BY <1>2 DEF End
<1>4. \A x \in Thing \ p.touch : drift'[x] = drift[x]
  BY <1>3, EndElsewhere
<1>5. Elsewhere(p, p.touch, World, World') /\ Outside(p.touch, proc, World, World')
  BY <1>1, <1>4, ElsewhereHolds
<1>6. ASSUME ~p.over, NEW x \in p.touch \cap Thing
      PROVE  \/ drift'[x] # {}
             \/ AgreesIn(x, World') /\ (x \in User => users'[x] \in {Absent} \cup p.touch)
  <2>1. users[p.user] = Absent /\ Kept(Link(p.user), World)
    BY <1>h, <1>6, Worlds DEF Sound, SoundDeleteUser
  <2>2. CASE x = p.user
    <3>1. World'.fga[x] = {} /\ World'.users[x] = Absent
      BY <1>1, <1>6, <2>1, <2>2, Worlds
    <3>2. x \in User
      BY <1>1, <2>2
    <3>3. AgreesIn(x, World')
      <4> HIDE DEF p
      <4> QED BY <3>1, <3>2, UserAgrees
    <3> QED BY <3>1, <3>3, Worlds
  <2>3. CASE x = Link(p.user)
    <3>1. drift[x] # {} => drift'[x] # {}
      BY <1>1, <1>3, <2>3, Kinds DEF Verdict
    <3>2. AgreesIn(x, World) => AgreesIn(x, World')
      BY <1>1, <2>3, Worlds, LinkAgrees
    <3>3. x \notin User
      BY <1>1, <2>3, Kinds
    <3> QED BY <2>1, <2>3, <3>1, <3>2, <3>3, Worlds DEF Kept
  <2> QED BY <1>1, <2>2, <2>3
<1> QED BY <1>1, <1>2, <1>5, <1>6, EndDrift

LEMMA ReadTuplesDrift ==
  ASSUME Inv, Inv', DriftInv, NEW h \in Handler, ReadTuples(h)
  PROVE  DriftInv'
<1> DEFINE p == proc[h]
           s == Subj(h)
<1>h. p \in Frame /\ NamesFit(p) /\ TouchFits(p) /\ DirtyFits(p) /\ StepsFit(p) /\ (~p.over => Sound(p, World))
  BY Here
<1>1. UNCHANGED <<role, users, mail, team, roster, fga, members>> /\ p.pc = "fgaRead"
  BY DEF ReadTuples, rows, tuples, At
<1>2. p.op # "readRole"
  BY <1>h, <1>1 DEF NamesFit
<1>3. /\ p.op \in Replacer \cup {"deleteUser"} /\ s \in Subject
      /\ IF p.op \in {"setTeamRole", "clearTeamRole"} THEN s = Team ELSE s = p.user /\ p.user \in User
      /\ p.op # "accept"
  BY <1>h, <1>1, <1>2, SubjHere DEF NamesFit
<1>4. CASE fga[s] = {} /\ p.op = "deleteUser"
  <2>1. Succeed(h)
    BY <1>4 DEF ReadTuples, AfterRemoval
  <2> QED BY <1>1, <1>3, <1>4, <2>1, DeletedDrift
<1>5. CASE fga[s] = {} /\ p.op # "deleteUser"
  <2> DEFINE l == IF p.op = "clearTeamRole" THEN "update" ELSE "role"
             q == [p EXCEPT !.pc = l]
  <2>1. proc' = [proc EXCEPT ![h] = q] /\ UNCHANGED drift
    BY <1>5 DEF ReadTuples, AfterRemoval, Goto
  <2>2. /\ q.pc = l /\ q.op = p.op /\ q.user = p.user /\ q.role = p.role /\ q.todo = p.todo /\ q.done = p.done
        /\ q.touch = p.touch /\ q.stale = p.stale /\ q.over = p.over /\ q.dirty = p.dirty
    BY <1>h, GoesTo
  <2> HIDE DEF q
  <2>3. TouchFits(q) /\ DirtyFits(q) /\ StepsFit(q)
    BY <1>h, <1>1, <1>3, <1>5, <2>2 DEF TouchFits, DirtyFits, StepsFit, Resyncing, Replacer
  <2>4. World' = World
    BY <1>1, <2>1, WorldSame
  <2>5. ASSUME ~q.over
        PROVE  Sound(q, World)
    <3>1. CASE p.op = "clearTeamRole"
      <4>1. SoundClearTeamRole(q, World)
        BY <1>3, <1>5, <2>2, <3>1, Worlds DEF SoundClearTeamRole, Replacing
      <4> QED BY <2>2, <3>1, <4>1 DEF Sound
    <3>2. CASE p.op # "clearTeamRole"
      <4>1. Replacing(q, s, World')
        BY <1>5, <2>2, <2>4, <3>2, Worlds DEF Replacing
      <4>2. p.op \in Replacer /\ q.pc = "role"
        BY <1>3, <1>5, <2>2, <3>2
      <4> HIDE DEF s
      <4>3. Sound(q, World')
        BY <1>1, <2>1, <2>2, <2>5, <4>1, <4>2, GoesOnSound DEF s
      <4> QED BY <2>4, <4>3
    <3> QED BY <3>1, <3>2
  <2>6. q.op = "clearTeamRole" => fga[Team] = {}
    BY <1>3, <1>5, <2>2
  <2>7. q.pc # "start"
    BY <2>2
  <2> HIDE DEF p, s
  <2> QED BY <1>1, <2>1, <2>2, <2>3, <2>5, <2>6, <2>7, SilentStep DEF p
<1>6. CASE fga[s] # {}
  <2> DEFINE q == [p EXCEPT !.pc = "fgaDelete", !.got = fga[s]]
  <2>1. proc' = [proc EXCEPT ![h] = q] /\ UNCHANGED drift
    BY <1>6 DEF ReadTuples
  <2>2. /\ q.pc = "fgaDelete" /\ q.op = p.op /\ q.user = p.user /\ q.role = p.role /\ q.todo = p.todo
        /\ q.done = p.done /\ q.touch = p.touch /\ q.stale = p.stale /\ q.over = p.over /\ q.dirty = p.dirty
        /\ q.got = fga[s]
    BY <1>h DEF Frame
  <2> HIDE DEF q
  <2>3. TouchFits(q) /\ DirtyFits(q) /\ StepsFit(q)
    BY <1>h, <1>1, <1>3, <2>2 DEF TouchFits, DirtyFits, StepsFit, Resyncing, Replacer
  <2>4. World' = World
    BY <1>1, <2>1, WorldSame
  <2>5. ASSUME ~q.over
        PROVE  Sound(q, World)
    <3>1. CASE p.op = "deleteUser"
      <4>1. SoundDeleteUser(p, World)
        BY <1>h, <2>2, <2>5, <3>1 DEF Sound
      <4>2. SoundDeleteUser(q, World)
        BY <1>1, <1>3, <2>2, <3>1, <4>1, Worlds DEF SoundDeleteUser
      <4> QED BY <2>2, <3>1, <4>2 DEF Sound
    <3>2. CASE p.op # "deleteUser"
      <4>1. Replacing(q, s, World')
        BY <2>2, <2>4, Worlds DEF Replacing
      <4>2. p.op \in Replacer
        BY <1>3, <3>2
      <4> HIDE DEF s
      <4>3. Sound(q, World')
        BY <1>1, <2>1, <2>2, <2>5, <4>1, <4>2, GoesOnSound DEF s
      <4> QED BY <2>4, <4>3
    <3> QED BY <3>1, <3>2
  <2>6. q.pc \notin {"start", "update"}
    BY <2>2
  <2> HIDE DEF p, s
  <2> QED BY <1>1, <2>1, <2>2, <2>3, <2>5, <2>6, SilentStep DEF p
<1> QED BY <1>4, <1>5, <1>6

LEMMA DeleteTuplesDrift ==
  ASSUME Inv, Inv', DriftInv, NEW h \in Handler, DeleteTuples(h)
  PROVE  DriftInv'
<1> DEFINE p == proc[h]
           s == Subj(h)
<1>h. p \in Frame /\ NamesFit(p) /\ TouchFits(p) /\ DirtyFits(p) /\ StepsFit(p) /\ (~p.over => Sound(p, World))
  BY Here
<1>1. UNCHANGED <<role, users, mail, team, roster, members>> /\ p.pc = "fgaDelete"
  BY DEF DeleteTuples, rows, At
<1>2. p.op # "readRole"
  BY <1>h, <1>1 DEF NamesFit
<1>3. /\ p.op \in Replacer \cup {"deleteUser"} /\ s \in Subject /\ s \in p.touch
      /\ IF p.op \in {"setTeamRole", "clearTeamRole"} THEN s = Team ELSE s = p.user /\ p.user \in User
      /\ p.op # "accept"
  BY <1>h, <1>1, <1>2, SubjHere DEF NamesFit
<1>4. CASE Fail(h) /\ UNCHANGED fga
  BY <1>1, <1>4, FailDrift
<1>5. ASSUME NEW b \in Batches(p.got), NEW left, left = Unsent(p.got, b),
             fga' = [fga EXCEPT ![s] = @ \ b],
             IF left = {} /\ p.op = "deleteUser" THEN Succeed(h)
             ELSE /\ proc' = [proc EXCEPT ![h].dirty = TRUE, ![h].got = left,
                       ![h].pc = IF left # {} THEN @
                                 ELSE IF p.op = "clearTeamRole" THEN "update" ELSE "role"]
                  /\ UNCHANGED drift
      PROVE  DriftInv'
  <2>1. fga' \in [Subject -> SUBSET Tuple] /\ fga \in [Subject -> SUBSET Tuple]
    BY DEF Inv, TablesTyped
  <2>2. (\A x \in Subject \ {s} : fga'[x] = fga[x]) /\ fga'[s] = fga[s] \ b
    BY <1>3, <1>5, <2>1
  <2>3. ASSUME ~p.over
        PROVE  fga'[s] = left
    <3>1. fga[s] = p.got
      <4>1. CASE p.op = "deleteUser"
        BY <1>h, <1>1, <1>3, <2>3, <4>1, Worlds DEF Sound, SoundDeleteUser
      <4>2. CASE p.op \in Replacer
        <5>1. Replacing(p, s, World)
          BY <1>1, <2>3, <4>2, ReplacingHere
        <5> QED BY <1>1, <5>1, Worlds DEF Replacing
      <4> QED BY <1>3, <4>1, <4>2
    <3>2. left = p.got \ b
      BY <1>5, BatchIn
    <3> QED BY <2>2, <3>1, <3>2
  <2>4. CASE left = {} /\ p.op = "deleteUser"
    <3>1. Succeed(h)
      BY <1>5, <2>4
    <3> QED BY <1>1, <1>3, <2>2, <2>3, <2>4, <3>1, DeletedDrift
  <2>5. CASE left # {} \/ p.op # "deleteUser"
    <3> DEFINE l == IF left # {} THEN p.pc ELSE IF p.op = "clearTeamRole" THEN "update" ELSE "role"
               q == [p EXCEPT !.dirty = TRUE, !.got = left, !.pc = l]
    <3>1. proc' = [proc EXCEPT ![h] = q] /\ UNCHANGED drift
      BY <1>5, <2>5
    <3>2. /\ q.pc = l /\ q.op = p.op /\ q.user = p.user /\ q.role = p.role /\ q.todo = p.todo
          /\ q.done = p.done /\ q.touch = p.touch /\ q.stale = p.stale /\ q.over = p.over /\ q.dirty
          /\ q.got = left
      BY <1>h DEF Frame
    <3>l. /\ l \in {"fgaDelete", "update", "role"}
          /\ l = "fgaDelete" <=> left # {}
          /\ l = "update" => p.op = "clearTeamRole"
          /\ l = "role" => p.op \notin {"clearTeamRole", "deleteUser"}
      BY <1>1, <2>5
    <3> HIDE DEF q, l
    <3>3. TouchFits(q) /\ DirtyFits(q) /\ StepsFit(q)
      <4>1. TouchFits(q)
        BY <1>h, <1>1, <1>3, <3>2, <3>l DEF TouchFits, Resyncing, Replacer
      <4>2. DirtyFits(q)
        BY <3>2, <3>l DEF DirtyFits
      <4>3. StepsFit(q)
        BY <1>h, <1>1, <1>3, <3>2, <3>l DEF StepsFit, Replacer
      <4> QED BY <4>1, <4>2, <4>3
    <3>4. ASSUME ~q.over
          PROVE  Sound(q, World')
      <4>1. CASE p.op = "deleteUser"
        <5>1. SoundDeleteUser(p, World) /\ users[p.user] = Absent /\ Kept(Link(p.user), World)
          BY <1>h, <1>1, <3>2, <3>4, <4>1, Worlds DEF Sound, SoundDeleteUser
        <5>2. Kept(Link(p.user), World')
          BY <1>1, <1>3, <3>1, <4>1, <5>1, Worlds, LinkAgrees DEF Kept
        <5>3. SoundDeleteUser(q, World')
          BY <1>1, <1>3, <2>3, <3>2, <3>4, <4>1, <5>1, <5>2, Worlds DEF SoundDeleteUser
        <5> QED BY <3>2, <4>1, <5>3 DEF Sound
      <4>2. CASE p.op = "clearTeamRole" /\ l = "update"
        <5>1. SoundClearTeamRole(q, World')
          BY <1>3, <2>3, <3>2, <3>4, <3>l, <4>2, Worlds DEF SoundClearTeamRole, Replacing
        <5> QED BY <3>2, <4>2, <5>1 DEF Sound
      <4>3. CASE p.op # "deleteUser" /\ l # "update"
        <5>1. Replacing(q, s, World')
          BY <2>3, <3>2, <3>4, <3>l, <4>3, Worlds DEF Replacing
        <5>2. p.op \in Replacer /\ q.pc \in {"fgaDelete", "role"}
          BY <1>3, <3>2, <3>l, <4>3
        <5> HIDE DEF s
        <5> QED BY <1>1, <2>2, <3>1, <3>2, <3>4, <5>1, <5>2, GoesOnSound DEF s
      <4> QED BY <3>l, <4>1, <4>2, <4>3
    <3>5. Elsewhere(p, p.touch, World, World') /\ Outside(p.touch, proc, World, World')
      BY <1>1, <1>3, <2>2, <3>1, ElsewhereHolds
    <3>6. q.pc # "start"
      BY <3>2, <3>l
    <3> HIDE DEF p, s
    <3> QED BY <1>1, <3>1, <3>2, <3>3, <3>4, <3>5, <3>6, BusyStep DEF p
  <2> QED BY <2>4, <2>5
<1>6. PICK b \in Batches(p.got) :
        LET left == Unsent(p.got, b) IN
        \/ /\ fga' = [fga EXCEPT ![s] = @ \ b]
           /\ IF left = {} /\ p.op = "deleteUser" THEN Succeed(h)
              ELSE /\ proc' = [proc EXCEPT ![h].dirty = TRUE, ![h].got = left,
                        ![h].pc = IF left # {} THEN @
                                  ELSE IF p.op = "clearTeamRole" THEN "update" ELSE "role"]
                   /\ UNCHANGED drift
        \/ Fail(h) /\ UNCHANGED fga
  BY DEF DeleteTuples
<1> QED BY <1>4, <1>5, <1>6

LEMMA LookupRoleDrift ==
  ASSUME Inv, Inv', DriftInv, NEW h \in Handler, LookupRole(h)
  PROVE  DriftInv'
<1> DEFINE p == proc[h]
           s == Subj(h)
           r == p.role
           after == IF p.op = "readRole" THEN "return" ELSE "fgaWrite"
<1>h. p \in Frame /\ NamesFit(p) /\ TouchFits(p) /\ DirtyFits(p) /\ StepsFit(p) /\ (~p.over => Sound(p, World))
  BY Here
<1>1. UNCHANGED <<role, users, mail, team, roster, fga, members>> /\ p.pc = "role"
  BY DEF LookupRole, rows, tuples, At
<1>2. p.op \in {"setUserRole", "setTeamRole", "updateRole", "readRole", "accept"}
  BY <1>h, <1>1 DEF NamesFit
<1>3. p.op # "readRole" => /\ p.op \in Replacer
                           /\ IF p.op \in {"setTeamRole", "clearTeamRole"} THEN s = Team
                              ELSE s = p.user /\ p.user \in User
                           /\ p.op = "accept" => p.dirty
  BY <1>1, <1>2, SubjHere DEF Replacer
<1>4. p.op # "readRole" /\ ~p.over => fga[s] = {}
  <2>1. p.op # "readRole" /\ ~p.over => Replacing(p, s, World)
    BY <1>1, <1>3, ReplacingHere
  <2> QED BY <1>1, <2>1, Worlds DEF Replacing
<1>5. ASSUME NEW q, proc' = [proc EXCEPT ![h] = q], UNCHANGED drift,
             q.op = p.op, q.user = p.user, q.role = p.role, q.todo = p.todo, q.done = p.done,
             q.touch = p.touch, q.over = p.over, q.dirty = p.dirty, p.stale \subseteq q.stale,
             q.pc \in {"fill", after}, q.pc = "fill" => q.look = role[r],
             q.pc = "fgaWrite" => (s \in q.stale \/ q.look = role[r]) /\ q.got = Grant(q.look)
      PROVE  DriftInv'
  <2>1. TouchFits(q) /\ DirtyFits(q) /\ StepsFit(q)
    BY <1>h, <1>1, <1>2, <1>3, <1>5 DEF TouchFits, DirtyFits, StepsFit, Resyncing
  <2>2. World' = World
    BY <1>1, <1>5, WorldSame
  <2>3. ASSUME ~q.over
        PROVE  Sound(q, World)
    <3>1. CASE p.op = "readRole"
      BY <1>5, <3>1 DEF Sound
    <3>2. CASE p.op # "readRole"
      <4>1. q.pc \in {"fill", "fgaWrite"}
        BY <1>5, <3>2
      <4>2. Replacing(q, s, World')
        BY <1>4, <1>5, <2>2, <2>3, <3>2, <4>1, Worlds DEF Replacing
      <4>3. Sound(q, World')
        BY <1>1, <1>3, <1>5, <2>3, <3>2, <4>1, <4>2, GoesOnSound
      <4> QED BY <2>2, <4>3
    <3> QED BY <3>1, <3>2
  <2> HIDE DEF p, s
  <2> QED BY <1>1, <1>5, <2>1, <2>3, SilentStep DEF p
<1>6. CASE cached[r] # Nothing
  <2> DEFINE z == IF cached[r] = role[r] \/ p.op = "readRole" THEN p.stale ELSE p.stale \cup {s}
             q == [p EXCEPT !.look = cached[r], !.got = Grant(cached[r]), !.pc = after, !.stale = z]
  <2>1. proc' = [proc EXCEPT ![h] = q] /\ UNCHANGED drift
    BY <1>6 DEF LookupRole
  <2>2. /\ q.op = p.op /\ q.user = p.user /\ q.role = p.role /\ q.todo = p.todo /\ q.done = p.done
        /\ q.touch = p.touch /\ q.over = p.over /\ q.dirty = p.dirty /\ q.pc = after /\ q.look = cached[r]
        /\ q.stale = z /\ q.got = Grant(cached[r])
    BY <1>h DEF Frame
  <2> HIDE DEF q
  <2>3. q.pc = "fgaWrite" => (s \in q.stale \/ q.look = role[r]) /\ q.got = Grant(q.look)
    BY <2>2
  <2>4. p.stale \subseteq q.stale
    BY <2>2
  <2> QED BY <1>5, <2>1, <2>2, <2>3, <2>4
<1>7. CASE cached[r] = Nothing /\ role[r] # Absent
  <2> DEFINE q == [p EXCEPT !.look = role[r], !.pc = "fill"]
  <2>1. proc' = [proc EXCEPT ![h] = q] /\ UNCHANGED drift
    BY <1>7 DEF LookupRole
  <2>2. /\ q.op = p.op /\ q.user = p.user /\ q.role = p.role /\ q.todo = p.todo /\ q.done = p.done
        /\ q.touch = p.touch /\ q.over = p.over /\ q.dirty = p.dirty /\ q.pc = "fill" /\ q.look = role[r]
        /\ q.stale = p.stale
    BY <1>h DEF Frame
  <2> HIDE DEF q
  <2> QED BY <1>5, <2>1, <2>2
<1>8. CASE Throw(h, FALSE)
  <2>1. p.op # "addMember"
    BY <1>2
  <2>2. ~p.over /\ p.op = "accept" => fga[p.user] = {}
    BY <1>3, <1>4
  <2> QED BY <1>1, <1>8, <2>1, <2>2, ThrowDrift
<1> QED BY <1>6, <1>7, <1>8 DEF LookupRole

LEMMA FillCacheDrift ==
  ASSUME Inv, Inv', DriftInv, NEW h \in Handler, FillCache(h)
  PROVE  DriftInv'
<1> DEFINE p == proc[h]
           s == Subj(h)
           l == IF p.op = "readRole" THEN "return" ELSE "fgaWrite"
           q == [p EXCEPT !.got = Grant(p.look), !.pc = l]
<1>h. p \in Frame /\ NamesFit(p) /\ TouchFits(p) /\ DirtyFits(p) /\ StepsFit(p) /\ (~p.over => Sound(p, World))
  BY Here
<1>1. UNCHANGED <<role, users, mail, team, roster, fga, members, drift>> /\ p.pc = "fill"
  BY DEF FillCache, rows, tuples, At
<1>2. p.op \in {"setUserRole", "setTeamRole", "updateRole", "readRole", "accept"}
  BY <1>h, <1>1 DEF NamesFit
<1>3. p.op # "readRole" => /\ p.op \in Replacer
                           /\ IF p.op \in {"setTeamRole", "clearTeamRole"} THEN s = Team
                              ELSE s = p.user /\ p.user \in User
                           /\ p.op = "accept" => p.dirty
  BY <1>1, <1>2, SubjHere DEF Replacer
<1>4. proc' = [proc EXCEPT ![h] = q]
  BY DEF FillCache
<1>5. /\ q.pc = l /\ q.op = p.op /\ q.user = p.user /\ q.role = p.role /\ q.todo = p.todo /\ q.done = p.done
      /\ q.look = p.look /\ q.touch = p.touch /\ q.stale = p.stale /\ q.over = p.over /\ q.dirty = p.dirty
      /\ q.got = Grant(p.look)
  BY <1>h DEF Frame
<1> HIDE DEF q
<1>6. TouchFits(q) /\ DirtyFits(q) /\ StepsFit(q)
  BY <1>h, <1>1, <1>2, <1>3, <1>5 DEF TouchFits, DirtyFits, StepsFit, Resyncing
<1>7. World' = World
  BY <1>1, WorldSame
<1>8. ASSUME ~q.over
      PROVE  Sound(q, World)
  <2>1. CASE p.op = "readRole"
    BY <1>5, <2>1 DEF Sound
  <2>2. CASE p.op # "readRole"
    <3>1. Replacing(p, s, World)
      BY <1>1, <1>3, <1>5, <1>8, <2>2, ReplacingHere
    <3>2. Replacing(q, s, World')
      <4>1. World.fga[s] = {} /\ p.look = World.role[p.role]
        BY <1>1, <3>1 DEF Replacing
      <4>2. q.got = Grant(q.look) /\ q.look = World.role[q.role] /\ q.pc = "fgaWrite"
        BY <1>5, <2>2, <4>1
      <4> HIDE DEF p, s
      <4> QED BY <1>7, <4>1, <4>2 DEF Replacing
    <3>3. q.pc = "fgaWrite"
      BY <1>5, <2>2
    <3> HIDE DEF s
    <3>4. Sound(q, World')
      BY <1>1, <1>3, <1>5, <1>8, <2>2, <3>2, <3>3, GoesOnSound DEF s
    <3> QED BY <1>7, <3>4
  <2> QED BY <2>1, <2>2
<1>9. q.pc \notin {"start", "update"}
  BY <1>5
<1> HIDE DEF p, s
<1> QED BY <1>1, <1>4, <1>5, <1>6, <1>8, <1>9, SilentStep DEF p

LEMMA WriteTuplesDrift ==
  ASSUME Inv, Inv', DriftInv, NEW h \in Handler, WriteTuples(h)
  PROVE  DriftInv'
<1> DEFINE p == proc[h]
           s == Subj(h)
<1>h. p \in Frame /\ NamesFit(p) /\ TouchFits(p) /\ DirtyFits(p) /\ StepsFit(p) /\ (~p.over => Sound(p, World))
  BY Here
<1>1. UNCHANGED <<role, users, mail, team, roster, members>> /\ p.pc = "fgaWrite"
  BY DEF WriteTuples, rows, At
<1>2. p.op \in {"setUserRole", "setTeamRole", "updateRole", "accept"}
  BY <1>h, <1>1 DEF StepsFit
<1>3. /\ p.op \in Replacer /\ s \in Subject /\ s \in p.touch
      /\ IF p.op \in {"setTeamRole", "clearTeamRole"} THEN s = Team ELSE s = p.user /\ p.user \in User
      /\ p.op = "accept" => p.dirty
  BY <1>1, <1>2, SubjHere DEF Replacer
<1>4. ~p.over => /\ p.got \subseteq Grant(p.look) /\ fga[s] = Grant(p.look) \ p.got
                 /\ s \in p.stale \/ p.look = role[p.role]
  <2>1. ~p.over => Replacing(p, s, World)
    BY <1>1, <1>3, ReplacingHere
  <2> QED BY <1>1, <2>1, Worlds DEF Replacing
<1>5. CASE Throw(h, Begun(h)) /\ UNCHANGED fga
  <2>1. Begun(h) \in BOOLEAN /\ (~Begun(h) => p.got = Grant(p.look))
    BY <1>1 DEF Begun, At
  <2>2. ~p.over /\ p.op = "accept" => Begun(h) \/ fga[p.user] = {}
    <3> HIDE DEF p
    <3> QED BY <1>3, <1>4, <2>1
  <2>3. p.op # "addMember"
    BY <1>2
  <2> DEFINE effect == Begun(h)
  <2>4. effect \in BOOLEAN /\ Throw(h, effect) /\ (~p.over /\ p.op = "accept" => effect \/ fga[p.user] = {})
    BY <1>5, <2>1, <2>2
  <2> HIDE DEF effect
  <2> QED BY <1>1, <1>5, <2>3, <2>4, ThrowDrift
<1>6. ASSUME NEW b \in Batches(p.got), NEW left, left = Unsent(p.got, b), left # {},
             fga' = [fga EXCEPT ![s] = @ \cup b],
             proc' = [proc EXCEPT ![h].dirty = TRUE, ![h].got = left], UNCHANGED drift
      PROVE  DriftInv'
  <2> DEFINE q == [p EXCEPT !.dirty = TRUE, !.got = left]
  <2>1. proc' = [proc EXCEPT ![h] = q] /\ UNCHANGED drift
    BY <1>6
  <2>2. fga' \in [Subject -> SUBSET Tuple] /\ fga \in [Subject -> SUBSET Tuple]
    BY DEF Inv, TablesTyped
  <2>3. (\A x \in Subject \ {s} : fga'[x] = fga[x]) /\ fga'[s] = fga[s] \cup b
    BY <1>3, <1>6, <2>2
  <2>4. /\ q.pc = "fgaWrite" /\ q.op = p.op /\ q.user = p.user /\ q.role = p.role /\ q.todo = p.todo
        /\ q.done = p.done /\ q.touch = p.touch /\ q.stale = p.stale /\ q.over = p.over /\ q.dirty
        /\ q.got = left /\ q.look = p.look
    BY <1>h, <1>1 DEF Frame
  <2> HIDE DEF q
  <2>5. TouchFits(q) /\ DirtyFits(q) /\ StepsFit(q)
    BY <1>h, <1>1, <1>2, <1>3, <2>4 DEF TouchFits, DirtyFits, StepsFit, Resyncing
  <2>6. ASSUME ~q.over
        PROVE  Sound(q, World')
    <3>1. b \subseteq p.got /\ left = p.got \ b
      BY <1>6, BatchIn
    <3>2. left \subseteq Grant(p.look) /\ fga'[s] = Grant(p.look) \ left
      BY <1>4, <2>3, <2>4, <2>6, <3>1
    <3>3. s \in p.stale \/ p.look = role[p.role]
      BY <1>4, <2>4, <2>6
    <3>4. Replacing(q, s, World')
      BY <1>1, <2>4, <3>2, <3>3, Worlds DEF Replacing
    <3> HIDE DEF s
    <3> QED BY <1>1, <1>3, <2>1, <2>3, <2>4, <2>6, <3>4, GoesOnSound DEF s
  <2>7. Elsewhere(p, p.touch, World, World') /\ Outside(p.touch, proc, World, World')
    BY <1>1, <1>3, <2>1, <2>3, ElsewhereHolds
  <2>8. q.pc # "start"
    BY <2>4
  <2> HIDE DEF p, s
  <2> QED BY <1>1, <2>1, <2>4, <2>5, <2>6, <2>7, <2>8, BusyStep DEF p
<1>7. ASSUME NEW b \in Batches(p.got), Unsent(p.got, b) = {},
             fga' = [fga EXCEPT ![s] = @ \cup b],
             proc' = [proc EXCEPT ![h].dirty = TRUE, ![h].got = {},
               ![h].done = IF p.op = "updateRole" THEN @ \cup {p.user} ELSE @,
               ![h].pc = CASE p.op = "updateRole" -> "next" [] p.op = "accept" -> "mark"
                           [] OTHER -> "update"],
             UNCHANGED drift
      PROVE  DriftInv'
  <2> DEFINE l == CASE p.op = "updateRole" -> "next" [] p.op = "accept" -> "mark" [] OTHER -> "update"
             d == IF p.op = "updateRole" THEN p.done \cup {p.user} ELSE p.done
             q == [p EXCEPT !.dirty = TRUE, !.got = {}, !.done = d, !.pc = l]
  <2>1. proc' = [proc EXCEPT ![h] = q] /\ UNCHANGED drift
    BY <1>7
  <2>2. fga' \in [Subject -> SUBSET Tuple] /\ fga \in [Subject -> SUBSET Tuple]
    BY DEF Inv, TablesTyped
  <2>3. (\A x \in Subject \ {s} : fga'[x] = fga[x]) /\ fga'[s] = fga[s] \cup p.got
    <3>1. b = p.got
      <4>1. b \subseteq p.got /\ p.got \ b = {}
        BY <1>7, BatchIn
      <4> HIDE DEF p
      <4> QED BY <4>1
    <3> QED BY <1>3, <1>7, <2>2, <3>1
  <2>4. /\ q.pc = l /\ q.op = p.op /\ q.user = p.user /\ q.role = p.role /\ q.todo = p.todo
        /\ q.done = d /\ q.touch = p.touch /\ q.stale = p.stale /\ q.over = p.over /\ q.dirty
    BY <1>h DEF Frame
  <2>5. /\ p.op = "updateRole" => l = "next"
        /\ p.op = "accept" => l = "mark"
        /\ p.op \in {"setUserRole", "setTeamRole"} => l = "update"
    OBVIOUS
  <2> HIDE DEF q, l
  <2>6. TouchFits(q) /\ DirtyFits(q) /\ StepsFit(q)
    BY <1>h, <1>1, <1>2, <1>3, <2>4, <2>5 DEF TouchFits, DirtyFits, StepsFit, Resyncing
  <2>7. ~p.over => Replaced(q, s, World')
    <3>1. ~p.over => s \in p.stale \/ p.look = role[p.role]
      BY <1>4
    <3>2. ~p.over => World'.fga[s] = Grant(p.look)
      BY <1>4, <2>3, Worlds
    <3>3. World'.role[q.role] = role[p.role] /\ q.stale = p.stale
      BY <1>1, <2>4, Worlds
    <3> HIDE DEF p, s
    <3> QED BY <3>1, <3>2, <3>3 DEF Replaced
  <2>8. ASSUME ~q.over
        PROVE  Sound(q, World')
    <3>1. CASE p.op = "setUserRole"
      <4>1. SoundSetUserRole(p, World)
        BY <1>h, <2>4, <2>8, <3>1 DEF Sound
      <4>2. SoundSetUserRole(q, World')
        BY <1>1, <1>3, <2>4, <2>5, <2>7, <2>8, <3>1, <4>1, Worlds DEF SoundSetUserRole, Replacing
      <4> QED BY <2>4, <3>1, <4>2 DEF Sound
    <3>2. CASE p.op = "setTeamRole"
      <4>1. SoundSetTeamRole(q, World')
        BY <1>3, <2>4, <2>5, <2>7, <2>8, <3>2 DEF SoundSetTeamRole, Replacing
      <4> QED BY <2>4, <3>2, <4>1 DEF Sound
    <3>3. CASE p.op = "accept"
      <4>1. SoundAccept(p, World)
        BY <1>h, <2>4, <2>8, <3>3 DEF Sound
      <4>2. SoundAccept(q, World')
        BY <1>1, <1>3, <2>4, <2>5, <2>7, <2>8, <3>3, <4>1, Worlds DEF SoundAccept, Replacing
      <4> QED BY <2>4, <3>3, <4>2 DEF Sound
    <3>4. CASE p.op = "updateRole"
      <4>1. SoundUpdateRole(p, World) /\ p.pc \in Resyncing /\ p.pc # "start"
        BY <1>h, <1>1, <2>4, <2>8, <3>4 DEF Sound, Resyncing
      <4>2. s = p.user /\ p.user \notin p.done \cup p.todo /\ p.done \subseteq User /\ p.user \in p.touch
        BY <1>3, <3>4, <4>1 DEF SoundUpdateRole
      <4>3. \A u \in p.done : Replaced(q, u, World')
        <5>1. \A u \in p.done : fga'[u] = fga[u]
          BY <2>3, <4>2 DEF Subject
        <5>2. \A u \in p.done : Replaced(p, u, World)
          BY <4>1 DEF SoundUpdateRole
        <5> QED BY <1>1, <2>4, <5>1, <5>2, Worlds DEF Replaced
      <4>4. Kept(Team, World) => Kept(Team, World')
        <5>1. fga'[Team] = fga[Team]
          BY <1>3, <2>3, <3>4, Kinds DEF Subject
        <5> QED BY <1>1, <2>1, <5>1, Worlds, TeamAgrees DEF Kept
      <4>5. HoldersIn(p.role, World') = HoldersIn(p.role, World)
        BY <1>1, Worlds DEF HoldersIn
      <4>6. q.pc = "next" /\ q.done = p.done \cup {p.user} /\ q.pc \notin Resyncing
        BY <2>4, <2>5, <3>4 DEF Resyncing
      <4>7. p.touch \cap User \subseteq HoldersIn(p.role, World)
        BY <4>1 DEF SoundUpdateRole
      <4>8. Team \in p.touch => Kept(Team, World)
        BY <4>1 DEF SoundUpdateRole
      <4>9. /\ p.touch \cap User \subseteq p.todo \cup p.done \cup {p.user}
            /\ p.todo \cap p.done = {} /\ p.done \subseteq p.touch \cap User
        BY <4>1 DEF SoundUpdateRole
      <4>10. /\ q.touch \cap User \subseteq q.todo \cup q.done /\ q.todo \cap q.done = {}
             /\ q.done \subseteq q.touch \cap User
        BY <1>3, <2>4, <3>4, <4>2, <4>6, <4>9
      <4>11. \A u \in q.done : Replaced(q, u, World')
        BY <2>4, <2>7, <2>8, <4>2, <4>3, <4>6
      <4>12. SoundUpdateRole(q, World')
        BY <2>4, <4>4, <4>5, <4>6, <4>7, <4>8, <4>10, <4>11 DEF SoundUpdateRole
      <4> QED BY <2>4, <3>4, <4>12 DEF Sound
    <3> QED BY <1>2, <3>1, <3>2, <3>3, <3>4
  <2>9. Elsewhere(p, p.touch, World, World') /\ Outside(p.touch, proc, World, World')
    BY <1>1, <1>3, <2>1, <2>3, ElsewhereHolds
  <2>10. q.pc # "start"
    BY <1>2, <2>4, <2>5
  <2> HIDE DEF p, s
  <2> QED BY <1>1, <2>1, <2>4, <2>6, <2>8, <2>9, <2>10, BusyStep DEF p
<1>8. PICK b \in Batches(p.got) :
        LET left == Unsent(p.got, b) IN
        \/ /\ fga' = [fga EXCEPT ![s] = @ \cup b] /\ UNCHANGED drift
           /\ \/ left # {} /\ proc' = [proc EXCEPT ![h].dirty = TRUE, ![h].got = left]
              \/ /\ left = {}
                 /\ proc' = [proc EXCEPT ![h].dirty = TRUE, ![h].got = {},
                      ![h].done = IF p.op = "updateRole" THEN @ \cup {p.user} ELSE @,
                      ![h].pc = CASE p.op = "updateRole" -> "next" [] p.op = "accept" -> "mark"
                                  [] OTHER -> "update"]
        \/ Throw(h, Begun(h)) /\ UNCHANGED fga
  BY DEF WriteTuples
<1> QED BY <1>5, <1>6, <1>7, <1>8

LEMMA TeamHeld ==
  ASSUME Inv, DriftInv, NEW h \in Handler, proc[h].op = "deleteTeam"
  PROVE  /\ proc[h].touch = {Team} \cup Links /\ Team \in proc[h].touch
         /\ \A u \in User : Link(u) \in proc[h].touch
BY Here, Kinds DEF TouchFits

LEMMA LoseReplyDrift ==
  ASSUME Inv, Inv', DriftInv, NEW h \in Handler, LoseReply(h)
  PROVE  DriftInv'
<1> DEFINE p == proc[h]
           s == Subj(h)
<1>h. p \in Frame /\ NamesFit(p) /\ TouchFits(p) /\ DirtyFits(p) /\ StepsFit(p) /\ (~p.over => Sound(p, World))
  BY Here
<1>1. UNCHANGED <<role, users, mail, team, roster>> /\ p.pc \in {"fgaDelete", "fgaWrite", "dropLinks", "link", "unlink"}
  BY DEF LoseReply, rows, At
<1>2. p.op \in {"deleteUser", "setUserRole", "setTeamRole", "clearTeamRole", "updateRole", "accept", "addMember",
                "removeMember", "deleteTeam"}
  BY <1>h, <1>1 DEF StepsFit, NamesFit
<1>3. ASSUME drift' = drift \/ drift' = Verdict([p EXCEPT !.dirty = TRUE], {}, {"failure"})
      PROVE  Elsewhere(p, p.touch, World, World') /\ Outside(p.touch, proc, World, World')
  <2> DEFINE d == [p EXCEPT !.dirty = TRUE]
  <2>1. d.touch = p.touch
    BY <1>h DEF Frame
  <2>2. \A x \in Thing \ p.touch : drift'[x] = drift[x]
    <3> HIDE DEF d, p
    <3> QED BY <1>3, <2>1 DEF Verdict, d
  <2>3. CASE p.pc \in {"fgaDelete", "fgaWrite"}
    <3>1. members' = members /\ s \in Subject /\ s \in p.touch
      <4>1. members' = members
        BY <2>3 DEF LoseReply, At
      <4>2. p.op # "readRole"
        BY <1>2
      <4> QED BY <2>3, <4>1, <4>2, SubjHere
    <3>2. fga' \in [Subject -> SUBSET Tuple] /\ fga \in [Subject -> SUBSET Tuple]
      BY DEF Inv, TablesTyped
    <3>3. \A x \in Subject \ {s} : fga'[x] = fga[x]
      BY <2>3, <3>1, <3>2 DEF LoseReply, At
    <3> QED BY <1>1, <2>2, <3>1, <3>3, ElsewhereHolds
  <2>4. CASE p.pc \in {"link", "unlink"}
    <3>1. p.op \in {"addMember", "removeMember"} /\ p.user \in User /\ Link(p.user) \in p.touch
      BY <1>h, <2>4 DEF NamesFit, StepsFit, TouchFits
    <3>2. fga' = fga /\ \A u \in User \ {p.user} : u \in members' <=> u \in members
      BY <2>4 DEF LoseReply, At
    <3>3. \A u \in User : Link(u) \notin p.touch => u # p.user
      BY <3>1
    <3> QED BY <1>1, <2>2, <3>1, <3>2, <3>3, ElsewhereHolds
  <2>5. CASE p.pc = "dropLinks"
    <3>1. p.op = "deleteTeam" /\ p.touch = {Team} \cup Links
      BY <1>h, <2>5 DEF StepsFit, TouchFits
    <3>2. fga' = fga /\ members' \subseteq members
      BY <2>5 DEF LoseReply, At
    <3> QED BY <1>1, <2>2, <3>1, <3>2, TeamHeld, ElsewhereHolds
  <2> QED BY <1>1, <2>3, <2>4, <2>5
<1>4. CASE p.op \notin {"accept", "addMember"}
  <2>1. /\ proc' = [proc EXCEPT ![h] = NoCall]
        /\ drift' = Verdict([p EXCEPT !.dirty = TRUE], {}, {"failure"})
    BY <1>4 DEF LoseReply
  <2> QED BY <1>1, <1>3, <2>1, LossDrift
<1>5. CASE p.op \in {"accept", "addMember"}
  <2> DEFINE q == [p EXCEPT !.pc = "undo", !.lost = TRUE]
  <2>1. p.dirty
    BY <1>h, <1>1, <1>5 DEF DirtyFits, StepsFit, NamesFit
  <2>2. proc' = [proc EXCEPT ![h] = q] /\ UNCHANGED drift
    BY <1>5, <2>1 DEF LoseReply, Throw
  <2>3. /\ q.pc = "undo" /\ q.op = p.op /\ q.user = p.user /\ q.role = p.role /\ q.todo = p.todo
        /\ q.touch = p.touch /\ q.over = p.over /\ q.dirty = p.dirty /\ q.lost
    BY <1>h DEF Frame
  <2> HIDE DEF q
  <2>4. TouchFits(q) /\ DirtyFits(q) /\ StepsFit(q)
    BY <1>h, <1>5, <2>1, <2>3 DEF TouchFits, DirtyFits, StepsFit
  <2>5. ASSUME ~q.over
        PROVE  Sound(q, World')
    <3>1. CASE p.op = "accept"
      <4>1. p.pc = "fgaWrite"
        BY <1>h, <1>1, <3>1 DEF StepsFit, NamesFit
      <4>2. members' = members
        BY <4>1 DEF LoseReply, At
      <4>3. SoundAccept(p, World)
        BY <1>h, <2>3, <2>5, <3>1 DEF Sound
      <4>4. SoundAccept(q, World')
        BY <1>1, <2>1, <2>3, <4>2, <4>3, Worlds DEF SoundAccept, Replacing
      <4> QED BY <2>3, <3>1, <4>4 DEF Sound
    <3>2. CASE p.op = "addMember"
      BY <2>3, <3>2 DEF Sound, SoundAddMember
    <3> QED BY <1>5, <3>1, <3>2
  <2>6. Elsewhere(p, p.touch, World, World') /\ Outside(p.touch, proc, World, World')
    BY <1>3, <2>2
  <2>7. q.pc # "start"
    BY <2>3
  <2> HIDE DEF p, s
  <2> QED BY <1>1, <2>1, <2>2, <2>3, <2>4, <2>5, <2>6, <2>7, BusyStep DEF p
<1> QED BY <1>4, <1>5

LEMMA UpdateUserRoleDrift ==
  ASSUME Inv, Inv', DriftInv, NEW h \in Handler, UpdateUserRole(h)
  PROVE  DriftInv'
<1> DEFINE p == proc[h]
           u == p.user
<1>h. NamesFit(p) /\ TouchFits(p) /\ DirtyFits(p) /\ (~p.over => Sound(p, World))
  BY Here
<1>1. UNCHANGED <<role, mail, team, roster, fga, members>> /\ p.op = "setUserRole" /\ p.pc = "update"
  BY DEF UpdateUserRole, tuples, Doing, At
<1>2. u \in User /\ p.role \in Role /\ p.touch = {u, p.role} /\ p.dirty
  BY <1>h, <1>1 DEF NamesFit, TouchFits, DirtyFits
<1>3. CASE Fail(h) /\ UNCHANGED users
  BY <1>1, <1>3, FailDrift
<1>4. CASE users' = (IF IsMember(u) THEN [users EXCEPT ![u] = p.role] ELSE users) /\ Succeed(h)
  <2>1. End(h, {u}, {})
    BY <1>1, <1>4 DEF Succeed, Healed
  <2>2. drift' = Verdict(p, {u}, {})
    BY <2>1 DEF End
  <2>3. users \in [User -> Role \cup {Absent}]
    BY DEF Inv, TablesTyped
  <2>4. \A v \in User \ p.touch : users'[v] = users[v]
    BY <1>2, <1>4, <2>3
  <2>5. Elsewhere(p, p.touch, World, World') /\ Outside(p.touch, proc, World, World')
    <3>1. \A x \in Thing \ p.touch : drift'[x] = drift[x]
      BY <2>2, EndElsewhere
    <3> QED BY <1>1, <2>4, <3>1, ElsewhereHolds
  <2>6. ASSUME ~p.over, NEW x \in p.touch \cap Thing
        PROVE  \/ drift'[x] # {}
               \/ AgreesIn(x, World') /\ (x \in User => users'[x] \in {Absent} \cup p.touch)
    <3>1. x = u
      BY <1>2, <2>6, KindsApart
    <3>2. users[u] # Absent /\ Replaced(p, u, World)
      BY <1>h, <1>1, <2>6, Worlds DEF Sound, SoundSetUserRole
    <3>3. users'[u] = p.role
      BY <1>2, <1>4, <2>3, <3>2 DEF IsMember
    <3>4. CASE u \in p.stale
      BY <1>2, <2>2, <3>1, <3>4, Kinds DEF Verdict
    <3>5. CASE fga[u] = Grant(role[p.role])
      BY <1>1, <1>2, <3>1, <3>3, <3>5, Worlds, UserAgrees, Kinds
    <3> QED BY <1>2, <3>1, <3>2, <3>3, <3>4, <3>5, Worlds DEF Replaced
  <2> QED BY <1>1, <1>2, <2>1, <2>5, <2>6, EndDrift
<1> QED BY <1>3, <1>4 DEF UpdateUserRole

LEMMA UpdateTeamRoleDrift ==
  ASSUME Inv, Inv', DriftInv, NEW h \in Handler, UpdateTeamRole(h)
  PROVE  DriftInv'
<1> DEFINE p == proc[h]
           r == IF p.op = "setTeamRole" THEN p.role ELSE NoRole
<1>h. NamesFit(p) /\ TouchFits(p) /\ DirtyFits(p) /\ (~p.over => Sound(p, World))
  BY Here
<1>1. /\ UNCHANGED <<role, users, mail, roster, fga, members>> /\ p.pc = "update"
      /\ p.op \in {"setTeamRole", "clearTeamRole"}
  BY DEF UpdateTeamRole, tuples, At
<1>2. /\ Team \in p.touch /\ p.touch \cap Thing = {Team}
      /\ p.op = "setTeamRole" => p.role \in Role /\ p.dirty
  BY <1>h, <1>1, Kinds, KindsApart DEF NamesFit, TouchFits, DirtyFits
<1>3. CASE Fail(h) /\ UNCHANGED team
  BY <1>1, <1>3, FailDrift
<1>4. CASE team' = (IF team.live THEN [team EXCEPT !.role = r] ELSE team) /\ Succeed(h)
  <2>1. End(h, {Team}, {})
    BY <1>1, <1>4 DEF Succeed, Healed
  <2>2. drift' = Verdict(p, {Team}, {}) /\ proc' = [proc EXCEPT ![h] = NoCall]
    BY <2>1 DEF End
  <2>3. (team'.live <=> team.live) /\ (team.live => team'.role = r)
    <3>1. team \in [live : BOOLEAN, role : Role \cup {NoRole}]
      BY DEF Inv, TablesTyped
    <3> QED BY <1>4, <3>1
  <2>4. Elsewhere(p, p.touch, World, World') /\ Outside(p.touch, proc, World, World')
    <3>1. \A x \in Thing \ p.touch : drift'[x] = drift[x]
      BY <2>2, EndElsewhere
    <3> QED BY <1>1, <1>2, <2>3, <3>1, ElsewhereHolds
  <2>5. r = NoRole <=> p.op = "clearTeamRole"
    BY <1>1, <1>2, Kinds
  <2>6. fga[Team] = (IF r = NoRole THEN {} ELSE Grant(role[r])) => AgreesIn(Team, World')
    BY <1>1, <2>3, Worlds, TeamAgrees
  <2>7. CASE p.dirty
    <3>1. ASSUME ~p.over, NEW x \in p.touch \cap Thing
          PROVE  \/ drift'[x] # {}
                 \/ AgreesIn(x, World') /\ (x \in User => users'[x] \in {Absent} \cup p.touch)
      <4>1. x = Team /\ x \notin User
        BY <1>2, Kinds
      <4>2. CASE p.op = "clearTeamRole"
        BY <1>h, <1>1, <2>5, <2>6, <2>7, <3>1, <4>1, <4>2, Worlds DEF Sound, SoundClearTeamRole
      <4>3. CASE p.op = "setTeamRole"
        <5>1. Replaced(p, Team, World)
          BY <1>h, <1>1, <3>1, <4>3 DEF Sound, SoundSetTeamRole
        <5>2. CASE Team \in p.stale
          BY <1>2, <2>2, <2>7, <4>1, <5>2, Kinds DEF Verdict
        <5>3. CASE fga[Team] = Grant(role[p.role])
          BY <2>5, <2>6, <4>1, <4>3, <5>3
        <5> QED BY <4>1, <5>1, <5>2, <5>3, Worlds DEF Replaced
      <4> QED BY <1>1, <4>2, <4>3
    <3> QED BY <1>1, <2>1, <2>4, <2>7, <3>1, EndDrift
  <2>8. CASE ~p.dirty
    <3>1. p.op = "clearTeamRole" /\ drift'[Team] = drift[Team]
      BY <1>1, <1>2, <2>2, <2>8, Kinds DEF Verdict
    <3>2. World.fga[Team] = {} \/ World.drift[Team] # {} \/ Working(Team, proc)
      BY <1>1, <2>8, <3>1, DriftInvIs DEF Drift, ClearFits
    <3>3. fga[Team] = {} => AgreesIn(Team, World')
      BY <2>5, <2>6, <3>1
    <3>4. ASSUME NEW x \in p.touch \cap Thing
          PROVE  Left(x, proc, p, NoCall, World, World')
      <4>1. x = Team /\ x \notin User
        BY <1>2, Kinds
      <4> HIDE DEF p
      <4> QED BY <1>1, <2>8, <3>1, <3>2, <3>3, <4>1, Worlds DEF Left, Kept
    <3> QED BY <1>1, <2>2, <2>4, <3>4, NoCallShape, StepDrift
  <2> QED BY <2>7, <2>8
<1> QED BY <1>3, <1>4 DEF UpdateTeamRole

-----------------------------------------------------------------------------
(* Steps on the membership in the team.                                    *)

LEMMA LinkTupleDrift ==
  ASSUME Inv, Inv', DriftInv, NEW h \in Handler, LinkTuple(h)
  PROVE  DriftInv'
<1> DEFINE p == proc[h]
           u == p.user
<1>h. NamesFit(p) /\ TouchFits(p) /\ DirtyFits(p) /\ (~p.over => Sound(p, World))
  BY Here
<1>1. UNCHANGED <<role, users, mail, team, roster, fga>> /\ p.op = "addMember" /\ p.pc = "link"
  BY <1>h DEF LinkTuple, rows, At, NamesFit
<1>2. u \in User /\ p.touch = {Link(u)} /\ p.dirty
  BY <1>h, <1>1 DEF NamesFit, TouchFits, DirtyFits
<1>3. ~p.over => u \in roster /\ (u \notin members \/ drift[Link(u)] # {})
  BY <1>h, <1>1, Worlds DEF Sound, SoundAddMember
<1>4. CASE UNCHANGED members /\ Throw(h, FALSE)
  BY <1>1, <1>3, <1>4, ThrowDrift
<1>5. CASE members' = members \cup {u} /\ Succeed(h)
  <2>1. End(h, {Link(u)}, {})
    BY <1>1, <1>5 DEF Succeed, Healed
  <2>2. drift' = Verdict(p, {Link(u)}, {})
    BY <2>1 DEF End
  <2>3. Elsewhere(p, p.touch, World, World') /\ Outside(p.touch, proc, World, World')
    <3>1. \A x \in Thing \ p.touch : drift'[x] = drift[x]
      BY <2>2, EndElsewhere
    <3>2. \A v \in User : Link(v) \notin p.touch => (v \in members' <=> v \in members)
      BY <1>2, <1>5
    <3> QED BY <1>1, <3>1, <3>2, ElsewhereHolds
  <2>4. ~p.over => AgreesIn(Link(u), World')
    BY <1>1, <1>2, <1>3, <1>5, Worlds, LinkAgrees
  <2>5. \A x \in p.touch : x = Link(u) /\ x \notin User
    BY <1>2, Kinds
  <2> HIDE DEF u
  <2> QED BY <1>1, <1>2, <2>1, <2>3, <2>4, <2>5, EndDrift
<1> QED BY <1>4, <1>5 DEF LinkTuple

LEMMA UnlinkTupleDrift ==
  ASSUME Inv, Inv', DriftInv, NEW h \in Handler, UnlinkTuple(h)
  PROVE  DriftInv'
<1> DEFINE p == proc[h]
           u == p.user
<1>h. NamesFit(p) /\ TouchFits(p) /\ DirtyFits(p) /\ StepsFit(p) /\ (~p.over => Sound(p, World))
  BY Here
<1>1. UNCHANGED <<role, users, mail, team, roster, fga>> /\ p.op = "removeMember" /\ p.pc = "unlink"
  BY <1>h DEF UnlinkTuple, rows, At, StepsFit
<1>2. u \in User /\ p.touch = {Link(u)} /\ p.dirty
  BY <1>h, <1>1 DEF NamesFit, TouchFits, DirtyFits
<1>3. ~p.over => u \notin roster
  BY <1>h, <1>1, Worlds DEF Sound, SoundRemoveMember
<1>4. CASE UNCHANGED members /\ Fail(h)
  BY <1>1, <1>4, FailDrift
<1>5. CASE members' = members \ {u} /\ Succeed(h)
  <2>1. End(h, {Link(u)}, {})
    BY <1>1, <1>5 DEF Succeed, Healed
  <2>2. drift' = Verdict(p, {Link(u)}, {})
    BY <2>1 DEF End
  <2>3. Elsewhere(p, p.touch, World, World') /\ Outside(p.touch, proc, World, World')
    <3>1. \A x \in Thing \ p.touch : drift'[x] = drift[x]
      BY <2>2, EndElsewhere
    <3>2. \A v \in User : Link(v) \notin p.touch => (v \in members' <=> v \in members)
      BY <1>2, <1>5
    <3> QED BY <1>1, <3>1, <3>2, ElsewhereHolds
  <2>4. ~p.over => AgreesIn(Link(u), World')
    BY <1>1, <1>2, <1>3, <1>5, Worlds, LinkAgrees
  <2>5. \A x \in p.touch : x = Link(u) /\ x \notin User
    BY <1>2, Kinds
  <2> HIDE DEF u
  <2> QED BY <1>1, <1>2, <2>1, <2>3, <2>4, <2>5, EndDrift
<1> QED BY <1>4, <1>5 DEF UnlinkTuple

LEMMA UndoDrift ==
  ASSUME Inv, Inv', DriftInv, NEW h \in Handler, Undo(h)
  PROVE  DriftInv'
<1> DEFINE p == proc[h]
           u == p.user
           gone == IF p.op = "accept" THEN {u} ELSE {}
           why == IF p.lost THEN {"failure"} ELSE {}
           d == Verdict(p, {}, why)
<1>h. NamesFit(p) /\ TouchFits(p) /\ DirtyFits(p) /\ StepsFit(p) /\ (~p.over => Sound(p, World))
  BY Here
<1>1. /\ UNCHANGED <<role, mail, team, fga, members>> /\ p.pc = "undo" /\ roster' = roster \ {u}
      /\ proc' = [proc EXCEPT ![h] = NoCall] /\ drift' = Orphaned(d, gone)
      /\ IF p.op = "accept" THEN users' = [users EXCEPT ![u] = Absent] ELSE users' = users
  BY DEF Undo, tuples, At
<1>2. /\ p.op \in {"accept", "addMember"} /\ p.dirty /\ u \in User /\ Link(u) \in p.touch
      /\ p.op = "addMember" => p.touch = {Link(u)}
      /\ p.op = "accept" => p.touch = {p.role, u, Link(u)} /\ p.role \in Role
  BY <1>h, <1>1 DEF NamesFit, TouchFits, DirtyFits, StepsFit
<1>3. users \in [User -> Role \cup {Absent}]
  BY DEF Inv, TablesTyped
<1>4. \A v \in User \ p.touch : users'[v] = users[v]
  BY <1>1, <1>2, <1>3
<1>5. \A x \in Thing \ p.touch : drift'[x] = drift[x]
  <2> SUFFICES ASSUME NEW x \in Thing \ p.touch PROVE drift'[x] = drift[x]
    OBVIOUS
  <2>1. d[x] = drift[x]
    BY DEF Verdict
  <2>2. ~\E v \in gone \cap members : x = Link(v)
    BY <1>2
  <2> HIDE DEF d, gone
  <2> QED BY <1>1, <2>1, <2>2 DEF Orphaned
<1>6. \A v \in User : Link(v) \notin p.touch => (v \in roster' <=> v \in roster)
  BY <1>1, <1>2
<1>7. Elsewhere(p, p.touch, World, World') /\ Outside(p.touch, proc, World, World')
  BY <1>1, <1>2, <1>4, <1>5, <1>6, ElsewhereHolds
<1>8. ASSUME NEW x \in p.touch \cap Thing
      PROVE  Left(x, proc, p, NoCall, World, World')
  <2>1. d[x] \subseteq drift'[x]
    <3> HIDE DEF d, gone
    <3> QED BY <1>1 DEF Orphaned
  <2>2. CASE p.over \/ p.lost
    <3>1. d[x] # {}
      BY <1>2, <2>2 DEF Verdict
    <3> HIDE DEF d
    <3> QED BY <2>1, <3>1, Worlds DEF Left
  <2>3. CASE ~p.over /\ ~p.lost /\ p.op = "accept"
    <3>1. fga[u] = {} /\ u \notin roster /\ u \notin members
      BY <1>h, <1>1, <1>2, <2>3, Worlds DEF Sound, SoundAccept
    <3>2. users'[u] = Absent
      BY <1>1, <1>2, <1>3, <2>3
    <3>3. x = u \/ x = Link(u)
      BY <1>2, <2>3, <1>8, KindsApart
    <3>7. World'.fga[u] = {} /\ World'.users[u] = Absent
      BY <1>1, <3>1, <3>2, Worlds
    <3>4. AgreesIn(u, World')
      <4> HIDE DEF p
      <4> QED BY <1>2, <3>7, UserAgrees
    <3>6. AgreesIn(Link(u), World')
      BY <1>1, <1>2, <3>1, Worlds, LinkAgrees
    <3>5. x \in User => World'.users[x] = Absent
      BY <1>2, <3>2, <3>3, Kinds, Worlds
    <3> HIDE DEF p, d
    <3> QED BY <1>8, <2>3, <3>3, <3>4, <3>5, <3>6 DEF Left
  <2>4. CASE ~p.over /\ ~p.lost /\ p.op = "addMember"
    <3>1. u \notin members \/ drift[Link(u)] # {}
      BY <1>h, <1>1, <2>4, Worlds DEF Sound, SoundAddMember
    <3>2. x = Link(u) /\ x \notin User
      BY <1>2, <2>4, <1>8, Kinds
    <3>3. CASE u \notin members
      <4>1. AgreesIn(x, World')
        BY <1>1, <1>2, <3>2, <3>3, Worlds, LinkAgrees
      <4> HIDE DEF p, d
      <4> QED BY <1>8, <2>4, <3>2, <4>1 DEF Left
    <3>4. CASE drift[Link(u)] # {}
      <4>1. d[x] # {}
        BY <1>2, <3>2, <3>4 DEF Verdict
      <4> HIDE DEF d
      <4> QED BY <2>1, <4>1, Worlds DEF Left
    <3> QED BY <3>1, <3>3, <3>4
  <2> QED BY <1>2, <2>2, <2>3, <2>4
<1> QED BY <1>1, <1>7, <1>8, NoCallShape, StepDrift

-----------------------------------------------------------------------------
(* Steps on the rows of a user.                                            *)

LEMMA DeleteUserDrift ==
  ASSUME Inv, Inv', DriftInv, NEW h \in Handler, DeleteUser(h)
  PROVE  DriftInv'
<1> DEFINE p == proc[h]
           u == p.user
           q == [p EXCEPT !.pc = "fgaRead", !.dirty = TRUE]
<1>h. p \in Frame /\ NamesFit(p) /\ TouchFits(p) /\ StepsFit(p)
  BY Here
<1>1. /\ UNCHANGED <<role, mail, team, fga, members>> /\ p.op = "deleteUser" /\ p.pc = "delete"
      /\ users' = [users EXCEPT ![u] = Absent] /\ roster' = roster \ {u}
      /\ drift' = Orphaned(drift, {u}) /\ proc' = [proc EXCEPT ![h] = q]
  BY DEF DeleteUser, tuples, Doing, At
<1>2. u \in User /\ p.touch = {u, Link(u)}
  BY <1>h, <1>1 DEF NamesFit, TouchFits
<1>3. users'[u] = Absent /\ \A v \in User \ {u} : users'[v] = users[v]
  <2>1. users \in [User -> Role \cup {Absent}]
    BY DEF Inv, TablesTyped
  <2> QED BY <1>1, <1>2, <2>1
<1>4. \A x \in Thing \ p.touch : drift'[x] = drift[x]
  BY <1>1, <1>2 DEF Orphaned
<1>5. Elsewhere(p, p.touch, World, World') /\ Outside(p.touch, proc, World, World')
  BY <1>1, <1>2, <1>3, <1>4, ElsewhereHolds
<1>6. Kept(Link(u), World')
  <2>1. CASE u \in members
    <3>1. drift'[Link(u)] # {}
      BY <1>1, <1>2, <2>1, Kinds DEF Orphaned
    <3> QED BY <3>1, Worlds DEF Kept
  <2>2. CASE u \notin members
    BY <1>1, <1>2, <2>2, Worlds, LinkAgrees DEF Kept
  <2> QED BY <2>1, <2>2
<1>7. /\ q.pc = "fgaRead" /\ q.op = p.op /\ q.user = u /\ q.touch = p.touch /\ q.over = p.over /\ q.dirty
  BY <1>h DEF Frame
<1> HIDE DEF p, q, u
<1>8. TouchFits(q) /\ DirtyFits(q) /\ StepsFit(q)
  BY <1>1, <1>2, <1>7 DEF TouchFits, DirtyFits, StepsFit
<1>9. Sound(q, World')
  BY <1>1, <1>3, <1>6, <1>7, Worlds DEF Sound, SoundDeleteUser
<1> QED BY <1>1, <1>5, <1>7, <1>8, <1>9, BusyStep DEF p

LEMMA RemoveTeamMemberDrift ==
  ASSUME Inv, Inv', DriftInv, NEW h \in Handler, RemoveTeamMember(h)
  PROVE  DriftInv'
<1> DEFINE p == proc[h]
           u == p.user
           q == [p EXCEPT !.pc = "unlink", !.dirty = TRUE]
<1>h. p \in Frame /\ NamesFit(p) /\ TouchFits(p) /\ StepsFit(p)
  BY Here
<1>1. /\ UNCHANGED <<role, users, mail, team, fga, members, drift>> /\ p.op = "removeMember"
      /\ roster' = roster \ {u} /\ proc' = [proc EXCEPT ![h] = q]
  BY DEF RemoveTeamMember, tuples, Doing, At
<1>2. u \in User /\ p.touch = {Link(u)}
  BY <1>h, <1>1 DEF NamesFit, TouchFits
<1>3. \A v \in User : Link(v) \notin p.touch => (v \in roster' <=> v \in roster)
  BY <1>1, <1>2
<1>4. Elsewhere(p, p.touch, World, World') /\ Outside(p.touch, proc, World, World')
  BY <1>1, <1>3, ElsewhereHolds
<1>5. /\ q.pc = "unlink" /\ q.op = p.op /\ q.user = u /\ q.touch = p.touch /\ q.over = p.over /\ q.dirty
  BY <1>h DEF Frame
<1> HIDE DEF p, q, u
<1>6. TouchFits(q) /\ DirtyFits(q) /\ StepsFit(q)
  BY <1>1, <1>2, <1>5 DEF TouchFits, DirtyFits, StepsFit
<1>7. Sound(q, World')
  BY <1>1, <1>5, Worlds DEF Sound, SoundRemoveMember
<1> QED BY <1>1, <1>4, <1>5, <1>6, <1>7, BusyStep DEF p

LEMMA AddTeamMemberDrift ==
  ASSUME Inv, Inv', DriftInv, NEW h \in Handler, AddTeamMember(h)
  PROVE  DriftInv'
<1> DEFINE p == proc[h]
           u == p.user
           q == [p EXCEPT !.pc = "link", !.dirty = TRUE]
<1>h. p \in Frame /\ NamesFit(p) /\ TouchFits(p) /\ DirtyFits(p) /\ StepsFit(p)
  BY Here
<1>1. UNCHANGED <<role, users, mail, team, fga, members>> /\ p.op = "addMember" /\ p.pc = "start"
  BY DEF AddTeamMember, tuples, Doing, At
<1>2. u \in User /\ p.touch = {Link(u)} /\ ~p.dirty
  BY <1>h, <1>1 DEF NamesFit, TouchFits, DirtyFits
<1>3. CASE Fail(h) /\ UNCHANGED roster
  BY <1>1, <1>3, FailDrift
<1>4. CASE /\ u \notin roster /\ roster' = roster \cup {u}
           /\ proc' = [proc EXCEPT ![h] = q] /\ UNCHANGED drift
  <2>1. \A v \in User : Link(v) \notin p.touch => (v \in roster' <=> v \in roster)
    BY <1>2, <1>4
  <2>2. Elsewhere(p, p.touch, World, World') /\ Outside(p.touch, proc, World, World')
    BY <1>1, <1>4, <2>1, ElsewhereHolds
  <2>3. /\ q.pc = "link" /\ q.op = p.op /\ q.user = u /\ q.touch = p.touch /\ q.over = p.over /\ q.dirty
    BY <1>h DEF Frame
  <2>4. ~p.over => u \notin members \/ drift[Link(u)] # {}
    <3>1. ~p.over => Kept(Link(u), World)
      BY <1>1, <1>2, LoneKept, Kinds
    <3> QED BY <1>2, <1>4, <3>1, Worlds, LinkAgrees DEF Kept
  <2> HIDE DEF p, q, u
  <2>5. TouchFits(q) /\ DirtyFits(q) /\ StepsFit(q)
    BY <1>1, <1>2, <2>3 DEF TouchFits, DirtyFits, StepsFit
  <2>6. ~q.over => Sound(q, World')
    BY <1>1, <1>4, <2>3, <2>4, Worlds DEF Sound, SoundAddMember
  <2> QED BY <1>1, <1>4, <2>2, <2>3, <2>5, <2>6, BusyStep DEF p
<1> QED BY <1>3, <1>4 DEF AddTeamMember

-----------------------------------------------------------------------------
(* Steps of the deletion of the team.                                      *)

LEMMA UnlinkAllDrift ==
  ASSUME Inv, Inv', DriftInv, NEW h \in Handler, UnlinkAll(h) \/ FailUnlinkAll(h)
  PROVE  DriftInv'
<1> DEFINE p == proc[h]
           q == [p EXCEPT !.pc = "delete", !.dirty = TRUE]
           d == [p EXCEPT !.dirty = TRUE]
<1>h. p \in Frame /\ TouchFits(p) /\ DirtyFits(p) /\ StepsFit(p)
  BY Here
<1>1. /\ UNCHANGED <<role, users, mail, team, roster, fga>> /\ p.op = "deleteTeam"
      /\ members' \subseteq members
  BY DEF UnlinkAll, FailUnlinkAll, rows, Doing, At
<1>2. ASSUME \A x \in Thing \ p.touch : drift'[x] = drift[x]
      PROVE  Elsewhere(p, p.touch, World, World') /\ Outside(p.touch, proc, World, World')
  BY <1>1, <1>2, TeamHeld, ElsewhereHolds
<1>3. CASE proc' = [proc EXCEPT ![h] = NoCall] /\ drift' = Verdict(d, {}, {"failure"})
  <2>1. d.touch = p.touch
    BY <1>h DEF Frame
  <2>2. \A x \in Thing \ p.touch : drift'[x] = drift[x]
    <3> HIDE DEF d, p
    <3> QED BY <1>3, <2>1 DEF Verdict
  <2> QED BY <1>1, <1>2, <1>3, <2>2, LossDrift
<1>4. CASE proc' = [proc EXCEPT ![h] = q] /\ UNCHANGED drift
  <2>1. Elsewhere(p, p.touch, World, World') /\ Outside(p.touch, proc, World, World')
    BY <1>2, <1>4
  <2>2. q.pc = "delete" /\ q.op = p.op /\ q.touch = p.touch /\ q.over = p.over /\ q.dirty
    BY <1>h DEF Frame
  <2> HIDE DEF q, p
  <2>3. TouchFits(q) /\ DirtyFits(q) /\ StepsFit(q)
    BY <1>h, <1>1, <2>2 DEF TouchFits, DirtyFits, StepsFit
  <2>4. Sound(q, World')
    BY <1>1, <2>2 DEF Sound, SoundDeleteTeam
  <2> QED BY <1>1, <1>4, <2>1, <2>2, <2>3, <2>4, BusyStep DEF p
<1> QED BY <1>3, <1>4 DEF UnlinkAll, FailUnlinkAll

LEMMA DeleteTeamDrift ==
  ASSUME Inv, Inv', DriftInv, NEW h \in Handler, DeleteTeam(h)
  PROVE  DriftInv'
<1> DEFINE p == proc[h]
           q == [p EXCEPT !.pc = "links"]
<1>h. p \in Frame /\ TouchFits(p) /\ DirtyFits(p) /\ StepsFit(p)
  BY Here
<1>1. /\ UNCHANGED <<role, users, mail, fga, members, drift>> /\ p.op = "deleteTeam" /\ p.pc = "delete"
      /\ team' = [live |-> FALSE, role |-> NoRole] /\ roster' = {} /\ proc' = [proc EXCEPT ![h] = q]
  BY DEF DeleteTeam, tuples, Doing, At, Goto
<1>2. p.dirty
  BY <1>h, <1>1 DEF DirtyFits
<1>3. Elsewhere(p, p.touch, World, World') /\ Outside(p.touch, proc, World, World')
  BY <1>1, TeamHeld, ElsewhereHolds
<1>4. q.pc = "links" /\ q.op = p.op /\ q.touch = p.touch /\ q.over = p.over /\ q.dirty = p.dirty
  BY <1>h, GoesTo
<1> HIDE DEF q, p
<1>5. TouchFits(q) /\ DirtyFits(q) /\ StepsFit(q)
  BY <1>h, <1>1, <1>2, <1>4 DEF TouchFits, DirtyFits, StepsFit
<1>6. Sound(q, World')
  BY <1>1, <1>4, Worlds DEF Sound, SoundDeleteTeam
<1> QED BY <1>1, <1>2, <1>3, <1>4, <1>5, <1>6, BusyStep DEF p

LEMMA ReadLinksDrift ==
  ASSUME Inv, Inv', DriftInv, NEW h \in Handler, ReadLinks(h)
  PROVE  DriftInv'
<1> DEFINE p == proc[h]
           q == [p EXCEPT !.pc = "dropLinks", !.todo = members]
<1>h. p \in Frame /\ TouchFits(p) /\ DirtyFits(p) /\ StepsFit(p) /\ (~p.over => Sound(p, World))
  BY Here
<1>1. /\ UNCHANGED <<role, users, mail, team, roster, fga, members, drift>> /\ p.pc = "links"
      /\ proc' = [proc EXCEPT ![h] = q]
  BY DEF ReadLinks, rows, tuples, At
<1>2. p.op = "deleteTeam" /\ p.dirty
  BY <1>h, <1>1 DEF StepsFit, DirtyFits
<1>3. /\ q.pc = "dropLinks" /\ q.op = p.op /\ q.touch = p.touch /\ q.over = p.over /\ q.dirty = p.dirty
      /\ q.todo = members
  BY <1>h DEF Frame
<1> HIDE DEF q, p
<1>4. TouchFits(q) /\ DirtyFits(q) /\ StepsFit(q)
  BY <1>h, <1>2, <1>3 DEF TouchFits, DirtyFits, StepsFit
<1>5. ~q.over => Sound(q, World)
  BY <1>h, <1>1, <1>2, <1>3, Worlds DEF Sound, SoundDeleteTeam
<1> QED BY <1>1, <1>2, <1>3, <1>4, <1>5, SilentStep DEF p

LEMMA DropLinksDrift ==
  ASSUME Inv, Inv', DriftInv, NEW h \in Handler, DropLinks(h)
  PROVE  DriftInv'
<1> DEFINE p == proc[h]
<1>h. p \in Frame /\ TouchFits(p) /\ DirtyFits(p) /\ StepsFit(p) /\ (~p.over => Sound(p, World))
  BY Here
<1>1. UNCHANGED <<role, users, mail, team, roster, fga>> /\ p.pc = "dropLinks"
  BY DEF DropLinks, rows, At
<1>2. p.op = "deleteTeam" /\ p.dirty /\ p.touch = {Team} \cup Links
  BY <1>h, <1>1 DEF StepsFit, DirtyFits, TouchFits
<1>3. CASE UNCHANGED members /\ Fail(h)
  BY <1>1, <1>3, FailDrift
<1>4. ASSUME NEW b \in Batches(p.todo), Unsent(p.todo, b) = {}, members' = members \ b, Succeed(h)
      PROVE  DriftInv'
  <2>1. End(h, Links, {})
    BY <1>2, <1>4 DEF Succeed, Healed
  <2>2. drift' = Verdict(p, Links, {})
    BY <2>1 DEF End
  <2>3. Elsewhere(p, p.touch, World, World') /\ Outside(p.touch, proc, World, World')
    <3>1. \A x \in Thing \ p.touch : drift'[x] = drift[x]
      BY <2>2, EndElsewhere
    <3> QED BY <1>1, <1>2, <1>4, <3>1, TeamHeld, ElsewhereHolds
  <2>4. ASSUME ~p.over, NEW x \in p.touch \cap Thing
        PROVE  AgreesIn(x, World') /\ x \notin User
    <3>1. ~team.live /\ roster = {} /\ p.todo = members
      BY <1>h, <1>1, <1>2, <2>4, Worlds DEF Sound, SoundDeleteTeam
    <3>2. CASE x = Team
      BY <1>1, <3>1, <3>2, Worlds, TeamAgrees, Kinds
    <3>3. CASE x \in Links
      <4>1. PICK u \in User : x = Link(u)
        BY <3>3 DEF Links
      <4>2. members' = {} /\ roster' = {}
        <5>1. b = p.todo
          <6>1. b \subseteq p.todo /\ p.todo \ b = {}
            BY <1>4, BatchIn
          <6> HIDE DEF p
          <6> QED BY <6>1
        <5> QED BY <1>1, <1>4, <3>1, <5>1
      <4> QED BY <4>1, <4>2, Worlds, LinkAgrees, Kinds
    <3> QED BY <1>2, <3>2, <3>3
  <2> QED BY <1>1, <1>2, <2>1, <2>3, <2>4, EndDrift
<1>5. ASSUME NEW b \in Batches(p.todo), NEW left, left = Unsent(p.todo, b), members' = members \ b,
             proc' = [proc EXCEPT ![h].todo = left], UNCHANGED drift
      PROVE  DriftInv'
  <2> DEFINE q == [p EXCEPT !.todo = left]
  <2>1. proc' = [proc EXCEPT ![h] = q]
    BY <1>5
  <2>2. /\ q.pc = "dropLinks" /\ q.op = p.op /\ q.touch = p.touch /\ q.over = p.over /\ q.dirty = p.dirty
        /\ q.todo = left
    BY <1>h, <1>1 DEF Frame
  <2> HIDE DEF q
  <2>3. TouchFits(q) /\ DirtyFits(q) /\ StepsFit(q)
    BY <1>h, <1>2, <2>2 DEF TouchFits, DirtyFits, StepsFit
  <2>4. ASSUME ~q.over
        PROVE  Sound(q, World')
    <3>1. ~team.live /\ roster = {} /\ p.todo = members
      BY <1>h, <1>1, <1>2, <2>2, <2>4, Worlds DEF Sound, SoundDeleteTeam
    <3>2. q.todo = members'
      BY <1>5, <2>2, <3>1, BatchIn
    <3> QED BY <1>1, <1>2, <2>2, <3>1, <3>2, Worlds DEF Sound, SoundDeleteTeam
  <2>5. Elsewhere(p, p.touch, World, World') /\ Outside(p.touch, proc, World, World')
    BY <1>1, <1>2, <1>5, TeamHeld, ElsewhereHolds
  <2>6. q.pc # "start" /\ q.dirty
    BY <1>2, <2>2
  <2> HIDE DEF p
  <2> QED BY <1>1, <2>1, <2>2, <2>3, <2>4, <2>5, <2>6, BusyStep DEF p
<1>6. PICK b \in Batches(p.todo) :
        LET left == Unsent(p.todo, b) IN
        \/ members' = members \ b /\ left = {} /\ Succeed(h)
        \/ members' = members \ b /\ proc' = [proc EXCEPT ![h].todo = left] /\ UNCHANGED drift
        \/ UNCHANGED members /\ Fail(h)
  BY DEF DropLinks
<1> QED BY <1>3, <1>4, <1>5, <1>6

-----------------------------------------------------------------------------
(* Steps on roles and the ends of calls on them.                           *)

LEMMA UpdateRoleDrift ==
  ASSUME Inv, Inv', DriftInv, NEW h \in Handler, UpdateRole(h)
  PROVE  DriftInv'
<1> DEFINE p == proc[h]
           r == p.role
           hit == role[r] # Absent /\ "master" \notin role[r]
           q == [p EXCEPT !.pc = "list", !.dirty = TRUE]
<1>h. p \in Frame /\ NamesFit(p) /\ TouchFits(p) /\ DirtyFits(p) /\ StepsFit(p) /\ (~p.over => Sound(p, World))
  BY Here
<1>1. /\ UNCHANGED <<users, mail, team, roster, fga, members>> /\ p.op = "updateRole" /\ p.pc = "start"
      /\ role' = IF hit THEN [role EXCEPT ![r] = p.flags] ELSE role
      /\ drift' = IF hit /\ team.role = r THEN [drift EXCEPT ![Team] = @ \cup {"team"}] ELSE drift
      /\ proc' = [proc EXCEPT ![h] = q]
  BY DEF UpdateRole, tuples, Doing, At
<1>2. r \in Role /\ r \in p.touch /\ ~p.dirty /\ p.done = {} /\ p.touch \subseteq {r} \cup Subject
      /\ p.todo \subseteq p.touch
  BY <1>h, <1>1 DEF NamesFit, TouchFits, DirtyFits, StepsFit
<1>3. (\A a \in Role \ {r} : role'[a] = role[a]) /\ (~hit => role' = role)
  BY <1>1 DEF Inv, TablesTyped
<1>4. /\ \A x \in Thing \ {Team} : drift'[x] = drift[x]
      /\ drift'[Team] = drift[Team] \/ (drift'[Team] # {} /\ hit /\ team.role = r)
      /\ hit /\ team.role = r => drift'[Team] # {}
      /\ drift[Team] # {} => drift'[Team] # {}
  <2>1. drift \in [Thing -> SUBSET Cause]
    BY DEF Inv, TablesTyped
  <2> QED BY <1>1, <2>1, Kinds
<1>5. Kept(Team, World) => Kept(Team, World')
  <2>1. CASE hit /\ team.role = r
    BY <1>4, <2>1, Worlds DEF Kept
  <2>2. CASE ~(hit /\ team.role = r)
    <3>1. team.role \in Role \cup {NoRole}
      BY DEF Inv, TablesTyped
    <3>2. team.role = NoRole \/ role'[team.role] = role[team.role]
      BY <1>3, <2>2, <3>1
    <3>3. drift'[Team] = drift[Team]
      BY <1>4, <2>2
    <3>4. fga' = fga /\ team' = team
      BY <1>1
    <3> HIDE DEF p, hit
    <3>5. AgreesIn(Team, World) => AgreesIn(Team, World')
      BY <3>2, <3>4, Worlds, TeamAgrees
    <3> QED BY <3>3, <3>5, Worlds DEF Kept
  <2> QED BY <2>1, <2>2
<1>6. Elsewhere(p, p.touch, World, World')
  <2>1. \A a \in Role \ p.touch : role'[a] = role[a]
    BY <1>2, <1>3
  <2>2. \A x \in Thing \ (p.touch \cup {Team}) : drift'[x] = drift[x]
    BY <1>4
  <2>3. drift[Team] # {} => drift'[Team] # {}
    BY <1>4
  <2>4. /\ users' = users /\ fga' = fga /\ team' = team /\ roster' = roster /\ members' = members
        /\ p.op \notin {"accept", "deleteTeam"}
    BY <1>1
  <2> HIDE DEF p
  <2> QED BY <1>5, <2>1, <2>2, <2>3, <2>4, Worlds DEF Elsewhere
<1>7. Outside(p.touch, proc, World, World')
  <2> SUFFICES ASSUME NEW u \in User \ p.touch, Kept(u, World)
               PROVE  Working(u, proc) \/ Kept(u, World')
    BY DEF Outside
  <2>1. CASE users[u] = r
    <3>1. Working(u, proc) \/ drift[u] # {}
      BY <1>1, <2>1, Worlds, DriftInvIs DEF Drift, HoldersKnown, HoldersIn
    <3>2. drift'[u] = drift[u]
      BY <1>4, Kinds
    <3> QED BY <3>1, <3>2, Worlds DEF Kept
  <2>2. CASE users[u] # r
    <3>1. users[u] # Absent => World'.role[World.users[u]] = World.role[World.users[u]]
      <4>1. users[u] \in Role \cup {Absent}
        BY DEF Inv, TablesTyped
      <4> QED BY <1>3, <2>2, <4>1, Worlds
    <3> HIDE DEF p
    <3> QED BY <1>6, <3>1, UserKept, Worlds
  <2> QED BY <2>1, <2>2
<1>8. /\ q.pc = "list" /\ q.op = p.op /\ q.role = r /\ q.todo = p.todo /\ q.done = p.done
      /\ q.touch = p.touch /\ q.over = p.over /\ q.dirty
  BY <1>h DEF Frame
<1>9. ~p.over /\ Team \in p.touch => Kept(Team, World)
  BY <1>1, <1>2, LoneKept, Kinds
<1> HIDE DEF p, q, r
<1>10. TouchFits(q) /\ DirtyFits(q) /\ StepsFit(q)
  BY <1>1, <1>2, <1>8 DEF TouchFits, DirtyFits, StepsFit, Resyncing
<1>11. ASSUME ~q.over
       PROVE  Sound(q, World')
  <2>1. SoundUpdateRole(p, World)
    BY <1>h, <1>1, <1>8, <1>11 DEF Sound
  <2>2. HoldersIn(p.role, World') = HoldersIn(p.role, World)
    BY <1>1, Worlds DEF HoldersIn
  <2>3. SoundUpdateRole(q, World')
    BY <1>5, <1>8, <1>9, <1>11, <2>1, <2>2 DEF SoundUpdateRole, Resyncing, r
  <2> QED BY <1>1, <1>8, <2>3 DEF Sound
<1> QED BY <1>1, <1>6, <1>7, <1>8, <1>10, <1>11, BusyStep DEF p

LEMMA ResyncNextDrift ==
  ASSUME Inv, Inv', DriftInv, NEW h \in Handler, ResyncNext(h)
  PROVE  DriftInv'
<1> DEFINE p == proc[h]
<1>h. p \in Frame /\ NamesFit(p) /\ TouchFits(p) /\ DirtyFits(p) /\ StepsFit(p) /\ (~p.over => Sound(p, World))
  BY Here
<1>1. UNCHANGED <<role, users, mail, team, roster, fga, members, drift>> /\ p.pc = "next"
  BY DEF ResyncNext, rows, tuples, At
<1>2. p.op = "updateRole"
  BY <1>h, <1>1 DEF NamesFit
<1>3. ~p.over => SoundUpdateRole(p, World)
  BY <1>h, <1>2 DEF Sound
<1>4. CASE p.todo = {}
  <2> DEFINE q == [p EXCEPT !.pc = "invalidate"]
  <2>1. proc' = [proc EXCEPT ![h] = q]
    BY <1>4 DEF ResyncNext, Goto
  <2>2. /\ q.pc = "invalidate" /\ q.op = p.op /\ q.user = p.user /\ q.role = p.role /\ q.todo = p.todo
        /\ q.done = p.done /\ q.touch = p.touch /\ q.stale = p.stale /\ q.over = p.over /\ q.dirty = p.dirty
    BY <1>h, GoesTo
  <2> HIDE DEF p, q
  <2>3. TouchFits(q) /\ DirtyFits(q) /\ StepsFit(q)
    BY <1>h, <1>2, <2>2 DEF TouchFits, DirtyFits, StepsFit, Resyncing
  <2>4. ~q.over => SoundUpdateRole(q, World)
    BY <1>1, <1>3, <1>4, <2>2 DEF SoundUpdateRole, Replaced, Resyncing
  <2>5. ~q.over => Sound(q, World)
    BY <1>2, <2>2, <2>4 DEF Sound
  <2> QED BY <1>1, <1>2, <2>1, <2>2, <2>3, <2>5, SilentStep DEF p
<1>5. CASE p.todo # {}
  <2>1. PICK u \in p.todo : proc' = [proc EXCEPT ![h].pc = "fgaRead", ![h].user = u, ![h].todo = @ \ {u}]
    BY <1>5 DEF ResyncNext
  <2> DEFINE q == [p EXCEPT !.pc = "fgaRead", !.user = u, !.todo = @ \ {u}]
  <2>2. proc' = [proc EXCEPT ![h] = q]
    BY <2>1
  <2>3. /\ q.pc = "fgaRead" /\ q.op = p.op /\ q.user = u /\ q.role = p.role /\ q.todo = p.todo \ {u}
        /\ q.done = p.done /\ q.touch = p.touch /\ q.stale = p.stale /\ q.over = p.over /\ q.dirty = p.dirty
    BY <1>h DEF Frame
  <2>4. u \in p.touch \cap User
    BY <1>h, <1>2 DEF TouchFits, NamesFit
  <2> HIDE DEF p, q
  <2>5. TouchFits(q) /\ DirtyFits(q) /\ StepsFit(q)
    BY <1>h, <1>2, <2>3, <2>4 DEF TouchFits, DirtyFits, StepsFit, Resyncing
  <2>6. ASSUME ~q.over
        PROVE  SoundUpdateRole(q, World)
    <3>1. SoundUpdateRole(p, World)
      BY <1>3, <2>3, <2>6
    <3>2. Replacing(q, q.user, World)
      BY <2>3 DEF Replacing
    <3>3. \A v \in p.done : Replaced(q, v, World)
      BY <1>1, <2>3, <3>1 DEF SoundUpdateRole, Replaced
    <3>4. /\ p.touch \cap User \subseteq p.todo \cup p.done
          /\ p.todo \cap p.done = {} /\ p.done \subseteq p.touch \cap User
      BY <1>1, <3>1 DEF SoundUpdateRole
    <3>5. /\ q.touch \cap User \subseteq q.todo \cup q.done \cup {q.user}
          /\ q.todo \cap q.done = {} /\ q.done \subseteq q.touch \cap User
          /\ q.user \notin q.done \cup q.todo
      BY <2>3, <3>4
    <3>6. /\ q.touch \cap User \subseteq HoldersIn(q.role, World)
          /\ Team \in q.touch => Kept(Team, World)
      BY <1>1, <2>3, <3>1 DEF SoundUpdateRole
    <3> QED BY <2>3, <3>2, <3>3, <3>5, <3>6 DEF SoundUpdateRole
  <2>7. ~q.over => Sound(q, World)
    BY <1>2, <2>3, <2>6 DEF Sound
  <2> QED BY <1>1, <1>2, <2>2, <2>3, <2>5, <2>7, SilentStep DEF p
<1> QED BY <1>4, <1>5

\* A call that has done all its work.
LEMMA DoneDrift ==
  ASSUME Inv, Inv', DriftInv, NEW h \in Handler, Succeed(h),
         proc[h].pc \in {"mark", "invalidate", "return"} \/ proc[h].op = "invite",
         UNCHANGED <<role, users, mail, team, roster, fga, members>>
  PROVE  DriftInv'
<1> DEFINE p == proc[h]
           healed == Healed(h)
<1>h. NamesFit(p) /\ TouchFits(p) /\ DirtyFits(p) /\ StepsFit(p) /\ (~p.over => Sound(p, World))
  BY Here
<1>1. End(h, healed, {})
  BY DEF Succeed
<1>2. drift' = Verdict(p, healed, {})
  BY <1>1 DEF End
<1>3. Elsewhere(p, p.touch, World, World') /\ Outside(p.touch, proc, World, World')
  <2>1. \A x \in Thing \ p.touch : drift'[x] = drift[x]
    BY <1>2, EndElsewhere
  <2> QED BY <2>1, ElsewhereHolds
<1>4. p.op \in {"invite", "accept", "reconcile", "updateRole", "deleteRole", "readRole"}
  BY <1>h DEF StepsFit
<1>5. ASSUME p.dirty, ~p.over, NEW x \in p.touch \cap Thing
      PROVE  \/ drift'[x] # {}
             \/ AgreesIn(x, World') /\ (x \in User => users'[x] \in {Absent} \cup p.touch)
  <2>1. x \in p.stale \/ (x \notin healed /\ drift[x] # {}) => drift'[x] # {}
    BY <1>2, <1>5 DEF Verdict
  <2>2. AgreesIn(x, World) => AgreesIn(x, World')
    BY Worlds DEF AgreesIn, GrantedIn
  <2>3. CASE p.op = "accept"
    <3>1. p.pc = "mark" /\ healed = {p.user} /\ p.user \in User
      BY <1>h, <1>5, <2>3 DEF StepsFit, Healed
    <3>2. SoundAccept(p, World)
      BY <1>h, <1>5, <2>3 DEF Sound
    <3>3. /\ users[p.user] = p.role /\ p.user \notin roster /\ p.user \notin members
          /\ Replaced(p, p.user, World)
      BY <1>5, <3>1, <3>2, Worlds DEF SoundAccept
    <3>4. p.touch = {p.role, p.user, Link(p.user)} /\ p.role \in Role
      BY <1>h, <1>5, <2>3 DEF TouchFits, NamesFit
    <3>5. CASE x = Link(p.user)
      <4>1. AgreesIn(x, World) /\ x \notin User
        BY <3>1, <3>3, <3>5, Worlds, LinkAgrees, Kinds
      <4> QED BY <2>2, <4>1
    <3>6. CASE x = p.user
      <4>1. CASE p.user \in p.stale
        BY <2>1, <3>6, <4>1
      <4>2. CASE fga[p.user] = Grant(role[p.role])
        <5>1. AgreesIn(x, World)
          BY <3>1, <3>3, <3>4, <3>6, <4>2, Worlds, UserAgrees, Kinds
        <5> QED BY <2>2, <3>3, <3>4, <3>6, <5>1
      <4> QED BY <3>3, <4>1, <4>2, Worlds DEF Replaced
    <3> QED BY <1>5, <3>4, <3>5, <3>6, KindsApart
  <2>4. CASE p.op = "updateRole"
    <3>1. p.pc = "invalidate" /\ healed = p.done
      BY <1>h, <2>4 DEF StepsFit, Healed
    <3>2. SoundUpdateRole(p, World)
      BY <1>h, <1>5, <2>4 DEF Sound
    <3>3. p.role \in Role /\ p.role \in p.touch /\ p.touch \subseteq {p.role} \cup Subject
      BY <1>h, <2>4 DEF TouchFits, NamesFit
    <3>4. CASE x \in User
      <4>1. x \in p.done /\ users[x] = p.role /\ Replaced(p, x, World)
        <5>1. /\ p.touch \cap User \subseteq p.todo \cup p.done /\ p.todo = {}
              /\ p.touch \cap User \subseteq HoldersIn(p.role, World)
              /\ \A u \in p.done : Replaced(p, u, World)
          BY <3>1, <3>2 DEF SoundUpdateRole
        <5> QED BY <1>5, <3>4, <5>1, Worlds DEF HoldersIn
      <4>2. CASE x \in p.stale
        BY <2>1, <4>2
      <4>3. CASE fga[x] = Grant(role[p.role])
        <5>1. AgreesIn(x, World)
          BY <3>3, <3>4, <4>1, <4>3, Worlds, UserAgrees, Kinds
        <5> QED BY <2>2, <3>3, <4>1, <5>1
      <4> QED BY <4>1, <4>2, <4>3, Worlds DEF Replaced
    <3>5. CASE x = Team
      <4>1. Kept(Team, World) /\ Team \notin p.done
        BY <1>5, <3>1, <3>2, <3>5, Kinds DEF SoundUpdateRole
      <4>2. x \notin User
        BY <3>5, Kinds
      <4> QED BY <2>1, <2>2, <3>1, <3>5, <4>1, <4>2, Worlds DEF Kept
    <3> QED BY <1>5, <3>3, <3>4, <3>5, KindsApart DEF Subject
  <2>5. CASE p.op = "deleteRole"
    <3>1. p.pc = "invalidate" /\ healed = {}
      BY <1>h, <2>5 DEF StepsFit, Healed
    <3>2. SoundDeleteRole(p, World)
      BY <1>h, <1>5, <2>5 DEF Sound
    <3>3. IF x \in User THEN drift[x] # {} ELSE Kept(x, World)
      BY <1>5, <3>1, <3>2, Worlds DEF SoundDeleteRole
    <3> QED BY <2>1, <2>2, <3>1, <3>3, Worlds DEF Kept
  <2>6. CASE p.op \in {"invite", "reconcile", "readRole"}
    BY <1>h, <1>5, <2>6 DEF TouchFits
  <2> QED BY <1>4, <2>3, <2>4, <2>5, <2>6
<1> HIDE DEF healed
<1> QED BY <1>1, <1>3, <1>5, EndDrift

-----------------------------------------------------------------------------
(* Steps at which a call takes hold of more.                               *)

LEMMA ClaimDrift ==
  ASSUME Inv, Inv', DriftInv, NEW h \in Handler, NEW q \in Frame, proc' = Claimed(h, q), mail' = mail,
         q.op = proc[h].op \/ World' = World,
         proc[h].touch \subseteq q.touch, Shape(q, mail),
         q.op = "updateRole" /\ q.pc = "start" => HoldersIn(q.role, World') \subseteq q.touch,
         ~(q.op = "clearTeamRole" /\ q.pc = "update"),
         Elsewhere(proc[h], q.touch, World, World'), Outside(q.touch, proc, World, World'),
         Untouched(World'),
         ~q.over => Sound(q, World'),
         \A x \in q.touch \cap Thing : Left(x, proc, proc[h], q, World, World')
  PROVE  DriftInv'
<1> DEFINE r == proc'[h]
           b == q.over \/ \E k \in Handler \ {h} : proc[k].touch \cap q.touch # {}
<1>1. r = [q EXCEPT !.over = b]
  BY DEF Claimed
<1>2. Same(q, r)
  <2>1. /\ r.op = q.op /\ r.pc = q.pc /\ r.user = q.user /\ r.role = q.role /\ r.todo = q.todo
        /\ r.done = q.done /\ r.got = q.got /\ r.look = q.look /\ r.touch = q.touch /\ r.stale = q.stale
        /\ r.dirty = q.dirty /\ r.lost = q.lost /\ r.over = b
    BY <1>1 DEF Frame
  <2>2. (q.over => b) /\ (q.touch = {} => b = q.over)
    <3>1. q.over \in BOOLEAN
      BY DEF Frame
    <3> QED BY <3>1
  <2> HIDE DEF r, b
  <2> QED BY <1>1, <2>1, <2>2 DEF Same
<1>3. ASSUME NEW k \in Handler \ {h}
      PROVE  /\ Same(proc[k], proc'[k])
             /\ proc[k].touch \cap q.touch # {} => proc'[k].over /\ r.over
  <2> DEFINE c == proc[k].over \/ proc[k].touch \cap q.touch # {}
  <2>1. proc[k] \in Frame
    BY Here
  <2>2. proc'[k] = [proc[k] EXCEPT !.over = c]
    BY <1>3 DEF Claimed
  <2>3. /\ proc'[k].op = proc[k].op /\ proc'[k].pc = proc[k].pc /\ proc'[k].user = proc[k].user
        /\ proc'[k].role = proc[k].role /\ proc'[k].todo = proc[k].todo /\ proc'[k].done = proc[k].done
        /\ proc'[k].got = proc[k].got /\ proc'[k].look = proc[k].look /\ proc'[k].touch = proc[k].touch
        /\ proc'[k].stale = proc[k].stale /\ proc'[k].dirty = proc[k].dirty
        /\ proc'[k].lost = proc[k].lost /\ proc'[k].over = c
    BY <2>1, <2>2 DEF Frame
  <2>4. proc[k].touch = {} => c = proc[k].over
    <3>1. proc[k].over \in BOOLEAN
      BY <2>1 DEF Frame
    <3> QED BY <3>1
  <2>5. proc[k].over => c
    OBVIOUS
  <2>6. proc[k].touch \cap q.touch # {} => c /\ r.over
    <3>1. r.over = b
      BY <1>1 DEF Frame
    <3> QED BY <3>1
  <2> HIDE DEF c, r
  <2> QED BY <2>2, <2>3, <2>4, <2>5, <2>6 DEF Same
<1>4. Drift(proc, World)
  BY DriftInvIs
<1>5. r.touch = q.touch /\ r.op = q.op /\ r.pc = q.pc /\ r.role = q.role /\ r.dirty = q.dirty
      /\ (q.over => r.over)
  BY <1>2 DEF Same
<1> HIDE DEF r, b
<1>6. Apart(proc')
  <2>1. ASSUME NEW k \in Handler \ {h}
        PROVE  proc'[k].touch \cap r.touch = {} \/ (proc'[k].over /\ r.over)
    <3>1. Same(proc[k], proc'[k]) /\ (proc[k].touch \cap q.touch # {} => proc'[k].over /\ r.over)
      BY <1>3
    <3>2. proc'[k].touch = proc[k].touch
      BY <3>1 DEF Same
    <3> QED BY <1>5, <3>1, <3>2
  <2>2. ASSUME NEW g \in Handler \ {h}, NEW k \in Handler \ {h}, g # k
        PROVE  \/ proc'[g].touch \cap proc'[k].touch = {}
               \/ proc'[g].over /\ proc'[k].over
               \/ Excepted(proc'[g], proc'[k]) \/ Excepted(proc'[k], proc'[g])
    <3>1. Same(proc[g], proc'[g]) /\ Same(proc[k], proc'[k])
      BY <1>3
    <3>2. /\ proc'[g].touch = proc[g].touch /\ proc'[g].op = proc[g].op /\ (proc[g].over => proc'[g].over)
          /\ proc'[k].touch = proc[k].touch /\ proc'[k].op = proc[k].op /\ (proc[k].over => proc'[k].over)
      BY <3>1 DEF Same
    <3>3. \/ proc[g].touch \cap proc[k].touch = {}
          \/ proc[g].over /\ proc[k].over
          \/ Excepted(proc[g], proc[k]) \/ Excepted(proc[k], proc[g])
      BY <1>4, <2>2 DEF Drift, Apart
    <3> QED BY <3>2, <3>3 DEF Excepted
  <2> QED BY <2>1, <2>2 DEF Apart, r
<1>7. Shape(r, World'.mail)
  BY <1>2, Worlds, SameShape
<1>8. ~r.over => Sound(r, World')
  BY <1>2, <1>5, SameSound
<1>9. proc[h].touch \cup r.touch = q.touch
  BY <1>5
<1>10. \A x \in q.touch \cap Thing : Left(x, proc, proc[h], r, World, World')
  <2>1. SUFFICES ASSUME NEW x \in q.touch \cap Thing, Left(x, proc, proc[h], q, World, World')
                 PROVE  Left(x, proc, proc[h], r, World, World')
    OBVIOUS
  <2> QED BY <1>5, <2>1 DEF Left
<1>11. Moves(proc, proc', h, World, World')
  <2>1. \A k \in Handler \ {h} : Same(proc[k], proc'[k])
    BY <1>3
  <2>2. /\ Elsewhere(proc[h], proc[h].touch \cup r.touch, World, World')
        /\ Outside(proc[h].touch \cup r.touch, proc, World, World')
        /\ \A x \in (proc[h].touch \cup r.touch) \cap Thing : Left(x, proc, proc[h], r, World, World')
    BY <1>9, <1>10
  <2>3. /\ r.op = proc[h].op \/ r.touch = {} \/ World' = World
        /\ r.op = "updateRole" /\ r.pc = "start" => HoldersIn(r.role, World') \subseteq r.touch
        /\ ~(r.op = "clearTeamRole" /\ r.pc = "update")
    BY <1>5
  <2>4. World'.mail = World.mail
    BY Worlds
  <2> QED BY <1>6, <1>7, <1>8, <2>1, <2>2, <2>3, <2>4 DEF Moves, r
<1>12. \A k \in Handler : Fits(proc[k])
  BY DEF Inv, FramesFit
<1> QED BY <1>4, <1>11, <1>12, InTeams, MovesDrift, DriftInvIs

\* A call takes hold of what it has not touched yet.
LEMMA HoldDrift ==
  ASSUME Inv, Inv', DriftInv, NEW h \in Handler, NEW q \in Frame, proc' = Claimed(h, q),
         UNCHANGED <<role, users, mail, team, roster, fga, members, drift>>,
         proc[h].touch \subseteq q.touch, q.dirty = proc[h].dirty, Shape(q, mail),
         q.op = "updateRole" /\ q.pc = "start" => HoldersIn(q.role, World) \subseteq q.touch,
         ~(q.op = "clearTeamRole" /\ q.pc = "update"),
         ~q.over => Sound(q, World)
  PROVE  DriftInv'
<1>1. World' = World
  BY WorldSame
<1>2. Elsewhere(proc[h], q.touch, World, World') /\ Outside(q.touch, proc, World, World')
  BY ElsewhereHolds
<1>3. Untouched(World) /\ AllKept(proc, World)
  BY DriftInvIs DEF Drift
<1>4. \A x \in q.touch \cap Thing : Left(x, proc, proc[h], q, World, World')
  BY <1>1, <1>3 DEF Left, AllKept
<1>5. /\ Untouched(World') /\ (~q.over => Sound(q, World'))
      /\ q.op = "updateRole" /\ q.pc = "start" => HoldersIn(q.role, World') \subseteq q.touch
  BY <1>1, <1>3
<1> QED BY <1>1, <1>2, <1>4, <1>5, ClaimDrift

LEMMA ListHoldersDrift ==
  ASSUME Inv, Inv', DriftInv, NEW h \in Handler, ListHolders(h)
  PROVE  DriftInv'
<1> DEFINE p == proc[h]
           hs == Holders(p.role)
           q == [p EXCEPT !.pc = "next", !.todo = hs, !.touch = @ \cup hs]
<1>h. /\ p \in Frame /\ NamesFit(p) /\ TouchFits(p) /\ DirtyFits(p) /\ StepsFit(p) /\ NamesKnown(p, mail)
      /\ (~p.over => Sound(p, World))
  BY Here
<1>1. UNCHANGED <<role, users, mail, team, roster, fga, members, drift>> /\ p.pc = "list"
      /\ proc' = Claimed(h, q)
  BY DEF ListHolders, rows, tuples, At
<1>2. p.op = "updateRole" /\ p.role \in Role
  BY <1>h, <1>1 DEF NamesFit
<1>3. hs \subseteq User /\ hs = HoldersIn(p.role, World) /\ \A u \in hs : mail[u] # Nothing
  BY <1>2, Worlds, OrgMembersAssumption DEF Holders, HoldersIn, Inv, OneMember, IsMember
<1>4. q \in Frame
  <2>1. p.touch \cup hs \in SUBSET (Thing \cup Role) /\ hs \in SUBSET (User \cup Email)
    BY <1>h, <1>3, Kinds DEF Frame
  <2> HIDE DEF hs
  <2> QED BY <1>h, <2>1 DEF Frame, Label
<1>5. /\ q.pc = "next" /\ q.op = p.op /\ q.user = p.user /\ q.role = p.role /\ q.todo = hs
      /\ q.done = p.done /\ q.touch = p.touch \cup hs /\ q.stale = p.stale /\ q.over = p.over
      /\ q.dirty = p.dirty
  BY <1>h DEF Frame
<1> HIDE DEF p, q, hs
<1>6. TouchFits(q) /\ DirtyFits(q) /\ StepsFit(q)
  BY <1>h, <1>2, <1>3, <1>5 DEF TouchFits, DirtyFits, StepsFit, Resyncing, Subject
<1>7. NamesKnown(q, mail)
  BY <1>h, <1>2, <1>3, <1>5, Kinds DEF NamesKnown
<1>8. ASSUME ~q.over
      PROVE  Sound(q, World)
  <2>1. SoundUpdateRole(p, World) /\ p.done = {}
    BY <1>h, <1>1, <1>2, <1>5, <1>8 DEF Sound, StepsFit
  <2>2. q.touch \cap User \subseteq HoldersIn(q.role, World) /\ q.touch \cap User \subseteq q.todo
    BY <1>3, <1>5, <2>1 DEF SoundUpdateRole
  <2>3. Team \in q.touch => Kept(Team, World)
    BY <1>1, <1>3, <1>5, <2>1, Kinds DEF SoundUpdateRole
  <2>4. SoundUpdateRole(q, World)
    BY <1>5, <2>1, <2>2, <2>3 DEF SoundUpdateRole, Resyncing
  <2> QED BY <1>2, <1>5, <2>4 DEF Sound
<1>9. proc[h].touch \subseteq q.touch /\ q.dirty = proc[h].dirty
  BY <1>5 DEF p
<1> QED BY <1>1, <1>2, <1>4, <1>5, <1>6, <1>7, <1>8, <1>9, HoldDrift DEF Shape

LEMMA DeleteRoleDrift ==
  ASSUME Inv, Inv', DriftInv, NEW h \in Handler, DeleteRole(h)
  PROVE  DriftInv'
<1> DEFINE p == proc[h]
           r == p.role
           gone == Holders(r)
           ls == {Link(u) : u \in gone}
           q == [p EXCEPT !.pc = "invalidate", !.dirty = TRUE, !.touch = @ \cup gone \cup ls]
           T == q.touch
           c == [x \in Thing |-> IF x \in gone \cup TeamIfHolding(r) THEN drift[x] \cup {"cascade"} ELSE drift[x]]
<1>h. /\ p \in Frame /\ NamesFit(p) /\ TouchFits(p) /\ DirtyFits(p) /\ StepsFit(p) /\ NamesKnown(p, mail)
      /\ (~p.over => Sound(p, World)) /\ p.touch \subseteq Thing \cup Role
  BY Here
<1>1. /\ UNCHANGED <<mail, fga, members>> /\ p.op = "deleteRole" /\ p.pc = "start"
      /\ role' = [role EXCEPT ![r] = Absent]
      /\ users' = [u \in User |-> IF u \in gone THEN Absent ELSE users[u]]
      /\ roster' = roster \ gone
      /\ team' = (IF team.role = r THEN [team EXCEPT !.role = NoRole] ELSE team)
      /\ drift' = Orphaned(c, gone)
      /\ proc' = Claimed(h, q)
  BY DEF DeleteRole, tuples, Doing, At
<1>2. r \in Role /\ r \in p.touch /\ ~p.dirty /\ p.touch \subseteq {r} \cup Thing
  BY <1>h, <1>1 DEF NamesFit, TouchFits, DirtyFits
<1>3. gone \subseteq User /\ gone = HoldersIn(r, World) /\ \A u \in gone : mail[u] # Nothing
  BY <1>2, Worlds, OrgMembersAssumption DEF Holders, HoldersIn, Inv, OneMember, IsMember
<1>4. ls \subseteq Links /\ ls \subseteq Thing
  BY <1>3, Kinds
<1>5. q \in Frame
  <2>1. p.touch \cup gone \cup ls \in SUBSET (Thing \cup Role)
    BY <1>h, <1>3, <1>4, Kinds
  <2> HIDE DEF ls, gone
  <2> QED BY <1>h, <2>1 DEF Frame, Label
<1>6. /\ q.pc = "invalidate" /\ q.op = p.op /\ q.role = r /\ T = p.touch \cup gone \cup ls
      /\ q.over = p.over /\ q.dirty
  BY <1>h DEF Frame
<1>7. /\ \A x \in Thing : drift[x] \subseteq drift'[x]
      /\ \A x \in gone : drift'[x] # {}
      /\ team.role = r => drift'[Team] # {}
      /\ \A u \in gone : u \in members => drift'[Link(u)] # {}
      /\ \A x \in Thing : x \notin gone /\ x \notin ls /\ ~(x = Team /\ team.role = r) => drift'[x] = drift[x]
  <2>1. \A x \in Thing : drift'[x] = IF \E u \in gone \cap members : x = Link(u) THEN c[x] \cup {"orphan"} ELSE c[x]
    <3> HIDE DEF c, gone
    <3> QED BY <1>1 DEF Orphaned
  <2>2. \A x \in Thing : c[x] = IF x \in gone \/ (x = Team /\ team.role = r) THEN drift[x] \cup {"cascade"}
                                ELSE drift[x]
    BY DEF TeamIfHolding
  <2> HIDE DEF c
  <2>3. \A x \in Thing : drift[x] \subseteq c[x] /\ c[x] \subseteq drift'[x]
    BY <2>1, <2>2
  <2>4. (\A x \in gone : "cascade" \in c[x]) /\ (team.role = r => "cascade" \in c[Team])
    <3>1. gone \subseteq Thing /\ Team \in Thing
      BY <1>3, Kinds
    <3> HIDE DEF gone
    <3> QED BY <2>2, <3>1
  <2>5. (\A x \in gone : drift'[x] # {}) /\ (team.role = r => drift'[Team] # {})
    BY <1>3, <2>3, <2>4, Kinds
  <2>6. \A u \in gone : u \in members => drift'[Link(u)] # {}
    <3>1. \A u \in gone : Link(u) \in Thing
      BY <1>3, Kinds
    <3>2. \A u \in gone : u \in members => "orphan" \in drift'[Link(u)]
      <4> HIDE DEF gone
      <4> QED BY <2>1, <3>1
    <3> QED BY <3>2
  <2>7. \A x \in Thing : x \notin gone /\ x \notin ls /\ ~(x = Team /\ team.role = r) => drift'[x] = drift[x]
    BY <2>1, <2>2
  <2> QED BY <2>3, <2>5, <2>6, <2>7
<1>8. (\A a \in Role \ {r} : role'[a] = role[a]) /\ \A u \in User \ gone : users'[u] = users[u]
  BY <1>1 DEF Inv, TablesTyped
<1>9. Kept(Team, World) => Kept(Team, World')
  <2>1. CASE team.role = r
    BY <1>7, <2>1, Worlds DEF Kept
  <2>2. CASE team.role # r
    <3>1. team.role \in Role \cup {NoRole}
      BY DEF Inv, TablesTyped
    <3>2. team.role = NoRole \/ role'[team.role] = role[team.role]
      BY <1>8, <2>2, <3>1
    <3>3. drift[Team] # {} => drift'[Team] # {}
      BY <1>7, Kinds
    <3>4. fga' = fga /\ team' = team
      BY <1>1, <2>2
    <3>5. AgreesIn(Team, World) => AgreesIn(Team, World')
      BY <3>2, <3>4, Worlds, TeamAgrees
    <3> QED BY <3>3, <3>5, Worlds DEF Kept
  <2> QED BY <2>1, <2>2
<1>10. Elsewhere(p, T, World, World')
  <2>1. \A u \in User \ T : users'[u] = users[u]
    BY <1>6, <1>8
  <2>2. \A u \in User : Link(u) \notin T => (u \in roster' <=> u \in roster)
    BY <1>1, <1>6
  <2>3. drift[Team] # {} => drift'[Team] # {}
    BY <1>7, Kinds
  <2>4. \A a \in Role \ T : role'[a] = role[a]
    BY <1>2, <1>6, <1>8
  <2>5. \A x \in Thing \ (T \cup {Team}) : drift'[x] = drift[x]
    BY <1>6, <1>7
  <2>6. ~team.live => ~team'.live
    <3>1. team \in [live : BOOLEAN, role : Role \cup {NoRole}]
      BY DEF Inv, TablesTyped
    <3> QED BY <1>1, <3>1
  <2>7. p.op \notin {"accept", "deleteTeam"} /\ fga' = fga /\ members' = members
    BY <1>1
  <2> HIDE DEF p, T
  <2> QED BY <1>9, <2>1, <2>2, <2>3, <2>4, <2>5, <2>6, <2>7, Worlds DEF Elsewhere
<1>11. Outside(T, proc, World, World')
  <2> SUFFICES ASSUME NEW u \in User \ T, Kept(u, World)
               PROVE  Kept(u, World')
    BY DEF Outside
  <2>1. u \notin gone
    BY <1>6
  <2>2. users[u] # Absent => World'.role[World.users[u]] = World.role[World.users[u]]
    <3>1. users[u] \in Role \cup {Absent} /\ users[u] # r
      BY <2>1 DEF Inv, TablesTyped, Holders
    <3> QED BY <1>8, <3>1, Worlds
  <2> HIDE DEF p, T
  <2> QED BY <1>10, <2>2, UserKept, Worlds
<1>12. Untouched(World')
  <2>1. Untouched(World)
    BY DriftInvIs DEF Drift
  <2> QED BY <1>1, <2>1, Worlds DEF Untouched
<1>13. \A u \in gone : Kept(Link(u), World')
  <2> SUFFICES ASSUME NEW u \in gone PROVE Kept(Link(u), World')
    OBVIOUS
  <2>1. u \in User /\ u \notin roster'
    BY <1>1, <1>3
  <2>2. CASE u \in members
    BY <1>7, <2>2, Worlds DEF Kept
  <2>3. CASE u \notin members
    BY <1>1, <2>1, <2>3, Worlds, LinkAgrees DEF Kept
  <2> QED BY <2>2, <2>3
<1>14. ASSUME ~q.over
       PROVE  SoundDeleteRole(q, World')
  <2>1. p.touch \cap User \subseteq gone
    BY <1>h, <1>1, <1>3, <1>6, <1>14 DEF Sound, SoundDeleteRole
  <2>2. ASSUME NEW x \in T \cap Thing
        PROVE  IF x \in User THEN drift'[x] # {} ELSE Kept(x, World')
    <3>1. CASE x \in User
      <4>1. x \in gone
        BY <1>4, <1>6, <2>1, <2>2, <3>1, Kinds
      <4> QED BY <1>7, <3>1, <4>1
    <3>2. CASE x = Team
      <4>1. x \in p.touch
        BY <1>3, <1>4, <1>6, <2>2, <3>2, Kinds
      <4>2. Kept(Team, World)
        BY <1>1, <1>2, <1>6, <1>14, <3>2, <4>1, LoneKept, Kinds
      <4> QED BY <1>9, <3>2, <4>2, Kinds
    <3>3. CASE x \in Links
      <4>1. PICK u \in User : x = Link(u)
        BY <3>3 DEF Links
      <4>2. CASE u \in gone
        BY <1>13, <4>1, <4>2, Kinds
      <4>3. CASE u \notin gone
        <5>1. x \notin ls /\ x \notin gone /\ x # Team /\ x \in Thing /\ x \notin User
          BY <1>3, <4>1, <4>3, Kinds
        <5>2. x \in p.touch
          BY <1>6, <2>2, <5>1
        <5>3. Kept(x, World)
          BY <1>1, <1>2, <1>6, <1>14, <5>1, <5>2, LoneKept
        <5>4. drift'[x] = drift[x]
          BY <1>7, <5>1
        <5>5. (u \in roster' <=> u \in roster) /\ members' = members
          BY <1>1, <4>3
        <5>6. AgreesIn(x, World) <=> AgreesIn(x, World')
          BY <4>1, <5>5, Worlds, LinkAgrees
        <5> QED BY <5>1, <5>3, <5>4, <5>6, Worlds DEF Kept
      <4> QED BY <4>2, <4>3
    <3> QED BY <2>2, <3>1, <3>2, <3>3, Kinds
  <2> HIDE DEF q, T
  <2> QED BY <1>6, <2>2, Worlds DEF SoundDeleteRole, T
<1> HIDE DEF p, gone, ls, q, T
<1>15. TouchFits(q) /\ DirtyFits(q) /\ StepsFit(q)
  BY <1>1, <1>2, <1>3, <1>4, <1>6, Kinds DEF TouchFits, DirtyFits, StepsFit, T
<1>16. NamesKnown(q, mail)
  <2>1. \A u \in User : Link(u) \in ls => u \in gone
    BY <1>3, Kinds DEF ls
  <2>2. \A u \in User : u \notin ls
    BY <1>4, Kinds
  <2>3. \A u \in User : Link(u) \notin gone
    BY <1>3, Kinds
  <2> QED BY <1>h, <1>1, <1>3, <1>6, <2>1, <2>2, <2>3 DEF NamesKnown, T
<1>17. ~q.over => Sound(q, World')
  BY <1>1, <1>6, <1>14 DEF Sound
<1>18. \A x \in T \cap Thing : Left(x, proc, p, q, World, World')
  BY <1>6 DEF Left, T
<1>19. p.touch \subseteq T
  BY <1>6
<1> QED BY <1>1, <1>5, <1>6, <1>10, <1>11, <1>12, <1>15, <1>16, <1>17, <1>18, <1>19, ClaimDrift DEF Shape, p, T

\* A call at its first step.
Opens(p) ==
  /\ p \in Frame /\ ~p.over /\ ~p.dirty /\ p.done = {} /\ (p.op = "updateRole" => p.todo = {})
  /\ \/ p.op \in {"deleteUser", "removeMember"} /\ p.pc = "guard"
     \/ p.op \in {"setUserRole", "setTeamRole", "clearTeamRole"} /\ p.pc = "fgaRead"
     \/ p.op \in {"addMember", "deleteTeam", "updateRole", "deleteRole"} /\ p.pc = "start"
     \/ p.op = "readRole" /\ p.pc = "role"
     \/ p.op = "invite" /\ p.pc = "count"
     \/ p.op = "accept" /\ p.pc = "lookup"
     \/ p.op = "reconcile" /\ p.pc = "match"
  /\ p.op \in {"deleteUser", "removeMember", "setUserRole", "addMember"} => p.user \in User /\ IsMember(p.user)
  /\ p.op \in {"setUserRole", "setTeamRole", "updateRole", "deleteRole", "accept"} => p.role \in Role

LEMMA OpensOnUser ==
  ASSUME NEW h \in Handler, BeginOnUser(h)
  PROVE  \E p : Opens(p) /\ Enter(h, p)
<1>1. PICK u \in User :
        /\ IsMember(u)
        /\ \/ Enter(h, [Call("deleteUser", "guard") EXCEPT !.user = u])
           \/ \E r \in Role : Enter(h, [Call("setUserRole", "fgaRead") EXCEPT !.user = u, !.role = r])
           \/ \E c \in {Call("addMember", "start"), Call("removeMember", "guard")} :
                Enter(h, [c EXCEPT !.user = u])
  BY DEF BeginOnUser
<1>2. ASSUME NEW op \in {"deleteUser", "addMember", "removeMember"}, NEW label \in {"guard", "start"},
             label = "start" <=> op = "addMember", Enter(h, [Call(op, label) EXCEPT !.user = u])
      PROVE  \E p : Opens(p) /\ Enter(h, p)
  <2> DEFINE c == Call(op, label)
             p == [c EXCEPT !.user = u]
  <2>1. /\ c \in Frame /\ c.op = op /\ c.pc = label /\ c.done = {} /\ c.todo = {}
        /\ c.over = FALSE /\ c.dirty = FALSE
    <3>1. c \in Frame
      BY <1>2, CallFits DEF Op, Label
    <3> QED BY <3>1 DEF Call, NoCall
  <2>2. Enter(h, p)
    BY <1>2
  <2> HIDE DEF c
  <2>3. /\ p \in Frame /\ p.op = op /\ p.pc = label /\ p.done = {} /\ p.over = FALSE /\ p.dirty = FALSE
        /\ p.user = u
    BY <2>1 DEF Frame
  <2> HIDE DEF p
  <2>4. Opens(p)
    BY <1>1, <1>2, <2>3 DEF Opens
  <2> QED BY <2>2, <2>4
<1>3. ASSUME NEW r \in Role, Enter(h, [Call("setUserRole", "fgaRead") EXCEPT !.user = u, !.role = r])
      PROVE  \E p : Opens(p) /\ Enter(h, p)
  <2> DEFINE c == Call("setUserRole", "fgaRead")
             p == [c EXCEPT !.user = u, !.role = r]
  <2>1. /\ c \in Frame /\ c.op = "setUserRole" /\ c.pc = "fgaRead" /\ c.done = {} /\ c.todo = {}
        /\ c.over = FALSE /\ c.dirty = FALSE
    <3>1. c \in Frame
      BY CallFits DEF Op, Label
    <3> QED BY <3>1 DEF Call, NoCall
  <2>2. Enter(h, p)
    BY <1>3
  <2> HIDE DEF c
  <2>3. /\ p \in Frame /\ p.op = "setUserRole" /\ p.pc = "fgaRead" /\ p.done = {}
        /\ p.over = FALSE /\ p.dirty = FALSE /\ p.user = u /\ p.role = r
    BY <1>3, <2>1 DEF Frame
  <2> HIDE DEF p
  <2>4. Opens(p)
    BY <1>1, <1>3, <2>3 DEF Opens
  <2> QED BY <2>2, <2>4
<1> QED BY <1>1, <1>2, <1>3

LEMMA OpensOnTeam ==
  ASSUME TablesTyped, NEW h \in Handler, BeginOnTeam(h)
  PROVE  \E p : Opens(p) /\ Enter(h, p)
<1>1. CASE \E r \in Role : Enter(h, [Call("setTeamRole", "fgaRead") EXCEPT !.role = r])
  <2>0. PICK r \in Role : Enter(h, [Call("setTeamRole", "fgaRead") EXCEPT !.role = r])
    BY <1>1
  <2> DEFINE c == Call("setTeamRole", "fgaRead")
             p == [c EXCEPT !.role = r]
  <2>1. /\ c \in Frame /\ c.op = "setTeamRole" /\ c.pc = "fgaRead" /\ c.done = {}
        /\ c.over = FALSE /\ c.dirty = FALSE
    <3>1. c \in Frame
      BY CallFits DEF Op, Label
    <3> QED BY <3>1 DEF Call, NoCall
  <2>2. Enter(h, p)
    BY <2>0
  <2> HIDE DEF c
  <2>3. /\ p \in Frame /\ p.op = "setTeamRole" /\ p.pc = "fgaRead" /\ p.done = {} /\ p.over = FALSE
        /\ p.dirty = FALSE /\ p.role = r
    BY <2>0, <2>1 DEF Frame
  <2> HIDE DEF p
  <2>4. Opens(p)
    BY <2>0, <2>3 DEF Opens
  <2> QED BY <2>2, <2>4
<1>2. CASE Enter(h, Call("clearTeamRole", "fgaRead"))
  <2> DEFINE p == Call("clearTeamRole", "fgaRead")
  <2>1. /\ p \in Frame /\ p.op = "clearTeamRole" /\ p.pc = "fgaRead" /\ p.done = {}
        /\ p.over = FALSE /\ p.dirty = FALSE
    <3>1. p \in Frame
      BY CallFits DEF Op, Label
    <3> QED BY <3>1 DEF Call, NoCall
  <2> HIDE DEF p
  <2>2. Opens(p)
    BY <2>1 DEF Opens
  <2> QED BY <1>2, <2>2 DEF p
<1>3. CASE Enter(h, [Call("deleteTeam", "start") EXCEPT !.todo = roster])
  <2> DEFINE c == Call("deleteTeam", "start")
             p == [c EXCEPT !.todo = roster]
  <2>1. /\ c \in Frame /\ c.op = "deleteTeam" /\ c.pc = "start" /\ c.done = {}
        /\ c.over = FALSE /\ c.dirty = FALSE
    <3>1. c \in Frame
      BY CallFits DEF Op, Label
    <3> QED BY <3>1 DEF Call, NoCall
  <2>2. Enter(h, p) /\ roster \in SUBSET (User \cup Email)
    BY <1>3 DEF TablesTyped
  <2> HIDE DEF c
  <2>3. /\ p \in Frame /\ p.op = "deleteTeam" /\ p.pc = "start" /\ p.done = {} /\ p.over = FALSE
        /\ p.dirty = FALSE
    BY <2>1, <2>2 DEF Frame
  <2> HIDE DEF p
  <2>4. Opens(p)
    BY <2>3 DEF Opens
  <2> QED BY <2>2, <2>4
<1> QED BY <1>1, <1>2, <1>3 DEF BeginOnTeam

LEMMA OpensOnRole ==
  ASSUME NEW h \in Handler, BeginOnRole(h)
  PROVE  \E p : Opens(p) /\ Enter(h, p)
<1>1. PICK r \in Role :
        \/ \E f \in {{}, {"admin"}} : Enter(h, [Call("updateRole", "start") EXCEPT !.role = r, !.flags = f])
        \/ Enter(h, [Call("deleteRole", "start") EXCEPT !.role = r])
        \/ Enter(h, [Call("readRole", "role") EXCEPT !.role = r])
  BY DEF BeginOnRole
<1>2. ASSUME NEW f \in {{}, {"admin"}}, Enter(h, [Call("updateRole", "start") EXCEPT !.role = r, !.flags = f])
      PROVE  \E p : Opens(p) /\ Enter(h, p)
  <2> DEFINE c == Call("updateRole", "start")
             p == [c EXCEPT !.role = r, !.flags = f]
  <2>1. /\ c \in Frame /\ c.op = "updateRole" /\ c.pc = "start" /\ c.done = {} /\ c.todo = {}
        /\ c.over = FALSE /\ c.dirty = FALSE
    <3>1. c \in Frame
      BY CallFits DEF Op, Label
    <3> QED BY <3>1 DEF Call, NoCall
  <2>2. Enter(h, p) /\ f \in SUBSET Flag
    BY <1>2 DEF Flag
  <2> HIDE DEF c
  <2>3. /\ p \in Frame /\ p.op = "updateRole" /\ p.pc = "start" /\ p.done = {} /\ p.todo = {}
        /\ p.over = FALSE /\ p.dirty = FALSE /\ p.role = r
    BY <2>1, <2>2 DEF Frame
  <2> HIDE DEF p
  <2>4. Opens(p)
    BY <2>3 DEF Opens
  <2> QED BY <2>2, <2>4
<1>3. ASSUME NEW op \in {"deleteRole", "readRole"}, NEW label \in {"start", "role"},
             label = "start" <=> op = "deleteRole", Enter(h, [Call(op, label) EXCEPT !.role = r])
      PROVE  \E p : Opens(p) /\ Enter(h, p)
  <2> DEFINE c == Call(op, label)
             p == [c EXCEPT !.role = r]
  <2>1. /\ c \in Frame /\ c.op = op /\ c.pc = label /\ c.done = {} /\ c.todo = {}
        /\ c.over = FALSE /\ c.dirty = FALSE
    <3>1. c \in Frame
      BY <1>3, CallFits DEF Op, Label
    <3> QED BY <3>1 DEF Call, NoCall
  <2>2. Enter(h, p)
    BY <1>3
  <2> HIDE DEF c
  <2>3. /\ p \in Frame /\ p.op = op /\ p.pc = label /\ p.done = {} /\ p.over = FALSE /\ p.dirty = FALSE
        /\ p.role = r
    BY <2>1 DEF Frame
  <2> HIDE DEF p
  <2>4. Opens(p)
    BY <1>3, <2>3 DEF Opens
  <2> QED BY <2>2, <2>4
<1> QED BY <1>1, <1>2, <1>3

LEMMA OpensOnInvite ==
  ASSUME Inv, NEW h \in Handler, BeginOnInvite(h)
  PROVE  \E p : Opens(p) /\ Enter(h, p)
<1>1. CASE \E e \in Email, r \in Role : Enter(h, [Call("invite", "count") EXCEPT !.email = e, !.role = r])
  <2>0. PICK e \in Email, r \in Role : Enter(h, [Call("invite", "count") EXCEPT !.email = e, !.role = r])
    BY <1>1
  <2> DEFINE c == Call("invite", "count")
             p == [c EXCEPT !.email = e, !.role = r]
  <2>1. /\ c \in Frame /\ c.op = "invite" /\ c.pc = "count" /\ c.done = {}
        /\ c.over = FALSE /\ c.dirty = FALSE
    <3>1. c \in Frame
      BY CallFits DEF Op, Label
    <3> QED BY <3>1 DEF Call, NoCall
  <2>2. Enter(h, p)
    BY <2>0
  <2> HIDE DEF c
  <2>3. /\ p \in Frame /\ p.op = "invite" /\ p.pc = "count" /\ p.done = {} /\ p.over = FALSE
        /\ p.dirty = FALSE
    BY <2>0, <2>1 DEF Frame
  <2> HIDE DEF p
  <2>4. Opens(p)
    BY <2>3 DEF Opens
  <2> QED BY <2>2, <2>4
<1>2. CASE \E e \in Pending : Enter(h, [Call("accept", "lookup") EXCEPT !.email = e, !.role = invites[e].role])
  <2>0. PICK e \in Pending : Enter(h, [Call("accept", "lookup") EXCEPT !.email = e, !.role = invites[e].role])
    BY <1>2
  <2> DEFINE r == invites[e].role
             c == Call("accept", "lookup")
             p == [c EXCEPT !.email = e, !.role = r]
  <2>1. /\ c \in Frame /\ c.op = "accept" /\ c.pc = "lookup" /\ c.done = {}
        /\ c.over = FALSE /\ c.dirty = FALSE
    <3>1. c \in Frame
      BY CallFits DEF Op, Label
    <3> QED BY <3>1 DEF Call, NoCall
  <2>2. Enter(h, p)
    BY <2>0
  <2>3. e \in Email /\ r \in Role
    <3>1. e \in Email /\ invites[e].status = "pending"
      BY <2>0 DEF Pending
    <3> QED BY <3>1 DEF Inv, RolesExist, NoInvite
  <2> HIDE DEF c, r
  <2>4. /\ p \in Frame /\ p.op = "accept" /\ p.pc = "lookup" /\ p.done = {} /\ p.over = FALSE
        /\ p.dirty = FALSE /\ p.role = r
    BY <2>1, <2>3 DEF Frame
  <2> HIDE DEF p
  <2>5. Opens(p)
    BY <2>3, <2>4 DEF Opens
  <2> QED BY <2>2, <2>5
<1>3. CASE Enter(h, [Call("reconcile", "match") EXCEPT !.todo = Pending])
  <2> DEFINE c == Call("reconcile", "match")
             p == [c EXCEPT !.todo = Pending]
  <2>1. /\ c \in Frame /\ c.op = "reconcile" /\ c.pc = "match" /\ c.done = {}
        /\ c.over = FALSE /\ c.dirty = FALSE
    <3>1. c \in Frame
      BY CallFits DEF Op, Label
    <3> QED BY <3>1 DEF Call, NoCall
  <2>2. Enter(h, p) /\ Pending \in SUBSET (User \cup Email)
    BY <1>3 DEF Pending
  <2> HIDE DEF c
  <2>3. /\ p \in Frame /\ p.op = "reconcile" /\ p.pc = "match" /\ p.done = {} /\ p.over = FALSE
        /\ p.dirty = FALSE
    BY <2>1, <2>2 DEF Frame
  <2> HIDE DEF p
  <2>4. Opens(p)
    BY <2>3 DEF Opens
  <2> QED BY <2>2, <2>4
<1> QED BY <1>1, <1>2, <1>3 DEF BeginOnInvite

\* What a call takes hold of at its beginning.
LEMMA TouchOpens ==
  ASSUME NEW p, Opens(p)
  PROVE  /\ p.op = "deleteUser" => Touch(p) = {p.user, Link(p.user)}
         /\ p.op \in {"addMember", "removeMember"} => Touch(p) = {Link(p.user)}
         /\ p.op = "setUserRole" => Touch(p) = {p.user, p.role}
         /\ p.op = "setTeamRole" => Touch(p) = {Team, p.role}
         /\ p.op = "clearTeamRole" => Touch(p) = {Team}
         /\ p.op = "deleteTeam" => Touch(p) = {Team} \cup Links
         /\ p.op = "updateRole" => Touch(p) = {p.role} \cup Holders(p.role) \cup TeamIfHolding(p.role)
         /\ p.op = "deleteRole" =>
              Touch(p) = {p.role} \cup Holders(p.role) \cup TeamIfHolding(p.role)
                         \cup {Link(v) : v \in Holders(p.role)}
         /\ p.op = "accept" => Touch(p) = {p.role}
         /\ p.op \in {"readRole", "invite", "reconcile"} => Touch(p) = {}
BY DEF Touch

LEMMA EnterDrift ==
  ASSUME Inv, Inv', DriftInv, NEW h \in Handler, NEW p, Opens(p), Enter(h, p)
  PROVE  DriftInv'
<1> DEFINE t == Touch(p)
           q == [p EXCEPT !.touch = t]
           hs == Holders(p.role)
           ls == {Link(v) : v \in hs}
<1>1. /\ UNCHANGED <<role, users, mail, team, roster, fga, members, drift>> /\ proc[h].pc = "idle"
      /\ proc' = Claimed(h, q)
  BY DEF Enter, rows, tuples, At
<1>2. proc[h] = NoCall
  BY <1>1, Here DEF StepsFit
<1>3. hs \subseteq User /\ hs \subseteq Thing /\ TeamIfHolding(p.role) \subseteq {Team}
  BY Kinds DEF Holders, TeamIfHolding
<1>4. \A u \in User : IsMember(u) => mail[u] # Nothing
  BY DEF Inv, OneMember
<1>5. p.role \in Role => hs = HoldersIn(p.role, World) /\ \A u \in hs : mail[u] # Nothing
  BY <1>4, Worlds, Kinds DEF Holders, HoldersIn, IsMember
<1>6. ls \subseteq Links /\ \A u \in User : Link(u) \in ls => u \in hs
  BY <1>3, Kinds
<1>7. TeamIfHolding(p.role) \subseteq {Team} /\ Team \in Thing
  BY <1>3, Kinds
<1>8. t \in SUBSET (Thing \cup Role)
  <2>1. p.op \in {"deleteUser", "removeMember", "setUserRole", "addMember"} =>
          p.user \in Thing /\ Link(p.user) \in Thing
    BY Kinds DEF Opens
  <2> HIDE DEF hs, ls
  <2> QED BY <1>3, <1>6, <1>7, <2>1, TouchOpens, Kinds DEF Opens, hs, ls
<1>9. p \in Frame
  BY DEF Opens
<1>10. q \in Frame
  <2> HIDE DEF t
  <2> QED BY <1>8, <1>9 DEF Frame
<1>11. /\ q.op = p.op /\ q.pc = p.pc /\ q.user = p.user /\ q.role = p.role /\ q.todo = p.todo
       /\ q.done = p.done /\ q.touch = t /\ q.over = p.over /\ q.dirty = p.dirty
  BY <1>9 DEF Frame
<1> HIDE DEF q
<1>12. TouchFits(q)
  <2>1. p.op = "updateRole" => t = {p.role} \cup hs \cup TeamIfHolding(p.role)
    BY TouchOpens
  <2>2. p.op = "deleteRole" => t = {p.role} \cup hs \cup TeamIfHolding(p.role) \cup ls
    BY TouchOpens
  <2>3. hs \cup TeamIfHolding(p.role) \subseteq Subject
    BY <1>3 DEF Subject
  <2>4. hs \cup TeamIfHolding(p.role) \cup ls \subseteq Thing
    BY <1>3, <1>6, <1>7, Kinds
  <2>5. p.op \in {"updateRole", "deleteRole"} => p.role \in t
    BY <2>1, <2>2
  <2>6. p.op = "updateRole" => t \subseteq {p.role} \cup Subject
    BY <2>1, <2>3
  <2>7. p.op = "deleteRole" => t \subseteq {p.role} \cup Thing
    BY <2>2, <2>4
  <2>8. p.op \notin {"updateRole", "deleteRole"} => TouchFits(q)
    <3> HIDE DEF t
    <3> QED BY <1>11, TouchOpens DEF TouchFits, Opens, t
  <2> HIDE DEF t, hs, ls
  <2>9. p.op = "updateRole" => p.todo = {} /\ p.pc \notin Resyncing
    BY DEF Opens, Resyncing
  <2> QED BY <1>11, <2>5, <2>6, <2>7, <2>8, <2>9 DEF TouchFits
<1>13. DirtyFits(q) /\ StepsFit(q)
  BY <1>11 DEF DirtyFits, StepsFit, Opens
<1>14. NamesKnown(q, mail)
  <2> SUFFICES ASSUME NEW u \in User, u \in t \/ (Link(u) \in t /\ p.op # "deleteTeam")
               PROVE  mail[u] # Nothing
    BY <1>11 DEF NamesKnown
  <2>1. CASE p.op \in {"deleteUser", "removeMember", "setUserRole", "addMember"}
    <3>1. p.user \in User /\ IsMember(p.user) /\ (p.op = "setUserRole" => p.role \in Role)
      BY <2>1 DEF Opens
    <3>2. u = p.user
      <4> HIDE DEF t
      <4> QED BY <2>1, <3>1, TouchOpens, Kinds DEF t
    <3> QED BY <1>4, <3>1, <3>2
  <2>2. CASE p.op \in {"updateRole", "deleteRole"}
    <3>1. p.role \in Role
      BY <2>2 DEF Opens
    <3>2. t \subseteq {p.role} \cup hs \cup {Team} \cup ls
      BY <1>3, <2>2, TouchOpens
    <3>3. u \in hs
      <4> HIDE DEF t, hs, ls
      <4> QED BY <1>3, <1>6, <3>1, <3>2, Kinds
    <3> QED BY <1>5, <3>1, <3>3
  <2>3. CASE p.op \in {"setTeamRole", "accept", "clearTeamRole", "deleteTeam"}
    <3>1. t \subseteq {Team, p.role} \cup Links /\ (p.op \in {"setTeamRole", "accept"} => p.role \in Role)
          /\ (p.op # "deleteTeam" => t \subseteq {Team, p.role})
          /\ (p.op \in {"clearTeamRole", "deleteTeam"} => t \subseteq {Team} \cup Links)
          /\ (p.op = "clearTeamRole" => t = {Team})
      BY <2>3, TouchOpens DEF Opens
    <3> HIDE DEF t
    <3> QED BY <2>3, <3>1, Kinds
  <2>4. CASE p.op \in {"readRole", "invite", "reconcile"}
    BY <2>4, TouchOpens
  <2> QED BY <2>1, <2>2, <2>3, <2>4 DEF Opens
<1>15. p.op \in {"updateRole", "deleteRole"} =>
         t \cap User = HoldersIn(p.role, World)
  <2> SUFFICES ASSUME p.op \in {"updateRole", "deleteRole"}
               PROVE  t \cap User = HoldersIn(p.role, World)
    OBVIOUS
  <2>1. p.role \in Role
    BY DEF Opens
  <2>2. {p.role} \cup hs \subseteq t /\ t \subseteq {p.role} \cup hs \cup {Team} \cup ls
    BY <1>3, TouchOpens
  <2> HIDE DEF t, hs, ls
  <2> QED BY <1>3, <1>5, <1>6, <2>1, <2>2, Kinds
<1>16. Sound(q, World)
  <2>1. CASE p.op \in {"updateRole", "deleteRole"}
    <3>1. p.pc = "start" /\ p.pc \notin Resyncing
      BY <2>1 DEF Opens, Resyncing
    <3>2. q.touch \cap User \subseteq HoldersIn(q.role, World)
      BY <1>11, <1>15, <2>1
    <3> HIDE DEF t
    <3> QED BY <1>11, <2>1, <3>1, <3>2 DEF Sound, SoundUpdateRole, SoundDeleteRole
  <2>2. CASE p.op = "setUserRole"
    <3>1. p.pc = "fgaRead" /\ users[p.user] # Absent
      BY <2>2 DEF Opens, IsMember
    <3> QED BY <1>11, <2>2, <3>1, Worlds DEF Sound, SoundSetUserRole, Replacing
  <2>3. CASE p.op \notin {"updateRole", "deleteRole", "setUserRole"}
    <3> HIDE DEF t
    <3> QED BY <1>11, <2>3 DEF Opens, Sound, SoundDeleteUser, SoundSetTeamRole, SoundClearTeamRole, SoundAccept,
                               SoundAddMember, SoundRemoveMember, SoundDeleteTeam, Replacing
  <2> QED BY <2>1, <2>2, <2>3
<1>17. q.op = "updateRole" => HoldersIn(q.role, World) \subseteq q.touch
  BY <1>11, <1>15
<1>18. ~(q.op = "clearTeamRole" /\ q.pc = "update") /\ ~q.dirty
  BY <1>11 DEF Opens
<1>19. proc[h].touch = {} /\ proc[h].dirty = FALSE
  BY <1>2, NoCallShape
<1>20. proc[h].touch \subseteq q.touch /\ q.dirty = proc[h].dirty
  <2>1. q.dirty \in BOOLEAN
    BY <1>10 DEF Frame
  <2> QED BY <1>18, <1>19, <2>1
<1>21. Shape(q, mail)
  BY <1>12, <1>13, <1>14 DEF Shape
<1> HIDE DEF t, q, hs, ls
<1> QED BY <1>1, <1>10, <1>16, <1>17, <1>18, <1>20, <1>21, HoldDrift

-----------------------------------------------------------------------------
(* A user is created.                                                      *)

LEMMA InsertUserDrift ==
  ASSUME Inv, Inv', DriftInv, NEW h \in Handler, InsertUser(h)
  PROVE  DriftInv'
<1> DEFINE p == proc[h]
<1>h. /\ p \in Frame /\ NamesFit(p) /\ TouchFits(p) /\ DirtyFits(p) /\ StepsFit(p)
  BY Here
<1>1. UNCHANGED <<role, team, roster, fga, members>> /\ p.op = "accept" /\ p.pc = "insert"
  BY DEF InsertUser, tuples, Doing, At
<1>2. p.role \in Role /\ p.email \in Email /\ ~p.dirty /\ p.touch = {p.role}
  BY <1>h, <1>1 DEF NamesFit, DirtyFits, TouchFits
<1>3. CASE Fail(h) /\ UNCHANGED <<users, mail>>
  BY <1>1, <1>3, FailDrift
<1>4. CASE \E u \in User :
             /\ mail[u] = Nothing
             /\ users' = [users EXCEPT ![u] = p.role]
             /\ mail' = [mail EXCEPT ![u] = p.email]
             /\ proc' = [proc EXCEPT ![h].user = u, ![h].touch = @ \cup {u, Link(u)},
                                     ![h].pc = "role", ![h].dirty = TRUE]
             /\ UNCHANGED drift
  <2>1. PICK u \in User :
          /\ mail[u] = Nothing
          /\ users' = [users EXCEPT ![u] = p.role]
          /\ mail' = [mail EXCEPT ![u] = p.email]
          /\ proc' = [proc EXCEPT ![h].user = u, ![h].touch = @ \cup {u, Link(u)},
                                  ![h].pc = "role", ![h].dirty = TRUE]
          /\ UNCHANGED drift
    BY <1>4
  <2> DEFINE q == proc'[h]
  <2>2. q = [p EXCEPT !.user = u, !.touch = @ \cup {u, Link(u)}, !.pc = "role", !.dirty = TRUE]
        /\ \A k \in Handler \ {h} : proc'[k] = proc[k]
    BY <2>1 DEF Inv, FramesFit
  <2>3. /\ q.op = p.op /\ q.pc = "role" /\ q.user = u /\ q.role = p.role /\ q.touch = {p.role, u, Link(u)}
        /\ q.stale = p.stale /\ q.over = p.over /\ q.dirty /\ q.lost = p.lost
    BY <1>h, <1>2, <2>2 DEF Frame
  <2>4. (\A v \in User : users'[v] = IF v = u THEN p.role ELSE users[v])
        /\ \A v \in User : mail'[v] = IF v = u THEN p.email ELSE mail[v]
    BY <2>1 DEF Inv, TablesTyped
  <2>5. Drift(proc, World) /\ p.email # Nothing
    BY <1>2, DriftInvIs, OrgMembersAssumption
  <2>6. users[u] = Absent /\ fga[u] = {} /\ u \notin roster /\ u \notin members
    BY <2>1, <2>5, Worlds DEF Drift, Untouched
  <2>7. u \notin Links /\ Link(u) \in Links /\ p.role \notin Links /\ p.role \notin User
        /\ u # Team /\ p.role # Team /\ p.role # Absent
    BY <1>2, Kinds
  <2> HIDE DEF p, q
  <2>8. ASSUME NEW k \in Handler \ {h}
        PROVE  Same(proc[k], proc'[k])
    BY <2>2, Here, SameSelf
  <2>9. ASSUME NEW k \in Handler \ {h}
        PROVE  \/ q.touch \cap proc'[k].touch = {}
               \/ q.over /\ proc'[k].over
               \/ Excepted(q, proc'[k])
    <3>1. proc'[k] = proc[k] /\ TouchFits(proc[k]) /\ NamesKnown(proc[k], mail)
      BY <2>2, Here
    <3>2. \/ p.touch \cap proc[k].touch = {}
          \/ p.over /\ proc[k].over
          \/ Excepted(p, proc[k]) \/ Excepted(proc[k], p)
      BY <2>5 DEF Drift, Apart, p
    <3>3. CASE proc[k].op = "deleteTeam"
      <4>1. proc[k].touch = {Team} \cup Links
        BY <3>1, <3>3 DEF TouchFits
      <4> QED BY <1>1, <2>3, <2>7, <3>1, <3>3, <4>1 DEF Excepted
    <3>4. CASE proc[k].op # "deleteTeam"
      <4>1. u \notin proc[k].touch /\ Link(u) \notin proc[k].touch
        BY <2>1, <3>1, <3>4 DEF NamesKnown
      <4>2. q.touch \cap proc[k].touch = p.touch \cap proc[k].touch
        BY <1>2, <2>3, <4>1
      <4> QED BY <1>1, <2>3, <3>1, <3>2, <3>4, <4>2 DEF Excepted
    <3> QED BY <3>3, <3>4
  <2>10. Apart(proc')
    <3>1. ASSUME NEW g \in Handler \ {h}, NEW k \in Handler \ {h}, g # k
          PROVE  \/ proc'[g].touch \cap proc'[k].touch = {}
                 \/ proc'[g].over /\ proc'[k].over
                 \/ Excepted(proc'[g], proc'[k]) \/ Excepted(proc'[k], proc'[g])
      BY <2>2, <2>5, <3>1 DEF Drift, Apart
    <3> QED BY <2>9, <3>1 DEF Apart, q
  <2>11. Elsewhere(p, q.touch, World, World') /\ Outside(q.touch, proc, World, World')
    <3>1. \A v \in User \ q.touch : users'[v] = users[v]
      BY <2>3, <2>4
    <3> QED BY <1>1, <2>1, <3>1, ElsewhereHolds
  <2>12. Shape(q, mail')
    <3>1. TouchFits(q) /\ DirtyFits(q) /\ StepsFit(q)
      BY <1>1, <2>3 DEF TouchFits, DirtyFits, StepsFit
    <3>2. \A v \in User : v \in q.touch \/ Link(v) \in q.touch => v = u
      BY <2>3, <2>7, Kinds
    <3>3. NamesKnown(q, mail')
      BY <2>4, <2>5, <3>2 DEF NamesKnown
    <3> QED BY <3>1, <3>3 DEF Shape
  <2>13. Untouched(World')
    <3>1. \A v \in User : mail'[v] = Nothing => mail[v] = Nothing /\ users'[v] = users[v]
      BY <2>4, <2>5
    <3> QED BY <1>1, <2>5, <3>1, Worlds DEF Drift, Untouched
  <2>14. Sound(q, World')
    <3>1. users'[u] = p.role /\ fga'[u] = {} /\ u \notin roster' /\ u \notin members'
      BY <1>1, <2>4, <2>6
    <3>2. SoundAccept(q, World')
      BY <2>3, <3>1, Worlds DEF SoundAccept, Replacing
    <3> QED BY <1>1, <2>3, <3>2 DEF Sound
  <2>15. \A v \in User : World.mail[v] # Nothing => World'.mail[v] # Nothing
    BY <2>4, <2>5, Worlds
  <2>16. Moves(proc, proc', h, World, World')
    <3>1. p.touch \cup q.touch = q.touch
      BY <1>2, <2>3
    <3>2. \A x \in q.touch \cap Thing : Left(x, proc, p, q, World, World')
      BY <2>3 DEF Left
    <3>3. q.op = p.op /\ ~(q.op = "updateRole" /\ q.pc = "start") /\ ~(q.op = "clearTeamRole" /\ q.pc = "update")
      BY <2>3
    <3>4. Shape(q, World'.mail)
      BY <2>12, Worlds
    <3> QED BY <2>8, <2>10, <2>11, <2>13, <2>14, <2>15, <3>1, <3>2, <3>3, <3>4 DEF Moves, p, q
  <2>17. \A k \in Handler : Fits(proc[k])
    BY DEF Inv, FramesFit
  <2> QED BY <2>5, <2>16, <2>17, InTeams, MovesDrift, DriftInvIs
<1> QED BY <1>1, <1>3, <1>4 DEF InsertUser

\* Steps that end a call, and steps of no call.
LEMMA EndingDrift ==
  ASSUME Inv, Inv', DriftInv, NEW h \in Handler,
         \/ InsertInvite(h) \/ MarkAccepted(h) \/ MarkMatched(h) \/ InvalidateRole(h) \/ Return(h)
         \/ Crash(h)
  PROVE  DriftInv'
<1>1. UNCHANGED <<role, users, mail, team, roster, fga, members>>
  BY DEF InsertInvite, MarkAccepted, MarkMatched, InvalidateRole, Return, Crash, rows, tuples
<1>2. CASE InsertInvite(h)
  <2>1. proc[h].op = "invite" /\ (Fail(h) \/ Succeed(h))
    BY <1>2 DEF InsertInvite, Doing
  <2> QED BY <1>1, <2>1, FailDrift, DoneDrift
<1>3. CASE MarkAccepted(h) \/ MarkMatched(h) \/ InvalidateRole(h) \/ Return(h)
  <2>1. proc[h].pc \in {"mark", "invalidate", "return"} /\ Succeed(h)
    BY <1>3 DEF MarkAccepted, MarkMatched, InvalidateRole, Return, Doing, At
  <2> QED BY <1>1, <2>1, DoneDrift
<1>4. CASE Crash(h)
  BY <1>1, <1>4, BreakDrift DEF Crash
<1> QED BY <1>2, <1>3, <1>4

LEMMA FailCallDrift ==
  ASSUME Inv, Inv', DriftInv, NEW h \in Handler, FailCall(h)
  PROVE  DriftInv'
<1> DEFINE p == proc[h]
<1>h. NamesFit(p) /\ GuardFits(p) /\ DirtyFits(p) /\ StepsFit(p) /\ (~p.over => Sound(p, World))
  BY Here
<1>1. UNCHANGED <<role, users, mail, team, roster, fga, members>>
  BY DEF FailCall, rows, tuples
<1>2. CASE /\ p.pc \in {"guard", "delete", "fgaRead", "fgaDelete", "role", "fgaWrite", "update", "link",
                        "unlink", "list", "links", "dropLinks", "count", "lookup", "insert", "match",
                        "start", "invalidate"}
           /\ Throw(h, Begun(h))
  <2>1. p.dirty /\ p.op = "accept" => p.pc \in {"role", "fill", "fgaWrite"}
    BY <1>h, <1>2 DEF NamesFit, GuardFits, DirtyFits, StepsFit
  <2>2. p.dirty /\ p.op = "addMember" => p.pc = "link"
    BY <1>h, <1>2 DEF NamesFit, GuardFits, DirtyFits, StepsFit
  <2>3. /\ Begun(h) \in BOOLEAN
        /\ ~Begun(h) /\ p.pc = "fgaWrite" => p.got = Grant(p.look)
    BY DEF Begun, At
  <2>4. ~p.over /\ p.dirty /\ p.op = "accept" => Begun(h) \/ fga[p.user] = {}
    <3>1. ~p.over /\ p.dirty /\ p.op = "accept" => Replacing(p, p.user, World)
      BY <1>h DEF Sound, SoundAccept
    <3> HIDE DEF p
    <3> QED BY <2>1, <2>3, <3>1, Worlds DEF Replacing
  <2>5. ~p.over /\ p.dirty /\ p.op = "addMember" => p.user \notin members \/ drift[Link(p.user)] # {}
    BY <1>h, <2>2, Worlds DEF Sound, SoundAddMember
  <2> DEFINE effect == Begun(h)
  <2>6. /\ effect \in BOOLEAN /\ Throw(h, effect)
        /\ ~p.over /\ p.dirty /\ p.op = "accept" => effect \/ fga[p.user] = {}
    BY <1>2, <2>3, <2>4
  <2> HIDE DEF effect
  <2> QED BY <1>1, <2>5, <2>6, ThrowDrift
<1>3. CASE p.pc \in {"mark", "invalidate"} /\ Succeed(h)
  BY <1>1, <1>3, DoneDrift
<1>4. CASE Fail(h)
  BY <1>1, <1>4, FailDrift
<1> QED BY <1>2, <1>3, <1>4 DEF FailCall, Doing, At

LEMMA BeginDrift ==
  ASSUME Inv, Inv', DriftInv, NEW h \in Handler,
         BeginOnUser(h) \/ BeginOnTeam(h) \/ BeginOnRole(h) \/ BeginOnInvite(h)
  PROVE  DriftInv'
<1>1. TablesTyped
  BY DEF Inv
<1>2. PICK p : Opens(p) /\ Enter(h, p)
  BY <1>1, OpensOnUser, OpensOnTeam, OpensOnRole, OpensOnInvite
<1> QED BY <1>2, EnterDrift

-----------------------------------------------------------------------------
(* Every step.                                                             *)

LEMMA ServeDrift ==
  ASSUME Inv, Inv', DriftInv, NEW h \in Handler, Serve(h)
  PROVE  DriftInv'
<1>1. CASE BeginOnUser(h) \/ BeginOnTeam(h) \/ BeginOnRole(h) \/ BeginOnInvite(h)
  BY <1>1, BeginDrift
<1>2. CASE \/ ReadUsers(h) \/ ReadTeamMembers(h) \/ CountMembers(h) \/ CountInvites(h)
           \/ EnsureOrgHasAdmin(h) \/ AssertCount(h) \/ FindMembership(h) \/ MatchMembers(h)
  BY <1>2, CountingDrift, EnsureOrgHasAdminDrift, AssertCountDrift, FindMembershipDrift, MatchMembersDrift
<1>3. CASE \/ ReadTuples(h) \/ DeleteTuples(h) \/ LookupRole(h) \/ FillCache(h) \/ WriteTuples(h)
           \/ UpdateUserRole(h) \/ UpdateTeamRole(h)
  BY <1>3, ReadTuplesDrift, DeleteTuplesDrift, LookupRoleDrift, FillCacheDrift, WriteTuplesDrift,
     UpdateUserRoleDrift, UpdateTeamRoleDrift
<1>4. CASE \/ DeleteUser(h) \/ RemoveTeamMember(h) \/ AddTeamMember(h) \/ LinkTuple(h) \/ UnlinkTuple(h)
           \/ Undo(h)
  BY <1>4, DeleteUserDrift, RemoveTeamMemberDrift, AddTeamMemberDrift, LinkTupleDrift, UnlinkTupleDrift,
     UndoDrift
<1>5. CASE UpdateRole(h) \/ ListHolders(h) \/ ResyncNext(h) \/ DeleteRole(h)
  BY <1>5, UpdateRoleDrift, ListHoldersDrift, ResyncNextDrift, DeleteRoleDrift
<1>6. CASE UnlinkAll(h) \/ FailUnlinkAll(h) \/ DeleteTeam(h) \/ ReadLinks(h) \/ DropLinks(h)
  BY <1>6, UnlinkAllDrift, DeleteTeamDrift, ReadLinksDrift, DropLinksDrift
<1>7. CASE InsertUser(h) \/ FailCall(h) \/ LoseReply(h)
  BY <1>7, InsertUserDrift, FailCallDrift, LoseReplyDrift
<1>8. CASE \/ InsertInvite(h) \/ MarkAccepted(h) \/ MarkMatched(h) \/ InvalidateRole(h) \/ Return(h)
           \/ Crash(h)
  BY <1>8, EndingDrift
<1> QED BY <1>1, <1>2, <1>3, <1>4, <1>5, <1>6, <1>7, <1>8 DEF Serve

\* An address that takes the place of another.
LEMMA MailDrift ==
  ASSUME Inv, Inv', DriftInv, UNCHANGED <<role, users, team, roster, fga, members, drift, proc>>,
         \A u \in User : mail[u] # Nothing => mail'[u] # Nothing
  PROVE  DriftInv'
<1>1. Drift(proc, World) /\ (\A h \in Handler : Fits(proc[h]) /\ proc[h] \in Frame)
  BY DriftInvIs DEF Inv, FramesFit, Fits
<1>2. Elsewhere(NoCall, {}, World, World') /\ Outside({}, proc, World, World')
  BY NoCallShape, ElsewhereHolds
<1>3. Shapes(proc, World')
  BY <1>1, Worlds DEF Drift, Shapes, Shape, NamesKnown
<1>4. Untouched(World')
  BY <1>1, Worlds DEF Drift, Untouched
<1>5. Sounds(proc, World')
  <2>1. ASSUME NEW h \in Handler, ~proc[h].over
        PROVE  Sound(proc[h], World')
    <3>1. NamesFit(proc[h]) /\ TouchFits(proc[h]) /\ StepsFit(proc[h]) /\ Sound(proc[h], World)
      BY <1>1, <2>1 DEF Fits, Drift, Shapes, Shape, Sounds
    <3>2. proc[h].touch \cap {} = {} /\ InTeam(World) /\ InTeam(World')
      BY InTeams
    <3> QED BY <1>1, <1>2, <3>1, <3>2, StaysSound
  <2> QED BY <2>1 DEF Sounds
<1>6. \A x \in Thing : Kept(x, World) <=> Kept(x, World')
  BY Worlds DEF Kept, AgreesIn, GrantedIn
<1>7. AllKept(proc, World')
  BY <1>1, <1>6 DEF Drift, AllKept
<1>8. HoldersKnown(proc, World')
  BY <1>1, Worlds DEF Drift, HoldersKnown, HoldersIn
<1>9. ClearFits(proc, World')
  BY <1>1, Worlds DEF Drift, ClearFits
<1>10. Drift(proc, World')
  BY <1>1, <1>3, <1>4, <1>5, <1>7, <1>8, <1>9 DEF Drift
<1> QED BY <1>10, DriftInvIs

LEMMA DriftInvNext == Inv /\ Inv' /\ DriftInv /\ [Next]_vars => DriftInv'
<1> SUFFICES ASSUME Inv, Inv', DriftInv, [Next]_vars PROVE DriftInv'
  OBVIOUS
<1>1. ASSUME NEW h \in Handler, Serve(h) PROVE DriftInv'
  BY <1>1, ServeDrift
<1>2. CASE UNCHANGED <<role, users, mail, team, roster, fga, members, drift, proc>>
  <2>1. World' = World
    BY <1>2, WorldSame
  <2> QED BY <1>2, <2>1, DriftInvIs
<1>3. CASE Expire \/ \E e \in Email : DeleteInvite(e) \/ \E r \in Role : UpdateInvite(e, r)
  <2>1. UNCHANGED <<role, users, mail, team, roster, fga, members, drift, proc>>
    BY <1>3 DEF Expire, DeleteInvite, UpdateInvite, rows, tuples
  <2> QED BY <1>2, <2>1
<1>4. ASSUME NEW u \in User, NEW e \in Email, UpdateEmail(u, e) PROVE DriftInv'
  <2>1. UNCHANGED <<role, users, team, roster, fga, members, drift, proc>>
    BY <1>4 DEF UpdateEmail, tuples
  <2>2. \A v \in User : mail[v] # Nothing => mail'[v] # Nothing
    <3>1. mail' = [mail EXCEPT ![u] = e] /\ mail \in [User -> Email \cup {Nothing, "founder"}]
      BY <1>4 DEF UpdateEmail, Inv, TablesTyped
    <3> QED BY <3>1, OrgMembersAssumption
  <2> QED BY <2>1, <2>2, MailDrift
<1>5. CASE UNCHANGED vars
  BY <1>2, <1>5 DEF vars
<1> QED BY <1>1, <1>3, <1>4, <1>5 DEF Next

LEMMA DriftInvInit == Init => DriftInv
<1> SUFFICES ASSUME Init PROVE DriftInv
  OBVIOUS
<1> DEFINE other == CHOOSE r \in Role : r # Own
<1>0. PICK f \in Founding :
        LET at == [u \in User |-> IF u = Founders.owner THEN Own
                                  ELSE IF u = Founders.other THEN other ELSE Absent]
            fl == [r \in Role |-> IF r = Own THEN Flag ELSE f.flags]
        IN /\ role = fl /\ users = at
           /\ mail = [u \in User |-> IF at[u] = Absent THEN Nothing ELSE "founder"]
           /\ team = [live |-> TRUE, role |-> f.teamRole]
           /\ roster = f.roster /\ members = f.roster
           /\ fga = [s \in Subject |-> IF s = Team THEN IF f.teamRole = NoRole THEN {} ELSE Grant(fl[f.teamRole])
                                       ELSE IF at[s] = Absent THEN {} ELSE Grant(fl[at[s]])]
           /\ proc = [h \in Handler |-> NoCall]
  BY DEF Init
<1>1. /\ mail = [u \in User |-> IF users[u] = Absent THEN Nothing ELSE "founder"]
      /\ team = [live |-> TRUE, role |-> f.teamRole] /\ roster = f.roster /\ members = f.roster
      /\ fga = [s \in Subject |-> IF s = Team THEN IF f.teamRole = NoRole THEN {} ELSE Grant(role[f.teamRole])
                                  ELSE IF users[s] = Absent THEN {} ELSE Grant(role[users[s]])]
      /\ proc = [h \in Handler |-> NoCall]
  BY <1>0
<1>2. \A u \in f.roster : users[u] # Absent
  <2>1. other # Absent /\ Own # Absent
    BY OrgMembersAssumption
  <2>2. f.roster \subseteq {Founders.owner, Founders.other}
    BY OrgMembersAssumption
  <2> HIDE DEF other
  <2> QED BY <1>0, <2>1, <2>2, OrgMembersAssumption
<1>3. Shapes(proc, World) /\ Sounds(proc, World)
  BY <1>1, NoCallShape DEF Shapes, Sounds
<1>4. Untouched(World)
  <2> SUFFICES ASSUME NEW u \in User, mail[u] = Nothing
               PROVE  users[u] = Absent /\ fga[u] = {} /\ u \notin roster /\ u \notin members
    BY Worlds DEF Untouched
  <2>1. users[u] = Absent
    BY <1>1, OrgMembersAssumption
  <2>2. fga[u] = {}
    BY <1>1, <2>1, Kinds DEF Subject
  <2> QED BY <1>1, <1>2, <2>1, <2>2
<1>5. \A h \in Handler : proc[h].touch = {} /\ proc[h].op = "none"
  BY <1>1, NoCallShape
<1>6. Apart(proc) /\ HoldersKnown(proc, World) /\ ClearFits(proc, World)
  BY <1>5 DEF Apart, HoldersKnown, ClearFits
<1>7. ASSUME NEW x \in Thing
      PROVE  AgreesIn(x, World)
  <2>1. CASE x \in User
    <3>1. fga[x] = IF users[x] # Absent THEN Grant(role[users[x]]) ELSE {}
      BY <1>1, <2>1, Kinds DEF Subject
    <3> QED BY <2>1, <3>1, Worlds, UserAgrees
  <2>2. CASE x = Team
    <3>1. fga[Team] = IF team.role = NoRole THEN {} ELSE Grant(role[team.role])
      BY <1>1 DEF Subject
    <3> QED BY <2>2, <3>1, Worlds, TeamAgrees
  <2>3. CASE x \in Links
    <3>1. PICK u \in User : x = Link(u)
      BY <2>3 DEF Links
    <3> QED BY <1>1, <3>1, Worlds, LinkAgrees
  <2> QED BY <2>1, <2>2, <2>3, Kinds
<1>8. AllKept(proc, World)
  BY <1>7 DEF AllKept, Kept
<1> QED BY <1>3, <1>4, <1>6, <1>8 DEF DriftInv, Drift

LEMMA DriftInvAlways == Spec => []DriftInv
<1>1. Spec => []Inv
  BY InvAlways
<1>2. Init => DriftInv
  BY DriftInvInit
<1>3. Inv /\ Inv' /\ DriftInv /\ [Next]_vars => DriftInv'
  BY DriftInvNext
<1> QED BY <1>1, <1>2, <1>3, PTL DEF Spec

LEMMA DriftInvCause == DriftInv => DriftHasCause
<1> SUFFICES ASSUME DriftInv, NEW x \in Thing, \A h \in Handler : x \notin proc[h].touch
             PROVE  Agrees(x) \/ drift[x] # {}
  BY DEF DriftHasCause
<1>1. Working(x, proc) \/ Kept(x, World)
  BY DEF DriftInv, Drift, AllKept
<1>2. Kept(x, World)
  BY <1>1 DEF Working
<1>3. AgreesIn(x, World) => Agrees(x)
  BY Worlds DEF AgreesIn, GrantedIn, Agrees, Granted, IsMember
<1> QED BY <1>2, <1>3, Worlds DEF Kept

\* The tuples say what the rows say, for everything no call is at work on,
\* unless calls overlapped on it, a call failed or died half-way, a resync
\* read a stale role, the team's role changed its flags, a role went with its
\* rows or a user left a member tuple behind: role.service.ts, team.service.ts
\* and user.service.ts change the rows and OpenFGA in separate steps.
THEOREM DriftAlwaysHasCause == Spec => []DriftHasCause
<1>1. Spec => []DriftInv
  BY DriftInvAlways
<1>2. DriftInv => DriftHasCause
  BY DriftInvCause
<1> QED BY <1>1, <1>2, PTL
=============================================================================
