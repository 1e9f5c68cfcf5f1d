------------------------- MODULE VaultSessions_proofs -------------------------
(***************************************************************************)
(* Whatever the numbers of processes, calls and sessions: the caches hold  *)
(* what their keys say, a call waits only for a creation under way, and a  *)
(* token stands for what its caller is entitled to.                        *)
(***************************************************************************)
EXTENDS VaultSessions, TLAPS

\* A call under way runs in a process, under a key, for scopes the member
\* has had since it began, and has not settled a session.
CallsFit ==
  \A c \in Call :
    /\ ~Ended(c) => ~sess[c].settled
    /\ At(c, "wait") => proc[c].on \in Call
    /\ ~Ended(c) /\ ~At(c, "idle") =>
         proc[c].at \in Process /\ CacheKey(proc[c]) \in Key /\ proc[c].scopes \in proc[c].entitled

\* The session a call is about to settle is its own.
RepliesFit ==
  \A c \in Call : At(c, "reply") => sess[c].at = proc[c].at /\ sess[c].key = CacheKey(proc[c])

\* A pending entry is the promise of a creation under way for its key.
PendingRuns ==
  \A a \in Process, k \in Key : pending[a][k] # None =>
    LET o == proc[pending[a][k]] IN o.pc \in Creating /\ o.at = a /\ CacheKey(o) = k

Inv == TypeOK /\ CallsFit /\ RepliesFit /\ PendingRuns /\ WaitsForRunning

-----------------------------------------------------------------------------

\* The frames and the session that calls start from and end with are typed.
LEMMA ConstantsTyped ==
  /\ NoFrame \in Frame /\ Failed \in Frame /\ NoSession \in Session
  /\ \A s \in Call : Done(s) \in Frame
  /\ \A l \in Level : Scopes(l) \in SUBSET Scope
<1>1. 0 \in Serial BY VaultSessionsAssumption DEF Serial
<1>2. NoFrame \in Frame BY <1>1 DEF NoFrame, Frame
<1>3. Failed \in Frame BY <1>2 DEF Failed, Frame, NoFrame
<1>4. \A s \in Call : Done(s) \in Frame BY <1>2 DEF Done, Frame, NoFrame
<1>5. NoSession \in Session BY DEF NoSession, Session
<1>6. \A l \in Level : Scopes(l) \in SUBSET Scope BY DEF Scopes, Scope
<1> QED BY <1>2, <1>3, <1>4, <1>5, <1>6

\* The initial states satisfy the invariant.
LEMMA InvInit == Init => Inv
<1> SUFFICES ASSUME Init PROVE Inv OBVIOUS
<1>1. TypeOK BY ConstantsTyped, VaultSessionsAssumption DEF Init, TypeOK, Serial
<1>2. \A c \in Call : At(c, "idle") /\ ~sess[c].settled
  BY DEF Init, At, NoFrame, NoSession
<1>3. CallsFit BY <1>2 DEF CallsFit, At
<1>4. RepliesFit /\ WaitsForRunning BY <1>2 DEF RepliesFit, WaitsForRunning, At
<1>5. PendingRuns BY DEF Init, PendingRuns
<1> QED BY <1>1, <1>3, <1>4, <1>5 DEF Inv

\* Frame x keeps what a promise is known by.
Keeps(x) ==
  /\ proc'[x].at = proc[x].at /\ proc'[x].cert = proc[x].cert
  /\ proc'[x].scopes = proc[x].scopes

\* While creations under way stay under way, pending entries are theirs.
LEMMA PendingStays ==
  ASSUME Inv, pending' = pending,
         \A x \in Call : proc[x].pc \in Creating => proc'[x].pc \in Creating /\ Keeps(x)
  PROVE  PendingRuns'
<1> SUFFICES ASSUME NEW a \in Process, NEW k \in Key, pending[a][k] # None
             PROVE  LET o == proc'[pending[a][k]] IN
                    o.pc \in Creating /\ o.at = a /\ <<o.cert, o.scopes>> = k
  BY DEF PendingRuns, CacheKey
<1>1. pending[a][k] \in Call BY DEF Inv, TypeOK
<1>2. LET o == proc[pending[a][k]] IN o.pc \in Creating /\ o.at = a /\ <<o.cert, o.scopes>> = k
  BY DEF Inv, PendingRuns, CacheKey
<1> QED BY <1>1, <1>2 DEF Keeps

\* And calls that keep waiting wait for a creation under way.
LEMMA WaitsStay ==
  ASSUME Inv,
         \A x \in Call : proc'[x].pc = "wait" =>
           /\ proc[x].pc = "wait" /\ proc'[x].on = proc[x].on /\ Keeps(x)
           /\ proc'[proc[x].on].pc \in Creating /\ Keeps(proc[x].on)
  PROVE  WaitsForRunning'
<1> SUFFICES ASSUME NEW x \in Call, proc'[x].pc = "wait"
             PROVE  LET o == proc'[proc'[x].on] IN
                    /\ o.pc \in Creating /\ o.at = proc'[x].at
                    /\ <<o.cert, o.scopes>> = <<proc'[x].cert, proc'[x].scopes>>
  BY DEF WaitsForRunning, CacheKey, At
<1>1. LET o == proc[proc[x].on] IN
      /\ o.pc \in Creating /\ o.at = proc[x].at
      /\ <<o.cert, o.scopes>> = <<proc[x].cert, proc[x].scopes>>
  BY DEF Inv, WaitsForRunning, CacheKey, At
<1> QED BY <1>1 DEF Keeps

\* What a call waits for is a creation under way.
LEMMA AwaitedRuns ==
  ASSUME Inv, NEW x \in Call, proc[x].pc = "wait"
  PROVE  proc[x].on \in Call /\ proc[proc[x].on].pc \in Creating
<1>1. proc[proc[x].on].pc \in Creating BY DEF Inv, WaitsForRunning, At
<1>2. proc[x].on \in Call BY DEF Inv, CallsFit, At
<1> QED BY <1>1, <1>2

\* A call begins.
LEMMA BeginKeeps ==
  ASSUME Inv, NEW c \in Call, NEW a \in Home[c], Begin(c, a)
  PROVE  Inv'
<1> DEFINE f == [NoFrame EXCEPT !.pc = "read", !.at = a, !.cert = serial,
                                !.scopes = Scopes(level), !.entitled = {Scopes(level)}]
<1>1. a \in Process BY VaultSessionsAssumption
<1>3a. serial \in Serial /\ level \in Level /\ Scopes(level) \in SUBSET Scope
      /\ {Scopes(level)} \in SUBSET SUBSET Scope
  BY ConstantsTyped DEF Inv, TypeOK
<1>2. f \in Frame /\ f.pc = "read" /\ f.at = a /\ f.scopes \in f.entitled
  BY <1>1, <1>3a, ConstantsTyped DEF Frame, NoFrame
<1>3b. f.cert \in Serial /\ f.scopes \in {Scopes(l) : l \in Level}
  BY DEF Inv, TypeOK, NoFrame
<1>3. /\ proc' = [proc EXCEPT ![c] = f] /\ proc[c].pc = "idle"
      /\ UNCHANGED <<serial, level, due, cache, pending, sess, others, events>>
  BY DEF Begin, At, member
<1> HIDE DEF f
<1>4. TypeOK' BY <1>2, <1>3 DEF Inv, TypeOK
<1>3c. \A x \in Call : proc'[x] = IF x = c THEN f ELSE proc[x] BY <1>3 DEF Inv, TypeOK
<1>3d. <<f.cert, f.scopes>> \in Key BY <1>3b DEF Key
<1>5. CallsFit' BY <1>1, <1>2, <1>3d, <1>3c, <1>3 DEF Inv, CallsFit, Ended, At, CacheKey
<1>6. RepliesFit' BY <1>2, <1>3 DEF Inv, TypeOK, RepliesFit, At
<1>7. \A x \in Call : x # c => proc'[x] = proc[x] BY <1>3 DEF Inv, TypeOK
<1>8. proc'[c].pc = "read" BY <1>2, <1>3 DEF Inv, TypeOK
<1>9. PendingRuns' BY <1>3, <1>7, PendingStays DEF Creating, Keeps
<1>10. WaitsForRunning' BY <1>3, <1>7, <1>8, AwaitedRuns, WaitsStay DEF Creating, Keeps
<1> QED BY <1>4, <1>5, <1>6, <1>9, <1>10 DEF Inv

\* Forgetting the promise of a creation leaves the entries of the others.
LEMMA ForgetLeavesRunning ==
  ASSUME Inv, NEW c \in Call, proc[c].pc \in Creating, Forget(c),
         \A x \in Call : x # c /\ proc[x].pc \in Creating => proc'[x] = proc[x]
  PROVE  /\ pending' \in [Process -> [Key -> Call \cup {None}]]
         /\ PendingRuns'
<1>1. proc[c].at \in Process /\ CacheKey(proc[c]) \in Key
  BY DEF Inv, CallsFit, Ended, At, Creating
<1> DEFINE b == proc[c].at
           j == CacheKey(proc[c])
<1>2. pending' = [pending EXCEPT ![b][j] = None] BY DEF Forget
<1>3. pending \in [Process -> [Key -> Call \cup {None}]] BY DEF Inv, TypeOK
<1> HIDE DEF b, j
<1>4. pending' \in [Process -> [Key -> Call \cup {None}]] BY <1>2, <1>3
<1>5. ASSUME NEW a \in Process, NEW k \in Key, pending'[a][k] # None
      PROVE  LET o == proc'[pending'[a][k]] IN
             o.pc \in Creating /\ o.at = a /\ <<o.cert, o.scopes>> = k
  <2>1. ~(a = b /\ k = j) /\ pending'[a][k] = pending[a][k] BY <1>2, <1>3, <1>5
  <2>2. pending[a][k] \in Call BY <1>3, <1>5, <2>1
  <2>3. LET o == proc[pending[a][k]] IN o.pc \in Creating /\ o.at = a /\ <<o.cert, o.scopes>> = k
    BY <1>5, <2>1 DEF Inv, PendingRuns, CacheKey
  <2>4. pending[a][k] # c BY <2>1, <2>3 DEF b, j, CacheKey
  <2> QED BY <2>1, <2>2, <2>3, <2>4
<1> QED BY <1>4, <1>5 DEF PendingRuns, CacheKey

\* A creation fails, and those that wait for it fail with it.
LEMMA RejectKeeps ==
  ASSUME Inv, NEW c \in Call, proc[c].pc \in Creating, Reject(c),
         UNCHANGED <<serial, level, due, cache, sess, others>>, events' \in Nat
  PROVE  Inv'
<1>1. \A x \in Call : proc'[x] = IF x = c \/ (proc[x].pc = "wait" /\ proc[x].on = c) THEN Failed
                                  ELSE proc[x]
  BY DEF Reject, Waiters, At
<1>2. Failed.pc = "failed" BY DEF Failed, NoFrame
<1>3. proc' \in [Call -> Frame]
  BY ConstantsTyped DEF Reject, Inv, TypeOK
<1>4. \A x \in Call : x # c /\ proc[x].pc \in Creating => proc'[x] = proc[x] BY <1>1 DEF Creating
<1>5. pending' \in [Process -> [Key -> Call \cup {None}]] /\ PendingRuns'
  BY <1>4, ForgetLeavesRunning DEF Reject
<1>6. TypeOK' BY <1>3, <1>5 DEF Inv, TypeOK
<1>7. CallsFit' BY <1>1, <1>2 DEF Inv, CallsFit, Ended, At, CacheKey
<1>8. RepliesFit' BY <1>1, <1>2 DEF Inv, RepliesFit, At, CacheKey
<1>9. WaitsForRunning'
  <2> SUFFICES ASSUME NEW x \in Call, proc'[x].pc = "wait"
               PROVE  /\ proc[x].pc = "wait" /\ proc'[x].on = proc[x].on /\ Keeps(x)
                      /\ proc'[proc[x].on].pc \in Creating /\ Keeps(proc[x].on)
    BY WaitsStay
  <2>1. proc'[x] = proc[x] /\ proc[x].on # c BY <1>1, <1>2
  <2>2. proc[x].on \in Call /\ proc[proc[x].on].pc \in Creating BY <2>1, AwaitedRuns
  <2> QED BY <1>4, <2>1, <2>2 DEF Keeps
<1> QED BY <1>5, <1>6, <1>7, <1>8, <1>9 DEF Inv

\* A creation goes on, its session changed or not.
LEMMA CreationGoesOn ==
  ASSUME Inv, NEW c \in Call, proc[c].pc \in Creating, NEW label \in Creating,
         proc' = [proc EXCEPT ![c].pc = label],
         sess' \in [Call -> Session], others' \in 0 .. Limit,
         \A s \in Call : sess[s].settled => sess'[s].settled /\ sess'[s].at = sess[s].at /\ sess'[s].key = sess[s].key,
         \A s \in Call : ~sess[s].settled => ~sess'[s].settled,
         \A s \in Call : s # c => sess'[s].at = sess[s].at /\ sess'[s].key = sess[s].key,
         label = "reply" => sess'[c].at = proc[c].at /\ sess'[c].key = CacheKey(proc[c]),
         UNCHANGED <<serial, level, due, cache, pending, events>>
  PROVE  Inv'
<1>1. /\ \A x \in Call : x # c => proc'[x] = proc[x]
      /\ proc'[c] = [proc[c] EXCEPT !.pc = label] /\ proc[c] \in Frame
      /\ pending' = pending
  BY DEF Inv, TypeOK
<1>2. [proc[c] EXCEPT !.pc = label] \in Frame BY <1>1 DEF Frame
<1>3. proc'[c].pc = label /\ Keeps(c) /\ proc'[c].on = proc[c].on /\ proc'[c].entitled = proc[c].entitled
  BY <1>1 DEF Frame, Keeps
<1>4. \A x \in Call : Keeps(x) BY <1>1, <1>3 DEF Keeps
<1>5. \A a \in Process, k \in Key : cache[a][k] # None =>
        LET s == sess'[cache[a][k]] IN s.settled /\ s.at = a /\ s.key = k
  BY DEF Inv, TypeOK
<1>6. TypeOK'
  <2>1. proc' \in [Call -> Frame] BY <1>2 DEF Inv, TypeOK
  <2>2. /\ serial' \in Serial /\ level' \in Level /\ due' \subseteq Process /\ events' \in Nat
        /\ cache' \in [Process -> [Key -> Call \cup {None}]]
        /\ pending' \in [Process -> [Key -> Call \cup {None}]]
        /\ cache' = cache
    BY DEF Inv, TypeOK
  <2> QED BY <1>5, <2>1, <2>2 DEF TypeOK
<1>7. CallsFit'
  <2> SUFFICES ASSUME NEW x \in Call
               PROVE  /\ ~(proc'[x].pc \in {"done", "failed"}) => ~sess'[x].settled
                      /\ proc'[x].pc = "wait" => proc'[x].on \in Call
                      /\ ~(proc'[x].pc \in {"done", "failed"}) /\ proc'[x].pc # "idle" =>
                           /\ proc'[x].at \in Process /\ <<proc'[x].cert, proc'[x].scopes>> \in Key
                           /\ proc'[x].scopes \in proc'[x].entitled
    BY DEF CallsFit, Ended, At, CacheKey
  <2>1. CASE x = c
    <3>1. proc[c].pc \notin {"done", "failed", "idle"} /\ label # "wait"
      BY DEF Creating
    <3>2. /\ ~sess[c].settled
          /\ proc[c].at \in Process /\ <<proc[c].cert, proc[c].scopes>> \in Key
          /\ proc[c].scopes \in proc[c].entitled
      BY <3>1 DEF Inv, CallsFit, Ended, At, CacheKey
    <3>3. ~sess'[c].settled
      BY <3>2
    <3>4. /\ proc'[c].at = proc[c].at /\ proc'[c].cert = proc[c].cert
          /\ proc'[c].scopes = proc[c].scopes /\ proc'[c].entitled = proc[c].entitled
      BY <1>3 DEF Keeps
    <3> QED BY <1>3, <2>1, <3>1, <3>2, <3>3, <3>4
  <2>2. CASE x # c BY <1>1, <2>2 DEF Inv, CallsFit, Ended, At, CacheKey
  <2> QED BY <2>1, <2>2
<1>8. RepliesFit'
  <2> SUFFICES ASSUME NEW x \in Call, proc'[x].pc = "reply"
               PROVE  sess'[x].at = proc'[x].at /\ sess'[x].key = <<proc'[x].cert, proc'[x].scopes>>
    BY DEF RepliesFit, At, CacheKey
  <2>1. CASE x = c BY <1>3, <2>1 DEF CacheKey, Keeps
  <2>2. CASE x # c BY <1>1, <2>2 DEF Inv, RepliesFit, At, CacheKey
  <2> QED BY <2>1, <2>2
<1>9. \A x \in Call : proc[x].pc \in Creating => proc'[x].pc \in Creating BY <1>1, <1>3
<1>10. PendingRuns' BY <1>1, <1>4, <1>9, PendingStays
<1>11. \A x \in Call : proc'[x].pc = "wait" => x # c /\ proc[x].pc = "wait" BY <1>1, <1>3 DEF Creating
<1>12. WaitsForRunning' BY <1>1, <1>4, <1>9, <1>11, AwaitedRuns, WaitsStay
<1> QED BY <1>6, <1>7, <1>8, <1>10, <1>12 DEF Inv

-----------------------------------------------------------------------------

\* A call looks into the memory of its process. What it finds in the cache
\* was created under its key, what it finds pending is under way.
LEMMA LookKeeps ==
  ASSUME Inv, NEW c \in Call, Look(c)
  PROVE  Inv' /\ (Returns(c) => /\ proc[c].scopes \in proc[c].entitled
                               /\ sess'[proc'[c].token].key = CacheKey(proc[c]))
<1> DEFINE p == proc[c]
           k == CacheKey(p)
           hit == cache[p.at][k]
           promise == pending[p.at][k]
<1>1. /\ p.pc = "read" /\ p \in Frame /\ p.at \in Process /\ k \in Key /\ p.scopes \in p.entitled
      /\ ~sess[c].settled
  BY DEF Look, At, Inv, TypeOK, CallsFit, Ended
<1>2. UNCHANGED <<serial, level, due, cache, pending, sess, others, events>> BY DEF Look, member
<1>3. hit \in Call \cup {None} /\ promise \in Call \cup {None} BY <1>1 DEF Inv, TypeOK
<1>4. hit # None => sess[hit].key = k BY <1>1 DEF Inv, TypeOK
<1>5. promise # None => /\ proc[promise].pc \in Creating /\ proc[promise].at = p.at
                        /\ CacheKey(proc[promise]) = k
  BY <1>1 DEF Inv, PendingRuns
<1> DEFINE g == IF p.cert = 0 \/ p.scopes = {} THEN Failed
                ELSE IF hit # None /\ Fresh(hit) THEN Done(hit)
                ELSE IF promise # None THEN [p EXCEPT !.pc = "wait", !.on = promise]
                ELSE [p EXCEPT !.pc = "open", !.saw = Settled]
<1>6. proc' = [proc EXCEPT ![c] = g] BY DEF Look
<1>7. \/ g = Failed
      \/ hit # None /\ g = Done(hit)
      \/ promise # None /\ g = [p EXCEPT !.pc = "wait", !.on = promise]
      \/ g = [p EXCEPT !.pc = "open", !.saw = Settled]
  OBVIOUS
<1> HIDE DEF p, k, hit, promise, g
<1>8. /\ g \in Frame
      /\ \/ g.pc = "failed"
         \/ g.pc = "done" /\ hit # None /\ g.token = hit
         \/ g.pc = "wait" /\ promise # None /\ g.on = promise /\ g.at = p.at /\ g.cert = p.cert
            /\ g.scopes = p.scopes /\ g.entitled = p.entitled
         \/ g.pc = "open" /\ g.at = p.at /\ g.cert = p.cert /\ g.scopes = p.scopes /\ g.entitled = p.entitled
  <2>1. CASE g = Failed BY <2>1, ConstantsTyped DEF Failed, NoFrame
  <2>2. CASE hit # None /\ g = Done(hit) BY <1>3, <2>2, ConstantsTyped DEF Done, NoFrame
  <2>3. CASE promise # None /\ g = [p EXCEPT !.pc = "wait", !.on = promise]
    BY <1>1, <1>3, <2>3 DEF Frame
  <2>4. CASE g = [p EXCEPT !.pc = "open", !.saw = Settled]
    BY <1>1, <2>4 DEF Frame, Settled
  <2> QED BY <1>7, <2>1, <2>2, <2>3, <2>4
<1>9. \A x \in Call : proc'[x] = IF x = c THEN g ELSE proc[x] BY <1>6 DEF Inv, TypeOK
<1>10. TypeOK'
  <2>1. proc' \in [Call -> Frame] BY <1>6, <1>8 DEF Inv, TypeOK
  <2> QED BY <1>2, <2>1 DEF Inv, TypeOK
<1>11. CallsFit'
  <2> SUFFICES ASSUME NEW x \in Call
               PROVE  /\ ~(proc'[x].pc \in {"done", "failed"}) => ~sess[x].settled
                      /\ proc'[x].pc = "wait" => proc'[x].on \in Call
                      /\ ~(proc'[x].pc \in {"done", "failed"}) /\ proc'[x].pc # "idle" =>
                           /\ proc'[x].at \in Process /\ <<proc'[x].cert, proc'[x].scopes>> \in Key
                           /\ proc'[x].scopes \in proc'[x].entitled
    BY <1>2 DEF CallsFit, Ended, At, CacheKey
  <2>1. CASE x = c BY <1>1, <1>3, <1>8, <1>9, <2>1 DEF k, CacheKey
  <2>2. CASE x # c BY <1>9, <2>2 DEF Inv, CallsFit, Ended, At, CacheKey
  <2> QED BY <2>1, <2>2
<1>12. RepliesFit' BY <1>2, <1>8, <1>9 DEF Inv, RepliesFit, At, CacheKey
<1>13. \A x \in Call : proc[x].pc \in Creating => x # c BY <1>1 DEF p, Creating
<1>14. PendingRuns' BY <1>2, <1>9, <1>13, PendingStays DEF Keeps
<1>15. WaitsForRunning'
  <2> SUFFICES ASSUME NEW x \in Call, proc'[x].pc = "wait"
               PROVE  LET o == proc'[proc'[x].on] IN
                      /\ o.pc \in Creating /\ o.at = proc'[x].at
                      /\ <<o.cert, o.scopes>> = <<proc'[x].cert, proc'[x].scopes>>
    BY DEF WaitsForRunning, CacheKey, At
  <2>1. CASE x = c
    <3>1. proc'[x].on = promise /\ promise \in Call /\ promise # c
      BY <1>3, <1>5, <1>8, <1>9, <1>13, <2>1
    <3>2. proc'[promise] = proc[promise] BY <1>9, <3>1
    <3> QED BY <1>5, <1>8, <1>9, <2>1, <3>1, <3>2 DEF k, CacheKey
  <2>2. CASE x # c
    <3>1. proc'[x] = proc[x] BY <1>9, <2>2
    <3>2. proc[x].on \in Call /\ proc[proc[x].on].pc \in Creating BY <3>1, AwaitedRuns
    <3>3. proc'[proc[x].on] = proc[proc[x].on] BY <1>9, <1>13, <3>2
    <3> QED BY <3>1, <3>3 DEF Inv, WaitsForRunning, CacheKey, At
  <2> QED BY <2>1, <2>2
<1>16. Returns(c) => proc'[c].token = hit /\ hit # None BY <1>8, <1>9 DEF Returns, At
<1> QED BY <1>1, <1>2, <1>4, <1>10, <1>11, <1>12, <1>14, <1>15, <1>16 DEF Inv, p, k

\* A call registers its creation.
LEMMA RegisterKeeps ==
  ASSUME Inv, NEW c \in Call, Register(c)
  PROVE  Inv'
<1> DEFINE b == proc[c].at
           j == CacheKey(proc[c])
<1>1. /\ proc[c].pc = "open" /\ b \in Process /\ j \in Key /\ proc[c] \in Frame
      /\ proc' = [proc EXCEPT ![c].pc = "create"] /\ pending' = [pending EXCEPT ![b][j] = c]
      /\ UNCHANGED <<serial, level, due, cache, sess, others, events>>
  BY DEF Register, At, member, Inv, TypeOK, CallsFit, Ended
<1>2. /\ \A x \in Call : x # c => proc'[x] = proc[x]
      /\ proc'[c] = [proc[c] EXCEPT !.pc = "create"]
  BY <1>1 DEF Inv, TypeOK
<1>3. /\ proc'[c] \in Frame /\ proc'[c].pc = "create" /\ Keeps(c)
      /\ proc'[c].entitled = proc[c].entitled
  BY <1>1, <1>2 DEF Frame, Keeps, Creating
<1>4. pending \in [Process -> [Key -> Call \cup {None}]] BY DEF Inv, TypeOK
<1> HIDE DEF b, j
<1>5. proc' \in [Call -> Frame] BY <1>1, <1>2, <1>3 DEF Inv, TypeOK
<1>6. pending' \in [Process -> [Key -> Call \cup {None}]] BY <1>1, <1>4
<1>7. TypeOK' BY <1>1, <1>5, <1>6 DEF Inv, TypeOK
<1>8. CallsFit'
  <2> SUFFICES ASSUME NEW x \in Call
               PROVE  /\ ~(proc'[x].pc \in {"done", "failed"}) => ~sess[x].settled
                      /\ proc'[x].pc = "wait" => proc'[x].on \in Call
                      /\ ~(proc'[x].pc \in {"done", "failed"}) /\ proc'[x].pc # "idle" =>
                           /\ proc'[x].at \in Process /\ <<proc'[x].cert, proc'[x].scopes>> \in Key
                           /\ proc'[x].scopes \in proc'[x].entitled
    BY <1>1 DEF CallsFit, Ended, At, CacheKey
  <2>1. CASE x = c BY <1>1, <1>3, <2>1 DEF Inv, CallsFit, Ended, At, CacheKey, Keeps
  <2>2. CASE x # c BY <1>2, <2>2 DEF Inv, CallsFit, Ended, At, CacheKey
  <2> QED BY <2>1, <2>2
<1>9. RepliesFit' BY <1>1, <1>2, <1>3 DEF Inv, RepliesFit, At, CacheKey
<1>10. \A x \in Call : proc[x].pc \in Creating => x # c BY <1>1 DEF Creating
<1>11. PendingRuns'
  <2> SUFFICES ASSUME NEW a \in Process, NEW k \in Key, pending'[a][k] # None
               PROVE  LET o == proc'[pending'[a][k]] IN
                      o.pc \in Creating /\ o.at = a /\ <<o.cert, o.scopes>> = k
    BY DEF PendingRuns, CacheKey
  <2>1. CASE a = b /\ k = j
    <3>1. pending'[a][k] = c BY <1>1, <1>4, <2>1
    <3> QED BY <1>3, <2>1, <3>1 DEF Creating, Keeps, b, j, CacheKey
  <2>2. CASE ~(a = b /\ k = j)
    <3>1. pending'[a][k] = pending[a][k] BY <1>1, <1>4, <2>2
    <3>2. pending[a][k] \in Call BY <1>4, <3>1
    <3>3. LET o == proc[pending[a][k]] IN o.pc \in Creating /\ o.at = a /\ <<o.cert, o.scopes>> = k
      BY <3>1 DEF Inv, PendingRuns, CacheKey
    <3> QED BY <1>2, <1>10, <3>1, <3>2, <3>3
  <2> QED BY <2>1, <2>2
<1>12. \A x \in Call : proc'[x].pc = "wait" => x # c BY <1>3
<1>13. WaitsForRunning' BY <1>2, <1>10, <1>12, AwaitedRuns, WaitsStay DEF Keeps
<1> QED BY <1>7, <1>8, <1>9, <1>11, <1>13 DEF Inv

\* miniKMS creates a session, or refuses.
LEMMA CreateSessionKeeps ==
  ASSUME Inv, NEW c \in Call, CreateSession(c)
  PROVE  Inv'
<1>1. /\ proc[c].pc \in {"create", "again"} /\ proc[c].pc \in Creating /\ ~sess[c].settled
      /\ proc[c].at \in Process /\ CacheKey(proc[c]) \in Key
      /\ UNCHANGED <<serial, level, due, cache, others, events>>
  BY DEF CreateSession, member, Inv, CallsFit, Ended, At, Creating
<1>2. CASE /\ Reject(c) /\ sess' = sess
  <2>1. events' \in Nat BY <1>1 DEF Inv, TypeOK
  <2> QED BY <1>1, <1>2, <2>1, RejectKeeps
<1>3. CASE /\ proc' = [proc EXCEPT ![c].pc = "recover"] /\ pending' = pending /\ sess' = sess
  <2>1. sess' \in [Call -> Session] /\ others' \in 0 .. Limit BY <1>1, <1>3 DEF Inv, TypeOK
  <2>2. "recover" \in Creating BY DEF Creating
  <2> QED BY <1>1, <1>3, <2>1, <2>2, CreationGoesOn
<1>4. ASSUME NEW l \in Life,
             sess' = [sess EXCEPT ![c] = [NoSession EXCEPT !.state = "live", !.left = l,
                                            !.at = proc[c].at, !.key = CacheKey(proc[c])]],
             proc' = [proc EXCEPT ![c].pc = "reply"], pending' = pending
      PROVE  Inv'
  <2> DEFINE n == [NoSession EXCEPT !.state = "live", !.left = l, !.at = proc[c].at, !.key = CacheKey(proc[c])]
  <2>1. l \in {"fresh", "near", "over"} BY VaultSessionsAssumption
  <2>2. n \in Session /\ ~n.settled /\ n.at = proc[c].at /\ n.key = CacheKey(proc[c])
    BY <1>1, <2>1, ConstantsTyped DEF Session, NoSession
  <2>3. sess' = [sess EXCEPT ![c] = n] BY <1>4
  <2> HIDE DEF n
  <2>4. sess' \in [Call -> Session] /\ others' \in 0 .. Limit
        /\ \A s \in Call : sess'[s] = IF s = c THEN n ELSE sess[s]
    BY <1>1, <2>2, <2>3 DEF Inv, TypeOK
  <2>5. "reply" \in Creating BY DEF Creating
  <2> QED BY <1>1, <1>4, <2>2, <2>4, <2>5, CreationGoesOn
<1> QED BY <1>2, <1>3, <1>4 DEF CreateSession

\* Recovery revokes every session of the member.
LEMMA RevokeKeeps ==
  ASSUME Inv, NEW c \in Call, RevokeMemberSessions(c)
  PROVE  Inv'
<1>1. /\ proc[c].pc \in Creating /\ "again" \in Creating /\ proc' = [proc EXCEPT ![c].pc = "again"]
      /\ others' = 0 /\ UNCHANGED <<serial, level, due, cache, pending, events>>
      /\ sess' = [s \in Call |-> IF s \in Live THEN [sess[s] EXCEPT !.state = "revoked", !.cut = Cut(c, s)]
                                 ELSE sess[s]]
  BY DEF RevokeMemberSessions, At, Creating, member
<1>2. \A s \in Call : Cut(c, s) \in {"none", "process", "key", "overlap", "own"} BY DEF Cut
<1>3. \A s \in Call : /\ sess'[s] \in Session /\ sess'[s].settled = sess[s].settled
                       /\ sess'[s].at = sess[s].at /\ sess'[s].key = sess[s].key
  <2> TAKE s \in Call
  <2>1. sess[s] \in Session BY DEF Inv, TypeOK
  <2>2. CASE s \in Live BY <1>1, <1>2, <2>1, <2>2 DEF Session
  <2>3. CASE s \notin Live BY <1>1, <2>1, <2>3
  <2> QED BY <2>2, <2>3
<1>4. sess' \in [Call -> Session]
  <2>1. DOMAIN sess' = Call /\ sess' = [s \in Call |-> sess'[s]] BY <1>1
  <2> QED BY <1>3, <2>1
<1>5. others' \in 0 .. Limit
  <2>1. Limit \in Nat /\ 0 \in 0 .. Limit BY VaultSessionsAssumption
  <2>2. others' = 0 BY <1>1
  <2> QED BY <2>1, <2>2
<1> QED BY <1>1, <1>3, <1>4, <1>5, CreationGoesOn

\* A session is settled: it was created under the key that it is cached
\* under, and those that get it asked for that key.
LEMMA ResolveKeeps ==
  ASSUME Inv, NEW c \in Call, At(c, "reply"), Resolve(c),
         UNCHANGED <<serial, level, due, others, events>>
  PROVE  /\ Inv'
         /\ \A x \in Call : Returns(x) =>
              /\ proc[x].scopes \in proc[x].entitled
              /\ sess'[proc'[x].token].key = CacheKey(proc[x])
<1> DEFINE b == proc[c].at
           j == CacheKey(proc[c])
<1>1. /\ proc[c].pc = "reply" /\ proc[c].pc \in Creating /\ b \in Process /\ j \in Key
      /\ sess[c].at = b /\ sess[c].key = j /\ sess[c] \in Session
      /\ proc[c].scopes \in proc[c].entitled
  BY DEF At, Inv, TypeOK, CallsFit, RepliesFit, Ended, Creating
<1>2. /\ cache' = [cache EXCEPT ![b][j] = c] /\ sess' = [sess EXCEPT ![c].settled = TRUE]
      /\ Forget(c)
  BY DEF Resolve
<1>3. /\ cache \in [Process -> [Key -> Call \cup {None}]] /\ sess \in [Call -> Session]
      /\ proc \in [Call -> Frame]
  BY DEF Inv, TypeOK
<1> DEFINE wait(x) == proc[x].pc = "wait" /\ proc[x].on = c
           open(x) == [proc[x] EXCEPT !.pc = "open", !.saw = Settled \cup {c}]
<1>4. proc' = [x \in Call |-> IF x = c \/ (wait(x) /\ Fresh(c)) THEN Done(c)
                             ELSE IF wait(x) THEN open(x) ELSE proc[x]]
  BY DEF Resolve, Waiters, At
<1>5. \A x \in Call : wait(x) =>
        /\ x # c /\ proc[x].at = b /\ CacheKey(proc[x]) = j /\ proc[x].scopes \in proc[x].entitled
        /\ ~sess[x].settled
  BY <1>1 DEF Inv, WaitsForRunning, CallsFit, Ended, At
<1>6. \A x \in Call : open(x) \in Frame /\ open(x).pc = "open" /\ open(x).at = proc[x].at
        /\ open(x).cert = proc[x].cert /\ open(x).scopes = proc[x].scopes
        /\ open(x).entitled = proc[x].entitled
  <2> TAKE x \in Call
  <2>1. proc[x] \in Frame /\ Settled \cup {c} \in SUBSET Call BY <1>3 DEF Settled
  <2>2. "open" \in Creating \cup {"idle", "read", "open", "wait", "done", "failed"} OBVIOUS
  <2> QED BY <2>1, <2>2 DEF Frame
<1>7. Done(c) \in Frame /\ Done(c).pc = "done" /\ Done(c).token = c
  BY ConstantsTyped DEF Done, NoFrame
<1> HIDE DEF wait, open
<1>8. \A x \in Call :
        \/ (x = c \/ wait(x)) /\ proc'[x] = Done(c)
        \/ wait(x) /\ x # c /\ proc'[x] = open(x)
        \/ ~wait(x) /\ x # c /\ proc'[x] = proc[x]
  <2> TAKE x \in Call
  <2>1. proc'[x] = IF x = c \/ (wait(x) /\ Fresh(c)) THEN Done(c)
                   ELSE IF wait(x) THEN open(x) ELSE proc[x]
    BY <1>4, Zenon
  <2> QED BY <2>1, Zenon
<1>9. /\ sess' \in [Call -> Session] /\ sess'[c].settled /\ sess'[c].at = b /\ sess'[c].key = j
      /\ \A s \in Call : s # c => sess'[s] = sess[s]
  BY <1>1, <1>2, <1>3 DEF Session
<1>10. proc' \in [Call -> Frame] BY <1>3, <1>4, <1>6, <1>7
<1> HIDE DEF b, j
<1>11. cache' \in [Process -> [Key -> Call \cup {None}]] BY <1>2, <1>3
<1>12. \A a \in Process, k \in Key : cache'[a][k] # None =>
         LET s == sess'[cache'[a][k]] IN s.settled /\ s.at = a /\ s.key = k
  <2> TAKE a \in Process, k \in Key
  <2> HAVE cache'[a][k] # None
  <2>1. CASE a = b /\ k = j
    <3>1. cache'[a][k] = c BY <1>2, <1>3, <2>1
    <3> QED BY <1>9, <2>1, <3>1
  <2>2. CASE ~(a = b /\ k = j)
    <3>1. cache'[a][k] = cache[a][k] BY <1>2, <1>3, <2>2
    <3>2. LET s == sess[cache[a][k]] IN s.settled /\ s.at = a /\ s.key = k
      BY <3>1 DEF Inv, TypeOK
    <3>3. cache[a][k] \in Call BY <1>3, <3>1
    <3>4. cache[a][k] # c BY <3>2, <1>1 DEF Inv, CallsFit, Ended
    <3> QED BY <1>9, <3>1, <3>2, <3>3, <3>4
  <2> QED BY <2>1, <2>2
<1>13. \A x \in Call : x # c /\ proc[x].pc \in Creating => proc'[x] = proc[x]
  BY <1>8 DEF wait, Creating
<1>14. pending' \in [Process -> [Key -> Call \cup {None}]] /\ PendingRuns'
  BY <1>1, <1>2, <1>13, ForgetLeavesRunning
<1>15. TypeOK' BY <1>9, <1>10, <1>11, <1>12, <1>14 DEF Inv, TypeOK
<1>16. CallsFit'
  <2> SUFFICES ASSUME NEW x \in Call
               PROVE  /\ ~(proc'[x].pc \in {"done", "failed"}) => ~sess'[x].settled
                      /\ proc'[x].pc = "wait" => proc'[x].on \in Call
                      /\ ~(proc'[x].pc \in {"done", "failed"}) /\ proc'[x].pc # "idle" =>
                           /\ proc'[x].at \in Process /\ <<proc'[x].cert, proc'[x].scopes>> \in Key
                           /\ proc'[x].scopes \in proc'[x].entitled
    BY DEF CallsFit, Ended, At, CacheKey
  <2>1. CASE proc'[x] = Done(c) BY <1>7, <2>1
  <2>2. CASE wait(x) /\ x # c /\ proc'[x] = open(x)
    BY <1>1, <1>5, <1>6, <1>9, <2>2 DEF CacheKey
  <2>3. CASE x # c /\ proc'[x] = proc[x] BY <1>9, <2>3 DEF Inv, CallsFit, Ended, At, CacheKey
  <2> QED BY <1>8, <2>1, <2>2, <2>3
<1>17. RepliesFit'
  <2> SUFFICES ASSUME NEW x \in Call, proc'[x].pc = "reply"
               PROVE  sess'[x].at = proc'[x].at /\ sess'[x].key = <<proc'[x].cert, proc'[x].scopes>>
    BY DEF RepliesFit, At, CacheKey
  <2>1. x # c /\ proc'[x] = proc[x] BY <1>6, <1>7, <1>8
  <2> QED BY <1>9, <2>1 DEF Inv, RepliesFit, At, CacheKey
<1>18. WaitsForRunning'
  <2> SUFFICES ASSUME NEW x \in Call, proc'[x].pc = "wait"
               PROVE  /\ proc[x].pc = "wait" /\ proc'[x].on = proc[x].on /\ Keeps(x)
                      /\ proc'[proc[x].on].pc \in Creating /\ Keeps(proc[x].on)
    BY WaitsStay
  <2>1. ~wait(x) /\ proc'[x] = proc[x] BY <1>6, <1>7, <1>8
  <2>2. proc[x].on \in Call /\ proc[x].on # c /\ proc[proc[x].on].pc \in Creating
    BY <2>1, AwaitedRuns DEF wait
  <2> QED BY <1>13, <2>1, <2>2 DEF Keeps
<1>19. ASSUME NEW x \in Call, Returns(x)
       PROVE  /\ proc[x].scopes \in proc[x].entitled
              /\ sess'[proc'[x].token].key = CacheKey(proc[x])
  <2>1. proc'[x].pc = "done" /\ proc[x].pc # "done" BY <1>19 DEF Returns, At
  <2>2. (x = c \/ wait(x)) /\ proc'[x] = Done(c) BY <1>6, <1>8, <2>1
  <2>3. sess'[proc'[x].token].key = j BY <1>7, <1>9, <2>2
  <2> QED BY <1>1, <1>5, <2>2, <2>3 DEF j
<1> QED BY <1>14, <1>15, <1>16, <1>17, <1>18, <1>19 DEF Inv

\* The answer of miniKMS, or its failure.
LEMMA SettleKeeps ==
  ASSUME Inv, NEW c \in Call, Settle(c)
  PROVE  /\ Inv'
         /\ \A x \in Call : Returns(x) =>
              /\ proc[x].scopes \in proc[x].entitled
              /\ sess'[proc'[x].token].key = CacheKey(proc[x])
<1>1. At(c, "reply") /\ proc[c].pc \in Creating /\ UNCHANGED <<serial, level, due, others, events>>
  BY DEF Settle, At, member, Creating
<1>2. CASE Resolve(c) BY <1>1, <1>2, ResolveKeeps
<1>3. CASE Reject(c) /\ UNCHANGED <<cache, sess>>
  <2>1. events' \in Nat BY <1>1 DEF Inv, TypeOK
  <2>2. Inv' BY <1>1, <1>3, <2>1, RejectKeeps
  <2>3. Failed.pc # "done" BY DEF Failed, NoFrame
  <2>4. \A x \in Call : ~Returns(x) BY <1>3, <2>3 DEF Reject, Returns, At
  <2> QED BY <2>2, <2>4
<1> QED BY <1>2, <1>3 DEF Settle

\* A call to miniKMS fails.
LEMMA FailKmsKeeps ==
  ASSUME Inv, NEW c \in Call, FailKms(c)
  PROVE  Inv' /\ \A x \in Call : ~Returns(x)
<1>1. /\ proc[c].pc \in Creating /\ Reject(c) /\ events' = events + 1
      /\ UNCHANGED <<serial, level, due, cache, sess, others>>
  BY DEF FailKms, member, Creating
<1>2. events' \in Nat BY <1>1 DEF Inv, TypeOK
<1>3. Failed.pc # "done" BY DEF Failed, NoFrame
<1>4. \A x \in Call : ~Returns(x) BY <1>1, <1>3 DEF Reject, Returns, At
<1> QED BY <1>1, <1>2, <1>4, RejectKeeps

\* The member changes: calls under way are entitled to what they were, and
\* to more.
LEMMA ChangeMemberKeeps ==
  ASSUME Inv, NEW a \in Process, ChangeMember(a)
  PROVE  Inv' /\ \A x \in Call : ~Returns(x)
<1>1. /\ UNCHANGED <<cache, pending, sess, others>> /\ due' = due \cup {a} /\ events' = events + 1
  BY DEF ChangeMember
<1>2. level' \in Level /\ serial' \in Serial
  BY VaultSessionsAssumption DEF ChangeMember, Inv, TypeOK, Serial
<1>3. Scopes(level') \in SUBSET Scope BY <1>2, ConstantsTyped
<1>4. \A x \in Call :
        /\ proc'[x] \in Frame /\ Keeps(x) /\ proc'[x].pc = proc[x].pc
        /\ proc'[x].on = proc[x].on /\ proc[x].entitled \subseteq proc'[x].entitled
  <2> TAKE x \in Call
  <2>1. proc[x] \in Frame BY DEF Inv, TypeOK
  <2>2. \/ proc'[x] = proc[x]
        \/ proc'[x] = [proc[x] EXCEPT !.entitled = @ \cup {Scopes(level')}]
    BY DEF ChangeMember
  <2>3. CASE proc'[x] = proc[x] BY <2>1, <2>3 DEF Keeps
  <2>4. CASE proc'[x] = [proc[x] EXCEPT !.entitled = @ \cup {Scopes(level')}]
    BY <1>3, <2>1, <2>4 DEF Keeps, Frame
  <2> QED BY <2>2, <2>3, <2>4
<1>5. proc' \in [Call -> Frame]
  <2>1. DOMAIN proc' = Call /\ proc' = [x \in Call |-> proc'[x]] BY DEF ChangeMember, Inv, TypeOK
  <2> QED BY <1>4, <2>1
<1>6. TypeOK' BY <1>1, <1>2, <1>5 DEF Inv, TypeOK
<1>7. CallsFit' BY <1>1, <1>4 DEF Inv, CallsFit, Ended, At, CacheKey, Keeps
<1>8. RepliesFit' BY <1>1, <1>4 DEF Inv, RepliesFit, At, CacheKey, Keeps
<1>9. PendingRuns' BY <1>1, <1>4, PendingStays
<1>10. WaitsForRunning' BY <1>4, AwaitedRuns, WaitsStay
<1> QED BY <1>4, <1>6, <1>7, <1>8, <1>9, <1>10 DEF Inv, Returns, At

\* A process forgets what it remembers.
LEMMA InvalidateKeeps ==
  ASSUME Inv, NEW a \in Process, InvalidateSessionToken(a)
  PROVE  Inv' /\ \A x \in Call : ~Returns(x)
<1>1. /\ UNCHANGED <<serial, level, sess, others, proc, events>> /\ due' = due \ {a}
      /\ cache' = [cache EXCEPT ![a] = [k \in Key |-> None]]
      /\ pending' = [pending EXCEPT ![a] = [k \in Key |-> None]]
  BY DEF InvalidateSessionToken
<1>2. \A b \in Process, k \in Key : /\ cache'[b][k] \in {cache[b][k], None}
                                     /\ pending'[b][k] \in {pending[b][k], None}
  BY <1>1 DEF Inv, TypeOK
<1>3. /\ cache' \in [Process -> [Key -> Call \cup {None}]]
      /\ pending' \in [Process -> [Key -> Call \cup {None}]]
  BY <1>1 DEF Inv, TypeOK
<1>4. TypeOK' BY <1>1, <1>2, <1>3 DEF Inv, TypeOK
<1>5. CallsFit' /\ RepliesFit' BY <1>1 DEF Inv, CallsFit, RepliesFit, Ended, At, CacheKey
<1>6. PendingRuns' BY <1>1, <1>2 DEF Inv, PendingRuns, CacheKey
<1>7. WaitsForRunning' BY <1>1 DEF Inv, WaitsForRunning, At, CacheKey
<1> QED BY <1>1, <1>4, <1>5, <1>6, <1>7 DEF Inv, Returns, At

\* Time runs out for a session.
LEMMA ExpireKeeps ==
  ASSUME Inv, NEW s \in Call, Expire(s)
  PROVE  Inv' /\ \A x \in Call : ~Returns(x)
<1>1. /\ UNCHANGED <<serial, level, due, cache, pending, others, proc, events>>
      /\ sess' = [sess EXCEPT ![s].left = "over", ![s].state = IF @ = "live" THEN "expired" ELSE @]
  BY DEF Expire, member
<1>2. \A x \in Call : /\ sess'[x] \in Session /\ sess'[x].settled = sess[x].settled
                       /\ sess'[x].at = sess[x].at /\ sess'[x].key = sess[x].key
  <2> TAKE x \in Call
  <2>1. sess[x] \in Session /\ sess \in [Call -> Session] BY DEF Inv, TypeOK
  <2>2. CASE x # s BY <1>1, <2>1, <2>2
  <2>3. CASE x = s BY <1>1, <2>1, <2>3 DEF Session
  <2> QED BY <2>2, <2>3
<1>3. sess' \in [Call -> Session]
  <2>1. DOMAIN sess' = Call /\ sess' = [x \in Call |-> sess'[x]] BY <1>1 DEF Inv, TypeOK
  <2> QED BY <1>2, <2>1
<1>4. \A a \in Process, k \in Key : cache[a][k] # None =>
        LET e == sess'[cache[a][k]] IN e.settled /\ e.at = a /\ e.key = k
  BY <1>2 DEF Inv, TypeOK
<1>5. TypeOK' BY <1>1, <1>3, <1>4 DEF Inv, TypeOK
<1>6. CallsFit' /\ RepliesFit' BY <1>1, <1>2 DEF Inv, CallsFit, RepliesFit, Ended, At, CacheKey
<1>7. PendingRuns' /\ WaitsForRunning'
  BY <1>1 DEF Inv, PendingRuns, WaitsForRunning, At, CacheKey
<1> QED BY <1>1, <1>5, <1>6, <1>7 DEF Inv, Returns, At

\* A process restarts: who waits elsewhere waits for a call elsewhere.
LEMMA RestartKeeps ==
  ASSUME Inv, NEW a \in Process, Restart(a)
  PROVE  Inv' /\ \A x \in Call : ~Returns(x)
<1>1. /\ UNCHANGED <<serial, level, sess, others>> /\ due' = due \ {a} /\ events' = events + 1
      /\ cache' = [cache EXCEPT ![a] = [k \in Key |-> None]]
      /\ pending' = [pending EXCEPT ![a] = [k \in Key |-> None]]
      /\ proc' = [c \in Call |-> IF proc[c].at = a THEN Failed ELSE proc[c]]
  BY DEF Restart
<1>2. \A b \in Process, k \in Key :
        /\ cache'[b][k] \in {cache[b][k], None}
        /\ IF b = a THEN pending'[b][k] = None ELSE pending'[b][k] = pending[b][k]
  BY <1>1 DEF Inv, TypeOK
<1>3. /\ cache' \in [Process -> [Key -> Call \cup {None}]]
      /\ pending' \in [Process -> [Key -> Call \cup {None}]]
  BY <1>1 DEF Inv, TypeOK
<1>4. \A x \in Call : proc'[x] = IF proc[x].at = a THEN Failed ELSE proc[x] BY <1>1
<1>5. proc' \in [Call -> Frame] /\ Failed.pc = "failed"
  BY <1>1, ConstantsTyped DEF Inv, TypeOK, Failed, NoFrame
<1>6. TypeOK' BY <1>1, <1>2, <1>3, <1>5 DEF Inv, TypeOK
<1>7. CallsFit' BY <1>1, <1>4, <1>5 DEF Inv, CallsFit, Ended, At, CacheKey
<1>8. RepliesFit' BY <1>1, <1>4, <1>5 DEF Inv, RepliesFit, At, CacheKey
<1>9. PendingRuns'
  <2> SUFFICES ASSUME NEW b \in Process, NEW k \in Key, pending'[b][k] # None
               PROVE  LET o == proc'[pending'[b][k]] IN
                      o.pc \in Creating /\ o.at = b /\ <<o.cert, o.scopes>> = k
    BY DEF PendingRuns, CacheKey
  <2>1. b # a /\ pending'[b][k] = pending[b][k] BY <1>2
  <2>2. pending[b][k] \in Call BY <2>1 DEF Inv, TypeOK
  <2>3. LET o == proc[pending[b][k]] IN o.pc \in Creating /\ o.at = b /\ <<o.cert, o.scopes>> = k
    BY <2>1 DEF Inv, PendingRuns, CacheKey
  <2> QED BY <1>4, <2>1, <2>2, <2>3
<1>10. WaitsForRunning'
  <2> SUFFICES ASSUME NEW x \in Call, proc'[x].pc = "wait"
               PROVE  /\ proc[x].pc = "wait" /\ proc'[x].on = proc[x].on /\ Keeps(x)
                      /\ proc'[proc[x].on].pc \in Creating /\ Keeps(proc[x].on)
    BY WaitsStay
  <2>1. proc'[x] = proc[x] /\ proc[x].at # a BY <1>4, <1>5
  <2>2. proc[x].on \in Call /\ proc[proc[x].on].pc \in Creating BY <2>1, AwaitedRuns
  <2>3. proc[proc[x].on].at = proc[x].at BY <2>1 DEF Inv, WaitsForRunning, At
  <2> QED BY <1>4, <2>1, <2>2, <2>3 DEF Keeps
<1>11. \A x \in Call : ~Returns(x) BY <1>4, <1>5 DEF Returns, At
<1> QED BY <1>6, <1>7, <1>8, <1>9, <1>10, <1>11 DEF Inv

-----------------------------------------------------------------------------

\* What every step does.
StepGoal ==
  /\ Inv'
  /\ \A x \in Call : Returns(x) =>
       /\ proc[x].scopes \in proc[x].entitled
       /\ sess'[proc'[x].token].key = CacheKey(proc[x])

\* Every step preserves the invariant, and a call that returns returns a
\* token for its own key, for scopes the member had during the call.
LEMMA InvStep ==
  ASSUME Inv, [Next]_vars
  PROVE  StepGoal
<1>1. ASSUME NEW c \in Call, NEW a \in Home[c], Begin(c, a) PROVE StepGoal
  <2>1. proc' = [proc EXCEPT ![c] = [NoFrame EXCEPT !.pc = "read", !.at = a, !.cert = serial,
                                   !.scopes = Scopes(level), !.entitled = {Scopes(level)}]]
    BY <1>1 DEF Begin
  <2>2. \A x \in Call : ~Returns(x) BY <2>1 DEF Inv, TypeOK, Returns, At, NoFrame
  <2> QED BY <1>1, <2>2, BeginKeeps DEF StepGoal
<1>2. ASSUME NEW c \in Call, Look(c) PROVE StepGoal
  <2>1. \A x \in Call : x # c => proc'[x] = proc[x] BY <1>2 DEF Look, Inv, TypeOK
  <2>2. \A x \in Call : x # c => ~Returns(x) BY <2>1 DEF Returns, At
  <2> QED BY <1>2, <2>2, LookKeeps DEF StepGoal
<1>3. ASSUME NEW c \in Call, Register(c) PROVE StepGoal
  <2>1. proc' = [proc EXCEPT ![c].pc = "create"] BY <1>3 DEF Register
  <2>2. \A x \in Call : ~Returns(x) BY <2>1 DEF Inv, TypeOK, Frame, Returns, At
  <2> QED BY <1>3, <2>2, RegisterKeeps DEF StepGoal
<1>4. ASSUME NEW c \in Call, CreateSession(c) PROVE StepGoal
  <2>1. Failed.pc # "done" BY DEF Failed, NoFrame
  <2>2. CASE Reject(c)
    <3>1. \A x \in Call : ~Returns(x) BY <2>1, <2>2 DEF Reject, Returns, At
    <3> QED BY <1>4, <3>1, CreateSessionKeeps DEF StepGoal
  <2>3. ASSUME NEW label \in {"recover", "reply"}, proc' = [proc EXCEPT ![c].pc = label] PROVE StepGoal
    <3>1. \A x \in Call : ~Returns(x) BY <2>3 DEF Inv, TypeOK, Frame, Returns, At
    <3> QED BY <1>4, <3>1, CreateSessionKeeps DEF StepGoal
  <2>4. Reject(c) \/ \E label \in {"recover", "reply"} : proc' = [proc EXCEPT ![c].pc = label]
    BY <1>4 DEF CreateSession
  <2> QED BY <2>2, <2>3, <2>4
<1>5. ASSUME NEW c \in Call, RevokeMemberSessions(c) PROVE StepGoal
  <2>1. proc' = [proc EXCEPT ![c].pc = "again"] BY <1>5 DEF RevokeMemberSessions
  <2>2. \A x \in Call : ~Returns(x) BY <2>1 DEF Inv, TypeOK, Frame, Returns, At
  <2> QED BY <1>5, <2>2, RevokeKeeps DEF StepGoal
<1>6. ASSUME NEW c \in Call, Settle(c) PROVE StepGoal BY <1>6, SettleKeeps DEF StepGoal
<1>7. ASSUME NEW c \in Call, FailKms(c) PROVE StepGoal BY <1>7, FailKmsKeeps DEF StepGoal
<1>8. ASSUME NEW c \in Call, Expire(c) PROVE StepGoal BY <1>8, ExpireKeeps DEF StepGoal
<1>9. ASSUME NEW a \in Process, ChangeMember(a) PROVE StepGoal BY <1>9, ChangeMemberKeeps DEF StepGoal
<1>10. ASSUME NEW a \in Process, InvalidateSessionToken(a) PROVE StepGoal BY <1>10, InvalidateKeeps DEF StepGoal
<1>11. ASSUME NEW a \in Process, Restart(a) PROVE StepGoal BY <1>11, RestartKeeps DEF StepGoal
<1>12. CASE UNCHANGED vars
  <2>1. UNCHANGED <<serial, level, due, cache, pending, sess, others, proc, events>>
    BY <1>12 DEF vars, member
  <2>2. TypeOK' BY <2>1 DEF Inv, TypeOK
  <2>3. CallsFit' /\ RepliesFit' BY <2>1 DEF Inv, CallsFit, RepliesFit, Ended, At, CacheKey
  <2>4. PendingRuns' /\ WaitsForRunning' BY <2>1 DEF Inv, PendingRuns, WaitsForRunning, At, CacheKey
  <2>5. \A x \in Call : ~Returns(x) BY <2>1 DEF Returns, At
  <2> QED BY <2>2, <2>3, <2>4, <2>5 DEF Inv, StepGoal
<1>13. CASE Next
  <2>1. ASSUME NEW c \in Call, Step(c) PROVE StepGoal
    BY <1>2, <1>3, <1>4, <1>5, <1>6, <2>1 DEF Step
  <2>2. CASE \E c \in Call : (\E a \in Home[c] : Begin(c, a)) \/ Step(c) \/ FailKms(c) \/ Expire(c)
    BY <1>1, <1>7, <1>8, <2>1, <2>2
  <2>3. CASE \E a \in Process : ChangeMember(a) \/ InvalidateSessionToken(a) \/ Restart(a)
    BY <1>9, <1>10, <1>11, <2>3
  <2> QED BY <1>13, <2>2, <2>3 DEF Next
<1>14. StepGoal BY <1>12, <1>13
<1> QED BY <1>14

\* The invariant holds of every behaviour.
LEMMA InvAlways == Spec => []Inv
<1>1. Inv /\ [Next]_vars => Inv' BY InvStep DEF StepGoal
<1> QED BY InvInit, <1>1, PTL DEF Spec

\* Types, and the integrity of the caches: a session is cached only under
\* its own key, in its own process, after it has been answered.
THEOREM TypeCorrect == Spec => []TypeOK
<1>1. Inv => TypeOK BY DEF Inv
<1> QED BY InvAlways, <1>1, PTL

\* Whoever waits, waits for a creation under way in its own process.
THEOREM WaitersAreServed == Spec => []WaitsForRunning
<1>1. Inv => WaitsForRunning BY DEF Inv
<1> QED BY InvAlways, <1>1, PTL

\* A token that is returned stands for the certificate its caller read and
\* for scopes the member had during the call.
THEOREM TokensWithinPermissions == Spec => TokenWithinPermissions
<1>1. Inv /\ [Next]_vars =>
        [\A c \in Call : Returns(c) =>
           /\ proc[c].scopes \in proc[c].entitled
           /\ sess'[proc'[c].token].key = <<proc[c].cert, proc[c].scopes>>]_vars
  BY InvStep DEF CacheKey, StepGoal
<1> QED BY InvAlways, <1>1, PTL DEF Spec, TokenWithinPermissions

-----------------------------------------------------------------------------
(* The token that is returned works, but for the recoveries the model names. *)

\* A session no later look into its cache entry returns.
Passed(s) == sess[s].left # "fresh" \/ cache[sess[s].at][sess[s].key] # s

\* A session has been created before it is answered, ages only afterwards,
\* and was cut by a recovery of its own key only after it had passed.
SessionFits(s) ==
  /\ sess[s].settled => sess[s].state # "none" /\ sess[s].at \in Process /\ sess[s].key \in Key
  /\ ~sess[s].settled => sess[s].state # "expired" /\ sess[s].left # "over" /\ sess[s].cut # "own"
  /\ sess[s].state = "expired" => sess[s].left = "over"
  /\ At(s, "reply") => sess[s].state # "none"
  /\ sess[s].cut = "own" => Passed(s)

\* What a creation saw settled when it looked into the cache had passed, if
\* it was of its own key.
SawFits(c) ==
  \A s \in proc[c].saw :
    /\ sess[s].settled
    /\ sess[s].at = proc[c].at /\ sess[s].key = CacheKey(proc[c]) => Passed(s)

TokenInv == Inv /\ \A c \in Call : SessionFits(c) /\ SawFits(c)

\* An answered session stays what it is, and once passed it is not cached again.
Remains(s) ==
  /\ sess'[s].settled /\ sess'[s].at = sess[s].at /\ sess'[s].key = sess[s].key
  /\ Passed(s) => Passed(s)'

\* The initial states satisfy the invariant.
LEMMA TokenInvInit == Init => TokenInv
<1> SUFFICES ASSUME Init PROVE TokenInv OBVIOUS
<1>1. ASSUME NEW c \in Call PROVE SessionFits(c) /\ SawFits(c)
  <2>1. sess[c] = NoSession /\ proc[c] = NoFrame BY DEF Init
  <2> QED BY <2>1 DEF SessionFits, SawFits, NoSession, NoFrame, At
<1> QED BY <1>1, InvInit DEF TokenInv

\* What a creation saw stays passed.
LEMMA SawStays ==
  ASSUME TokenInv, \A s \in Call : sess[s].settled => Remains(s),
         NEW x \in Call, proc'[x].saw = proc[x].saw, Keeps(x)
  PROVE  SawFits(x)'
<1> SUFFICES ASSUME NEW s \in proc[x].saw
             PROVE  /\ sess'[s].settled
                    /\ sess'[s].at = proc'[x].at /\ sess'[s].key = <<proc'[x].cert, proc'[x].scopes>> => Passed(s)'
  BY DEF SawFits, CacheKey
<1>1. s \in Call BY DEF TokenInv, Inv, TypeOK, Frame
<1>2. /\ sess[s].settled
      /\ sess[s].at = proc[x].at /\ sess[s].key = <<proc[x].cert, proc[x].scopes>> => Passed(s)
  BY DEF TokenInv, SawFits, CacheKey
<1> QED BY <1>1, <1>2 DEF Remains, Keeps

\* A session that no step touches still fits.
LEMMA SessionStays ==
  ASSUME TokenInv, NEW s \in Call, sess'[s] = sess[s], sess[s].settled => Remains(s),
         proc'[s].pc = "reply" => proc[s].pc = "reply"
  PROVE  SessionFits(s)'
<1>1. SessionFits(s) BY DEF TokenInv
<1>2. sess[s].cut = "own" => sess[s].settled /\ Passed(s) BY <1>1 DEF SessionFits
<1>3. sess'[s].cut = "own" => Passed(s)' BY <1>2 DEF Remains
<1> QED BY <1>1, <1>3 DEF SessionFits, At

\* A step that leaves the sessions alone and only empties cache entries.
LEMMA QuietKeeps ==
  ASSUME TokenInv, Inv', sess' = sess,
         \A a \in Process, k \in Key : cache'[a][k] \in {cache[a][k], None},
         \A x \in Call : /\ proc'[x].saw = {} \/ (proc'[x].saw = proc[x].saw /\ Keeps(x))
                         /\ proc'[x].pc = "reply" => proc[x].pc = "reply"
  PROVE  TokenInv'
<1>1. ASSUME NEW s \in Call, sess[s].settled PROVE Remains(s)
  <2>1. sess[s].at \in Process /\ sess[s].key \in Key BY <1>1 DEF TokenInv, SessionFits
  <2>2. s # None BY VaultSessionsAssumption
  <2> QED BY <1>1, <2>1, <2>2 DEF Remains, Passed
<1>2. ASSUME NEW x \in Call PROVE SessionFits(x)' BY <1>1, SessionStays
<1>3. ASSUME NEW x \in Call PROVE SawFits(x)'
  <2>1. CASE proc'[x].saw = {} BY <2>1 DEF SawFits
  <2>2. CASE proc'[x].saw = proc[x].saw /\ Keeps(x) BY <1>1, <2>2, SawStays
  <2> QED BY <2>1, <2>2
<1> QED BY <1>2, <1>3 DEF TokenInv

\* Where one frame changes and keeps what it saw, or drops it.
LEMMA QuietFrame ==
  ASSUME TokenInv, Inv', NEW c \in Call, UNCHANGED <<sess, cache>>,
         NEW f, proc' = [proc EXCEPT ![c] = f], f.pc # "reply",
         f.saw = {} \/ (f.saw = proc[c].saw /\ f.at = proc[c].at /\ f.cert = proc[c].cert /\ f.scopes = proc[c].scopes)
  PROVE  TokenInv'
<1>1. \A x \in Call : proc'[x] = IF x = c THEN f ELSE proc[x] BY DEF TokenInv, Inv, TypeOK
<1> QED BY <1>1, QuietKeeps DEF Keeps

\* A call looks into the memory of its process: what it saw settled is not
\* fresh in the cache, and what it returns is.
LEMMA LookTokens ==
  ASSUME TokenInv, Inv', NEW c \in Call, Look(c)
  PROVE  TokenInv' /\ (Returns(c) => LET s == sess[proc'[c].token] IN
                         s.state = "live" \/ (s.state = "revoked" /\ s.cut # "own"))
<1> DEFINE p == proc[c]
           k == CacheKey(p)
           hit == cache[p.at][k]
           promise == pending[p.at][k]
           f == [p EXCEPT !.pc = "open", !.saw = Settled]
           w == [p EXCEPT !.pc = "wait", !.on = promise]
<1>1. /\ p.pc = "read" /\ p \in Frame /\ p.at \in Process /\ k \in Key
  <2>1. p.pc = "read" BY DEF Look, At
  <2>2. p \in Frame BY DEF TokenInv, Inv, TypeOK
  <2> QED BY <2>1, <2>2 DEF At, TokenInv, Inv, CallsFit, Ended
<1>2. UNCHANGED <<cache, sess>> /\ hit \in Call \cup {None} BY <1>1 DEF Look, TokenInv, Inv, TypeOK
<1>3. \/ proc' = [proc EXCEPT ![c] = Failed]
      \/ hit # None /\ Fresh(hit) /\ proc' = [proc EXCEPT ![c] = Done(hit)]
      \/ proc' = [proc EXCEPT ![c] = w]
      \/ ~(hit # None /\ Fresh(hit)) /\ proc' = [proc EXCEPT ![c] = f]
  BY DEF Look
<1>4. /\ w.pc = "wait" /\ w.saw = p.saw /\ w.at = p.at /\ w.cert = p.cert /\ w.scopes = p.scopes
      /\ f.pc = "open" /\ f.saw = Settled /\ f.at = p.at /\ f.cert = p.cert /\ f.scopes = p.scopes
  BY <1>1 DEF Frame
<1> HIDE DEF f, w
<1>5. CASE proc' = [proc EXCEPT ![c] = Failed]
  <2>1. Failed.pc = "failed" /\ Failed.saw = {} BY DEF Failed, NoFrame
  <2>2. proc'[c].pc = "failed" BY <1>5, <2>1 DEF TokenInv, Inv, TypeOK
  <2> QED BY <1>2, <1>5, <2>1, <2>2, QuietFrame DEF Returns, At
<1>6. CASE hit # None /\ Fresh(hit) /\ proc' = [proc EXCEPT ![c] = Done(hit)]
  <2>1. Done(hit).pc = "done" /\ Done(hit).saw = {} /\ Done(hit).token = hit BY DEF Done, NoFrame
  <2>2. TokenInv' BY <1>2, <1>6, <2>1, QuietFrame
  <2>3. proc'[c].token = hit /\ hit \in Call BY <1>2, <1>6, <2>1 DEF TokenInv, Inv, TypeOK
  <2>4. sess[hit].settled /\ sess[hit].at = p.at /\ sess[hit].key = k
    BY <1>1, <1>6 DEF TokenInv, Inv, TypeOK
  <2>5. ~Passed(hit) /\ sess[hit].left = "fresh" BY <1>6, <2>4 DEF Passed, Fresh
  <2>6. sess[hit].state \notin {"none", "expired"} /\ sess[hit].cut # "own"
    BY <2>3, <2>4, <2>5 DEF TokenInv, SessionFits
  <2>7. sess[hit].state \in {"none", "live", "revoked", "expired"}
    BY <2>3 DEF TokenInv, Inv, TypeOK, Session
  <2> QED BY <2>2, <2>3, <2>6, <2>7
<1>7. CASE proc' = [proc EXCEPT ![c] = w]
  <2>1. TokenInv' BY <1>2, <1>4, <1>7, QuietFrame
  <2>2. proc'[c].pc = "wait" BY <1>4, <1>7 DEF TokenInv, Inv, TypeOK
  <2> QED BY <2>1, <2>2 DEF Returns, At
<1>8. CASE ~(hit # None /\ Fresh(hit)) /\ proc' = [proc EXCEPT ![c] = f]
  <2>1. \A x \in Call : proc'[x] = IF x = c THEN f ELSE proc[x] BY <1>8 DEF TokenInv, Inv, TypeOK
  <2>2. \A s \in Call : Passed(s) <=> Passed(s)' BY <1>2 DEF Passed
  <2>3. \A s \in Call : sess[s].settled => Remains(s) BY <1>2, <2>2 DEF Remains
  <2>4. \A x \in Call : SessionFits(x)' BY <1>2, <1>4, <2>1, <2>3, SessionStays
  <2>5. ASSUME NEW s \in Settled, sess[s].at = p.at, sess[s].key = k PROVE Passed(s)
    <3>1. s \in Call /\ s # None BY VaultSessionsAssumption DEF Settled
    <3> QED BY <1>8, <2>5, <3>1 DEF Passed, Fresh
  <2>6. SawFits(c)'
    <3> SUFFICES ASSUME NEW s \in Settled
                 PROVE  sess[s].settled /\ (sess[s].at = p.at /\ sess[s].key = k => Passed(s)')
      BY <1>2, <1>4, <2>1 DEF SawFits, CacheKey
    <3>1. s \in Call /\ sess[s].settled BY DEF Settled
    <3> QED BY <2>2, <2>5, <3>1
  <2>7. \A x \in Call : x # c => SawFits(x)' BY <2>1, <2>3, SawStays DEF Keeps
  <2>8. ~Returns(c) BY <1>4, <2>1 DEF Returns, At
  <2> QED BY <2>4, <2>6, <2>7, <2>8 DEF TokenInv
<1> QED BY <1>3, <1>5, <1>6, <1>7, <1>8

\* A session is created: unanswered, so nobody has seen it yet.
LEMMA CreateTokens ==
  ASSUME TokenInv, Inv', NEW c \in Call, CreateSession(c)
  PROVE  TokenInv'
<1>1. proc[c].pc \in Creating /\ cache' = cache BY DEF CreateSession, Creating
<1>2. CASE Reject(c) /\ sess' = sess
  <2>1. Failed.saw = {} /\ Failed.pc = "failed" BY DEF Failed, NoFrame
  <2>2. \A x \in Call : proc'[x] = Failed \/ proc'[x] = proc[x] BY <1>2 DEF Reject
  <2>3. \A a \in Process, k \in Key : cache'[a][k] \in {cache[a][k], None} BY <1>1
  <2> QED BY <1>2, <2>1, <2>2, <2>3, QuietKeeps DEF Keeps
<1>3. CASE proc' = [proc EXCEPT ![c].pc = "recover"] /\ sess' = sess
  <2>1. proc[c] \in Frame BY DEF TokenInv, Inv, TypeOK
  <2> DEFINE f == [proc[c] EXCEPT !.pc = "recover"]
  <2>2. /\ f.pc # "reply" /\ f.saw = proc[c].saw /\ f.at = proc[c].at /\ f.cert = proc[c].cert
        /\ f.scopes = proc[c].scopes
    BY <2>1 DEF Frame
  <2>3. proc' = [proc EXCEPT ![c] = f] BY <1>3
  <2> HIDE DEF f
  <2> QED BY <1>1, <1>3, <2>2, <2>3, QuietFrame
<1>4. ASSUME NEW l \in Life, proc' = [proc EXCEPT ![c].pc = "reply"],
             sess' = [sess EXCEPT ![c] = [NoSession EXCEPT !.state = "live", !.left = l,
                                              !.at = proc[c].at, !.key = CacheKey(proc[c])]]
      PROVE TokenInv'
  <2> DEFINE n == [NoSession EXCEPT !.state = "live", !.left = l,
                                    !.at = proc[c].at, !.key = CacheKey(proc[c])]
  <2>1. /\ n.state = "live" /\ n.left = l /\ ~n.settled /\ n.cut = "none"
        /\ l \in {"fresh", "near"}
    BY VaultSessionsAssumption DEF NoSession
  <2>2. sess' = [sess EXCEPT ![c] = n] BY <1>4
  <2> HIDE DEF n
  <2>3. \A x \in Call : sess'[x] = IF x = c THEN n ELSE sess[x] BY <2>2 DEF TokenInv, Inv, TypeOK
  <2>4. ~sess[c].settled BY <1>1 DEF TokenInv, Inv, CallsFit, Ended, Creating
  <2>5. \A x \in Call : /\ x # c => proc'[x] = proc[x]
                        /\ proc'[x].saw = proc[x].saw /\ Keeps(x)
    <3>1. proc[c] \in Frame /\ proc' = [proc EXCEPT ![c].pc = "reply"] BY <1>4 DEF TokenInv, Inv, TypeOK
    <3>2. proc'[c] = [proc[c] EXCEPT !.pc = "reply"] BY <3>1 DEF TokenInv, Inv, TypeOK
    <3>3. proc'[c].saw = proc[c].saw /\ Keeps(c) BY <3>1, <3>2 DEF Frame, Keeps
    <3>4. \A x \in Call : x # c => proc'[x] = proc[x] BY <3>1
    <3> QED BY <3>3, <3>4 DEF Keeps
  <2>6. \A s \in Call : sess[s].settled => Remains(s)
    BY <1>1, <2>3, <2>4 DEF Remains, Passed
  <2>7. SessionFits(c)' BY <2>1, <2>3 DEF SessionFits
  <2>8. ASSUME NEW x \in Call PROVE SessionFits(x)'
    <3>1. CASE x = c BY <2>7, <3>1
    <3>2. CASE x # c BY <2>3, <2>5, <2>6, <3>2, SessionStays
    <3> QED BY <3>1, <3>2
  <2>9. \A x \in Call : SawFits(x)' BY <2>5, <2>6, SawStays
  <2> QED BY <2>8, <2>9 DEF TokenInv
<1>5. \/ Reject(c) /\ sess' = sess
      \/ proc' = [proc EXCEPT ![c].pc = "recover"] /\ sess' = sess
      \/ \E l \in Life : /\ proc' = [proc EXCEPT ![c].pc = "reply"]
                         /\ sess' = [sess EXCEPT ![c] = [NoSession EXCEPT !.state = "live", !.left = l,
                                              !.at = proc[c].at, !.key = CacheKey(proc[c])]]
  BY DEF CreateSession
<1> QED BY <1>2, <1>3, <1>4, <1>5

\* Recovery cuts as its own only what the call saw in its first look, and
\* that had passed then.
LEMMA RevokeTokens ==
  ASSUME TokenInv, Inv', NEW c \in Call, RevokeMemberSessions(c)
  PROVE  TokenInv'
<1>1. /\ sess' = [s \in Call |-> IF s \in Live THEN [sess[s] EXCEPT !.state = "revoked", !.cut = Cut(c, s)]
                             ELSE sess[s]]
      /\ proc' = [proc EXCEPT ![c].pc = "again"] /\ cache' = cache
  BY DEF RevokeMemberSessions
<1>2. ASSUME NEW s \in Call
      PROVE  /\ sess'[s].settled = sess[s].settled /\ sess'[s].at = sess[s].at
             /\ sess'[s].key = sess[s].key /\ sess'[s].left = sess[s].left
             /\ \/ sess'[s] = sess[s]
                \/ sess'[s].state = "revoked" /\ sess'[s].cut = Cut(c, s)
  <2>1. sess[s] \in Session BY DEF TokenInv, Inv, TypeOK
  <2>2. sess'[s] = IF s \in Live THEN [sess[s] EXCEPT !.state = "revoked", !.cut = Cut(c, s)]
                   ELSE sess[s]
    BY <1>1
  <2> QED BY <2>1, <2>2 DEF Session
<1>3. \A s \in Call : Passed(s) <=> Passed(s)' BY <1>1, <1>2 DEF Passed
<1>4. \A s \in Call : sess[s].settled => Remains(s) BY <1>2, <1>3 DEF Remains
<1>5. \A x \in Call : /\ proc'[x].saw = proc[x].saw /\ Keeps(x)
                      /\ proc'[x].pc = "reply" => proc[x].pc = "reply"
  <2>1. proc[c] \in Frame /\ proc'[c] = [proc[c] EXCEPT !.pc = "again"]
    BY <1>1 DEF TokenInv, Inv, TypeOK
  <2>2. proc'[c].saw = proc[c].saw /\ Keeps(c) /\ proc'[c].pc = "again" BY <2>1 DEF Frame, Keeps
  <2>3. \A x \in Call : x # c => proc'[x] = proc[x] BY <1>1 DEF TokenInv, Inv, TypeOK
  <2> QED BY <2>2, <2>3 DEF Keeps
<1>6. ASSUME NEW s \in Call PROVE SessionFits(s)'
  <2>1. CASE sess'[s] = sess[s] BY <1>4, <1>5, <2>1, SessionStays
  <2>2. CASE sess'[s].state = "revoked" /\ sess'[s].cut = Cut(c, s)
    <3>1. Cut(c, s) = "own" => sess[s].settled /\ Passed(s)
      <4>1. Cut(c, s) = "own" => /\ sess[s].at = proc[c].at /\ sess[s].key = CacheKey(proc[c])
                                 /\ s \in proc[c].saw
        BY DEF Cut
      <4> QED BY <4>1 DEF TokenInv, SawFits
    <3>2. SessionFits(s) BY DEF TokenInv
    <3>3. sess'[s].cut = "own" => sess'[s].settled /\ Passed(s)' BY <1>2, <1>3, <2>2, <3>1
    <3> QED BY <1>2, <2>2, <3>2, <3>3 DEF SessionFits
  <2> QED BY <1>2, <2>1, <2>2
<1>7. \A x \in Call : SawFits(x)' BY <1>4, <1>5, SawStays
<1> QED BY <1>6, <1>7 DEF TokenInv

\* A session enters the cache while it is unanswered; those that look again
\* do so because it is not fresh.
LEMMA ResolveTokens ==
  ASSUME TokenInv, Inv', NEW c \in Call, At(c, "reply"), Resolve(c)
  PROVE  TokenInv' /\ \A x \in Call : Returns(x) => LET s == sess[proc'[x].token] IN
                         s.state = "live" \/ (s.state = "revoked" /\ s.cut # "own")
<1> DEFINE b == proc[c].at
           j == CacheKey(proc[c])
           open(x) == [proc[x] EXCEPT !.pc = "open", !.saw = Settled \cup {c}]
<1>1. /\ ~sess[c].settled /\ b \in Process /\ j \in Key /\ sess[c].at = b /\ sess[c].key = j
  BY DEF At, TokenInv, Inv, CallsFit, RepliesFit, Ended
<1>2. sess[c].state \in {"live", "revoked"} /\ sess[c].cut # "own"
  <2>1. sess[c].state \in {"none", "live", "revoked", "expired"} BY DEF TokenInv, Inv, TypeOK, Session
  <2> QED BY <1>1, <2>1 DEF TokenInv, SessionFits
<1>3. cache' = [cache EXCEPT ![b][j] = c] /\ cache \in [Process -> [Key -> Call \cup {None}]]
  BY DEF Resolve, TokenInv, Inv, TypeOK
<1>4. \A x \in Call : x # c => sess'[x] = sess[x] BY DEF Resolve, TokenInv, Inv, TypeOK
<1>5. /\ sess'[c].settled /\ sess'[c].at = b /\ sess'[c].key = j /\ sess'[c].state = sess[c].state
      /\ sess'[c].cut = sess[c].cut /\ sess'[c].left = sess[c].left
  <2>1. sess[c] \in Session /\ sess'[c] = [sess[c] EXCEPT !.settled = TRUE]
    BY DEF Resolve, TokenInv, Inv, TypeOK
  <2> QED BY <1>1, <2>1 DEF Session
<1>6. \A x \in Call : \/ (x = c \/ proc[x].pc = "wait") /\ proc'[x] = Done(c)
                      \/ /\ x # c /\ proc[x].pc = "wait" /\ proc[x].on = c /\ ~Fresh(c)
                         /\ proc'[x] = open(x)
                      \/ x # c /\ proc'[x] = proc[x]
  BY DEF Resolve, Waiters, At
<1>7. Done(c).pc = "done" /\ Done(c).saw = {} /\ Done(c).token = c BY DEF Done, NoFrame
<1>8. \A x \in Call : /\ open(x).pc = "open" /\ open(x).saw = Settled \cup {c}
                      /\ open(x).at = proc[x].at /\ open(x).cert = proc[x].cert
                      /\ open(x).scopes = proc[x].scopes
  <2> TAKE x \in Call
  <2>1. proc[x] \in Frame BY DEF TokenInv, Inv, TypeOK
  <2> QED BY <2>1 DEF Frame
<1> HIDE DEF b, j, open
<1>9. \A a \in Process, k \in Key : cache'[a][k] = IF a = b /\ k = j THEN c ELSE cache[a][k]
  BY <1>1, <1>3
<1>10. ASSUME NEW s \in Call, sess[s].settled PROVE Remains(s)
  <2>1. s # c /\ sess'[s] = sess[s] BY <1>1, <1>4, <1>10
  <2>2. sess[s].at \in Process /\ sess[s].key \in Key BY <1>10 DEF TokenInv, SessionFits
  <2>3. Passed(s) => Passed(s)' BY <1>9, <2>1, <2>2 DEF Passed
  <2> QED BY <1>10, <2>1, <2>3 DEF Remains
<1>11. ASSUME NEW s \in Call PROVE SessionFits(s)'
  <2>1. CASE s = c
    BY <1>1, <1>2, <1>5, <2>1 DEF SessionFits
  <2>2. CASE s # c
    <3>1. proc'[s].pc = "reply" => proc[s].pc = "reply" BY <1>6, <1>7, <1>8
    <3> QED BY <1>4, <1>10, <2>2, <3>1, SessionStays
  <2> QED BY <2>1, <2>2
<1>12. ASSUME NEW x \in Call PROVE SawFits(x)'
  <2>1. CASE proc'[x] = Done(c) BY <1>7, <2>1 DEF SawFits
  <2>2. CASE x # c /\ proc'[x] = proc[x] BY <1>10, <2>2, SawStays DEF Keeps
  <2>3. CASE x # c /\ proc[x].pc = "wait" /\ proc[x].on = c /\ ~Fresh(c) /\ proc'[x] = open(x)
    <3>1. proc[x].at = b /\ <<proc[x].cert, proc[x].scopes>> = j
      BY <2>3 DEF b, j, TokenInv, Inv, WaitsForRunning, At, CacheKey
    <3> SUFFICES ASSUME NEW s \in Settled \cup {c}
                 PROVE  sess'[s].settled /\ (sess'[s].at = b /\ sess'[s].key = j => Passed(s)')
      BY <1>8, <2>3, <3>1 DEF SawFits, CacheKey
    <3>2. CASE s = c BY <1>5, <2>3, <3>2 DEF Passed, Fresh
    <3>3. CASE s # c
      <4>1. s \in Call /\ sess[s].settled BY <3>3 DEF Settled
      <4>2. sess'[s] = sess[s] BY <1>4, <3>3, <4>1
      <4>3. cache'[b][j] = c BY <1>1, <1>9
      <4> QED BY <3>3, <4>1, <4>2, <4>3 DEF Passed
    <3> QED BY <3>2, <3>3
  <2> QED BY <1>6, <2>1, <2>2, <2>3
<1>13. ASSUME NEW x \in Call, Returns(x) PROVE proc'[x].token = c
  <2>1. proc'[x].pc = "done" /\ proc[x].pc # "done" BY <1>13 DEF Returns, At
  <2> QED BY <1>6, <1>7, <1>8, <2>1
<1> QED BY <1>2, <1>11, <1>12, <1>13 DEF TokenInv

\* Time runs out for an answered session, which passes with it.
LEMMA ExpireTokens ==
  ASSUME TokenInv, Inv', NEW e \in Call, Expire(e)
  PROVE  TokenInv'
<1>1. /\ sess' = [sess EXCEPT ![e].left = "over", ![e].state = IF @ = "live" THEN "expired" ELSE @]
      /\ UNCHANGED <<cache, proc>> /\ sess[e].settled
  BY DEF Expire
<1>2. \A x \in Call : x # e => sess'[x] = sess[x] BY <1>1 DEF TokenInv, Inv, TypeOK
<1>3. /\ sess'[e].left = "over" /\ sess'[e].settled /\ sess'[e].at = sess[e].at
      /\ sess'[e].key = sess[e].key /\ (sess'[e].state = sess[e].state \/ sess'[e].state = "expired")
  <2>1. sess[e] \in Session /\ sess \in [Call -> Session] BY DEF TokenInv, Inv, TypeOK
  <2> QED BY <1>1, <2>1 DEF Session
<1>4. \A s \in Call : sess[s].settled => Remains(s)
  BY <1>1, <1>2, <1>3 DEF Remains, Passed
<1>5. SessionFits(e)'
  <2>1. Passed(e)' BY <1>3 DEF Passed
  <2>2. SessionFits(e) BY DEF TokenInv
  <2> QED BY <1>1, <1>3, <2>1, <2>2 DEF SessionFits
<1>6. ASSUME NEW x \in Call PROVE SessionFits(x)' /\ SawFits(x)'
  <2>1. SawFits(x)' BY <1>1, <1>4, SawStays DEF Keeps
  <2>2. CASE x = e BY <1>5, <2>1, <2>2
  <2>3. CASE x # e BY <1>1, <1>2, <1>4, <2>1, <2>3, SessionStays
  <2> QED BY <2>2, <2>3
<1> QED BY <1>6 DEF TokenInv

\* What every step does: it keeps the invariant, and a call that returns
\* returns a token that works.
TokenGoal ==
  /\ TokenInv'
  /\ \A x \in Call : Returns(x) => LET s == sess[proc'[x].token] IN
       s.state = "live" \/ (s.state = "revoked" /\ s.cut # "own")

LEMMA TokenStep ==
  ASSUME TokenInv, [Next]_vars
  PROVE  TokenGoal
<1>0. Inv /\ Inv' BY InvStep DEF TokenInv, StepGoal
<1>1. ASSUME NEW c \in Call, NEW a \in Home[c], Begin(c, a) PROVE TokenGoal
  <2> DEFINE f == [NoFrame EXCEPT !.pc = "read", !.at = a, !.cert = serial,
                                  !.scopes = Scopes(level), !.entitled = {Scopes(level)}]
  <2>1. f.pc = "read" /\ f.saw = {} BY DEF NoFrame
  <2>2. proc' = [proc EXCEPT ![c] = f] /\ UNCHANGED <<sess, cache>> BY <1>1 DEF Begin
  <2> HIDE DEF f
  <2>3. TokenInv' BY <1>0, <2>1, <2>2, QuietFrame
  <2>4. \A x \in Call : ~Returns(x) BY <2>1, <2>2 DEF TokenInv, Inv, TypeOK, Returns, At
  <2> QED BY <2>3, <2>4 DEF TokenGoal
<1>2. ASSUME NEW c \in Call, Look(c) PROVE TokenGoal
  <2>1. \A x \in Call : x # c => proc'[x] = proc[x] BY <1>2 DEF Look, TokenInv, Inv, TypeOK
  <2>2. \A x \in Call : x # c => ~Returns(x) BY <2>1 DEF Returns, At
  <2> QED BY <1>0, <1>2, <2>2, LookTokens DEF TokenGoal
<1>3. ASSUME NEW c \in Call, Register(c) PROVE TokenGoal
  <2>1. proc[c] \in Frame BY DEF TokenInv, Inv, TypeOK
  <2> DEFINE f == [proc[c] EXCEPT !.pc = "create"]
  <2>2. /\ f.pc = "create" /\ f.saw = proc[c].saw /\ f.at = proc[c].at /\ f.cert = proc[c].cert
        /\ f.scopes = proc[c].scopes
    BY <2>1 DEF Frame
  <2>3. proc' = [proc EXCEPT ![c] = f] /\ UNCHANGED <<sess, cache>> BY <1>3 DEF Register
  <2> HIDE DEF f
  <2>4. TokenInv' BY <1>0, <2>2, <2>3, QuietFrame
  <2>5. \A x \in Call : ~Returns(x) BY <2>2, <2>3 DEF TokenInv, Inv, TypeOK, Returns, At
  <2> QED BY <2>4, <2>5 DEF TokenGoal
<1>4. ASSUME NEW c \in Call, CreateSession(c) PROVE TokenGoal
  <2>1. Failed.pc # "done" BY DEF Failed, NoFrame
  <2>2. CASE Reject(c)
    <3>1. \A x \in Call : ~Returns(x) BY <2>1, <2>2 DEF Reject, Returns, At
    <3> QED BY <1>0, <1>4, <3>1, CreateTokens DEF TokenGoal
  <2>3. ASSUME NEW label \in {"recover", "reply"}, proc' = [proc EXCEPT ![c].pc = label] PROVE TokenGoal
    <3>1. \A x \in Call : ~Returns(x) BY <2>3 DEF TokenInv, Inv, TypeOK, Frame, Returns, At
    <3> QED BY <1>0, <1>4, <3>1, CreateTokens DEF TokenGoal
  <2>4. Reject(c) \/ \E label \in {"recover", "reply"} : proc' = [proc EXCEPT ![c].pc = label]
    BY <1>4 DEF CreateSession
  <2> QED BY <2>2, <2>3, <2>4
<1>5. ASSUME NEW c \in Call, RevokeMemberSessions(c) PROVE TokenGoal
  <2>1. proc' = [proc EXCEPT ![c].pc = "again"] BY <1>5 DEF RevokeMemberSessions
  <2>2. \A x \in Call : ~Returns(x) BY <2>1 DEF TokenInv, Inv, TypeOK, Frame, Returns, At
  <2> QED BY <1>0, <1>5, <2>2, RevokeTokens DEF TokenGoal
<1>6. ASSUME NEW c \in Call, Reject(c), UNCHANGED <<cache, sess>> PROVE TokenGoal
  <2>1. Failed.saw = {} /\ Failed.pc = "failed" BY DEF Failed, NoFrame
  <2>2. \A x \in Call : proc'[x] = Failed \/ proc'[x] = proc[x] BY <1>6 DEF Reject
  <2>3. \A a \in Process, k \in Key : cache'[a][k] \in {cache[a][k], None} BY <1>6
  <2>4. TokenInv' BY <1>0, <1>6, <2>1, <2>2, <2>3, QuietKeeps DEF Keeps
  <2>5. \A x \in Call : ~Returns(x) BY <2>1, <2>2 DEF Returns, At
  <2> QED BY <2>4, <2>5 DEF TokenGoal
<1>7. ASSUME NEW c \in Call, Settle(c) PROVE TokenGoal
  <2>1. At(c, "reply") BY <1>7 DEF Settle
  <2>2. CASE Resolve(c) BY <1>0, <2>1, <2>2, ResolveTokens DEF TokenGoal
  <2>3. CASE Reject(c) /\ UNCHANGED <<cache, sess>> BY <1>6, <2>3
  <2> QED BY <1>7, <2>2, <2>3 DEF Settle
<1>8. ASSUME NEW c \in Call, FailKms(c) PROVE TokenGoal BY <1>6, <1>8 DEF FailKms
<1>9. ASSUME NEW e \in Call, Expire(e) PROVE TokenGoal
  BY <1>0, <1>9, ExpireTokens, ExpireKeeps DEF TokenGoal
<1>10. ASSUME NEW a \in Process, ChangeMember(a) PROVE TokenGoal
  <2>1. ASSUME NEW x \in Call
        PROVE  proc'[x].saw = proc[x].saw /\ Keeps(x) /\ proc'[x].pc = proc[x].pc
    <3>1. proc[x] \in Frame BY DEF TokenInv, Inv, TypeOK
    <3>2. \/ proc'[x] = proc[x]
          \/ proc'[x] = [proc[x] EXCEPT !.entitled = @ \cup {Scopes(level')}]
      BY <1>10 DEF ChangeMember
    <3> QED BY <3>1, <3>2 DEF Frame, Keeps
  <2>2. sess' = sess /\ \A b \in Process, k \in Key : cache'[b][k] \in {cache[b][k], None}
    BY <1>10 DEF ChangeMember
  <2>3. TokenInv' BY <1>0, <2>1, <2>2, QuietKeeps
  <2> QED BY <1>0, <1>10, <2>3, ChangeMemberKeeps DEF TokenGoal
<1>11. ASSUME NEW a \in Process, InvalidateSessionToken(a) PROVE TokenGoal
  <2>1. \A b \in Process, k \in Key : cache'[b][k] \in {cache[b][k], None}
    BY <1>11 DEF InvalidateSessionToken, TokenInv, Inv, TypeOK
  <2>2. UNCHANGED <<sess, proc>> BY <1>11 DEF InvalidateSessionToken
  <2>3. TokenInv' BY <1>0, <2>1, <2>2, QuietKeeps DEF Keeps
  <2> QED BY <1>0, <1>11, <2>3, InvalidateKeeps DEF TokenGoal
<1>12. ASSUME NEW a \in Process, Restart(a) PROVE TokenGoal
  <2>1. \A b \in Process, k \in Key : cache'[b][k] \in {cache[b][k], None}
    BY <1>12 DEF Restart, TokenInv, Inv, TypeOK
  <2>2. sess' = sess /\ \A x \in Call : proc'[x] = Failed \/ proc'[x] = proc[x] BY <1>12 DEF Restart
  <2>3. Failed.saw = {} /\ Failed.pc = "failed" BY DEF Failed, NoFrame
  <2>4. TokenInv' BY <1>0, <2>1, <2>2, <2>3, QuietKeeps DEF Keeps
  <2> QED BY <1>0, <1>12, <2>4, RestartKeeps DEF TokenGoal
<1>13. CASE UNCHANGED vars
  <2>1. UNCHANGED <<cache, sess, proc>> BY <1>13 DEF vars
  <2>2. \A b \in Process, k \in Key : cache'[b][k] \in {cache[b][k], None} BY <2>1
  <2>3. TokenInv' BY <1>0, <2>1, <2>2, QuietKeeps DEF Keeps
  <2>4. \A x \in Call : ~Returns(x) BY <2>1 DEF Returns, At
  <2> QED BY <2>3, <2>4 DEF TokenGoal
<1>14. CASE Next
  <2>1. ASSUME NEW c \in Call, Step(c) PROVE TokenGoal
    BY <1>2, <1>3, <1>4, <1>5, <1>7, <2>1 DEF Step
  <2>2. CASE \E c \in Call : (\E a \in Home[c] : Begin(c, a)) \/ Step(c) \/ FailKms(c) \/ Expire(c)
    BY <1>1, <1>8, <1>9, <2>1, <2>2
  <2>3. CASE \E a \in Process : ChangeMember(a) \/ InvalidateSessionToken(a) \/ Restart(a)
    BY <1>10, <1>11, <1>12, <2>3
  <2> QED BY <1>14, <2>2, <2>3 DEF Next
<1> QED BY <1>13, <1>14

\* A token that is returned has not expired, and no recovery of its own
\* process and key has revoked it, but one whose call had looked into the
\* cache before the session was there.
THEOREM ReturnedTokensWork == Spec => ReturnedTokenWorks
<1>1. TokenInv /\ [Next]_vars => TokenInv' BY TokenStep DEF TokenGoal
<1>2. TokenInv /\ [Next]_vars =>
        [\A c \in Call : Returns(c) => LET s == sess[proc'[c].token] IN
           s.state = "live" \/ (s.state = "revoked" /\ s.cut # "own")]_vars
  BY TokenStep DEF TokenGoal
<1> QED BY TokenInvInit, <1>1, <1>2, PTL DEF Spec, ReturnedTokenWorks
=============================================================================
