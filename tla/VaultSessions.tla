---------------------------- MODULE VaultSessions ----------------------------
(* The vault sessions of one member: getVaultSessionToken with its cache   *)
(* and its pending creations, both kept in the memory of each API process, *)
(* invalidateSessionToken, and the sessions miniKMS holds.                 *)
EXTENDS Integers, FiniteSets

CONSTANTS
  Process,     \* API processes
  Call,        \* calls of getVaultSessionToken, numbered; a call names its session too
  Home,        \* the processes that may serve each call
  Level,       \* permission levels of the member that occur
  Life,        \* what is left of a new session: "fresh" (over 60 s) or "near"
  Limit,       \* active sessions miniKMS allows a member
  None,
  MaxSerial, MaxEvents   \* bounds

ASSUME VaultSessionsAssumption ==
  /\ Level \subseteq {"none", "view", "edit", "admin"} /\ Life \subseteq {"fresh", "near"}
  /\ {Limit, MaxSerial, MaxEvents} \subseteq Nat
  /\ Call \subseteq Nat /\ None \notin Call /\ Home \in [Call -> SUBSET Process]

Scope == {"vault:read", "vault:write", "vault:delete"}
Serial == 0 .. MaxSerial           \* 0: no active system certificate

VARIABLES
  serial,    \* the newest active system certificate of the member
  level,     \* what OpenFGA grants the member
  cache,     \* sessionCache of each process, by key
  pending,   \* pendingSessionCreates of each process: the call whose promise it is
  due,       \* processes that changed the member and have yet to invalidate
  sess,      \* the sessions at miniKMS, by the call that created them
  others,    \* sessions of the member that no call here created
  proc,      \* one frame per call; entitled is auxiliary: the scopes the
             \* member had during the call
  events     \* changes of the member, failures and restarts, counted

member == <<serial, level, due>>
vars == <<member, cache, pending, sess, others, proc, events>>

NoSession == [state |-> "none", left |-> "fresh", at |-> None, key |-> None,
              settled |-> FALSE, cut |-> "none"]
NoFrame == [pc |-> "idle", at |-> None, cert |-> 0, scopes |-> {},
            on |-> None, token |-> None, saw |-> {},
            entitled |-> {}]
Failed == [NoFrame EXCEPT !.pc = "failed"]
Done(s) == [NoFrame EXCEPT !.pc = "done", !.token = s]

\* getRequiredScopes.
Scopes(l) ==
  (IF l # "none" THEN {"vault:read"} ELSE {})
  \cup (IF l \in {"edit", "admin"} THEN {"vault:write"} ELSE {})
  \cup (IF l = "admin" THEN {"vault:delete"} ELSE {})

Key == Serial \X {Scopes(l) : l \in Level}

\* Faulty variant: the key leaves out the scopes.
CacheKeyBySerial(p) == <<p.cert, Scopes("view")>>
CacheKey(p) == <<p.cert, p.scopes>>

Init ==
  /\ serial \in {0, 1} \cap Serial /\ level \in Level
  /\ cache = [a \in Process |-> [k \in Key |-> None]]
  /\ pending = [a \in Process |-> [k \in Key |-> None]]
  /\ due = {}
  /\ sess = [c \in Call |-> NoSession]
  /\ others \in 0 .. Limit
  /\ proc = [c \in Call |-> NoFrame]
  /\ events = 0

-----------------------------------------------------------------------------

At(c, label) == proc[c].pc = label
Ended(c) == proc[c].pc \in {"done", "failed"}
Live == {s \in Call : sess[s].state = "live"}
Settled == {s \in Call : sess[s].settled}

\* A call in process a reads the certificate and the permissions, side by
\* side: one step, since neither read depends on the other.
Begin(c, a) ==
  /\ At(c, "idle") /\ \A d \in Call : d < c => ~At(d, "idle")
  /\ proc' = [proc EXCEPT ![c] = [NoFrame EXCEPT !.pc = "read", !.at = a, !.cert = serial,
                                   !.scopes = Scopes(level), !.entitled = {Scopes(level)}]]
  /\ UNCHANGED <<member, cache, pending, sess, others, events>>

\* Faulty variant: any cached session is handed out.
FreshAlways(s) == s \in Call

\* isSessionNearExpiry, which holds while more than 60 s are left.
Fresh(s) == sess[s].left = "fresh"

Look(c) ==
  LET p == proc[c]
      k == CacheKey(p)
      hit == cache[p.at][k]
      promise == pending[p.at][k] IN
  /\ At(c, "read")
  /\ proc' = [proc EXCEPT ![c] =
       IF p.cert = 0 \/ p.scopes = {} THEN Failed
       ELSE IF hit # None /\ Fresh(hit) THEN Done(hit)
       ELSE IF promise # None THEN [p EXCEPT !.pc = "wait", !.on = promise]
       ELSE [p EXCEPT !.pc = "open", !.saw = Settled]]
  /\ UNCHANGED <<member, cache, pending, sess, others, events>>

\* After KMSClient.getInstance.
Register(c) ==
  /\ At(c, "open")
  /\ pending' = [pending EXCEPT ![proc[c].at][CacheKey(proc[c])] = c]
  /\ proc' = [proc EXCEPT ![c].pc = "create"]
  /\ UNCHANGED <<member, cache, sess, others, events>>

Waiters(c) == {w \in Call : At(w, "wait") /\ proc[w].on = c}

\* The finally: the entry of the key goes, whosever promise it is.
Forget(c) == pending' = [pending EXCEPT ![proc[c].at][CacheKey(proc[c])] = None]

\* Faulty variant: those that wait are left waiting.
RejectAlone(c) ==
  /\ proc' = [proc EXCEPT ![c] = Failed]
  /\ Forget(c)

\* The promise is rejected: its creator throws, and those that wait for it.
Reject(c) ==
  /\ proc' = [x \in Call |-> IF x = c \/ x \in Waiters(c) THEN Failed ELSE proc[x]]
  /\ Forget(c)

\* CreateSession at miniKMS: refused at the limit, filtered by the role of
\* the certificate.
CreateSession(c) ==
  /\ proc[c].pc \in {"create", "again"}
  /\ IF Cardinality(Live) + others >= Limit
     THEN /\ IF At(c, "create")
             THEN proc' = [proc EXCEPT ![c].pc = "recover"] /\ UNCHANGED pending
             ELSE Reject(c)
          /\ UNCHANGED sess
     ELSE /\ \E l \in Life :
               sess' = [sess EXCEPT ![c] = [NoSession EXCEPT !.state = "live", !.left = l,
                                              !.at = proc[c].at, !.key = CacheKey(proc[c])]]
          /\ proc' = [proc EXCEPT ![c].pc = "reply"]
          /\ UNCHANGED pending
  /\ UNCHANGED <<member, cache, others, events>>

\* Why recovery by call c cuts session s short.
Cut(c, s) ==
  IF sess[s].at # proc[c].at THEN "process"
  ELSE IF sess[s].key # CacheKey(proc[c]) THEN "key"
  ELSE IF s \notin proc[c].saw THEN "overlap" ELSE "own"

\* revokeMemberSessions: every session of the member, whoever holds it.
RevokeMemberSessions(c) ==
  /\ At(c, "recover")
  /\ sess' = [s \in Call |-> IF s \in Live THEN [sess[s] EXCEPT !.state = "revoked", !.cut = Cut(c, s)]
                             ELSE sess[s]]
  /\ others' = 0
  /\ proc' = [proc EXCEPT ![c].pc = "again"]
  /\ UNCHANGED <<member, cache, pending, events>>

\* Faulty variant: the key is computed anew.
ResolveUnderNewKey(c) ==
  /\ cache' = [cache EXCEPT ![proc[c].at][<<serial, Scopes(level)>>] = c]
  /\ sess' = [sess EXCEPT ![c].settled = TRUE]
  /\ proc' = [x \in Call |-> IF x = c \/ x \in Waiters(c) THEN Done(c) ELSE proc[x]]
  /\ Forget(c)

\* The session enters the cache and the promise resolves: its creator
\* returns it, those that wait return it while it is fresh.
Resolve(c) ==
  /\ cache' = [cache EXCEPT ![proc[c].at][CacheKey(proc[c])] = c]
  /\ sess' = [sess EXCEPT ![c].settled = TRUE]
  /\ proc' = [x \in Call |->
       IF x = c \/ (x \in Waiters(c) /\ Fresh(c)) THEN Done(c)
       ELSE IF x \in Waiters(c) THEN [proc[x] EXCEPT !.pc = "open", !.saw = Settled \cup {c}]
       ELSE proc[x]]
  /\ Forget(c)

\* The scopes miniKMS granted miss a required one, or not.
Settle(c) ==
  /\ At(c, "reply")
  /\ \/ Resolve(c)
     \/ "vault:delete" \in proc[c].scopes /\ Reject(c) /\ UNCHANGED <<cache, sess>>
  /\ UNCHANGED <<member, others, events>>

\* A call to miniKMS fails, with or without its effect.
FailKms(c) ==
  /\ proc[c].pc \in {"create", "recover", "again", "reply"} /\ events < MaxEvents
  /\ events' = events + 1
  /\ Reject(c)
  /\ UNCHANGED <<member, cache, sess, others>>

-----------------------------------------------------------------------------
(* Around the calls, while there is a call to see it.                      *)

\* A process changes what the member may do, or issues a certificate, and
\* invalidates in its own memory afterwards.
ChangeMember(a) ==
  /\ (\E c \in Call : ~Ended(c)) /\ events < MaxEvents /\ events' = events + 1
  /\ due' = due \cup {a}
  /\ \/ /\ level' \in Level \ {level} /\ UNCHANGED serial
        /\ proc' = [c \in Call |-> IF At(c, "idle") \/ Ended(c) THEN proc[c]
                                   ELSE [proc[c] EXCEPT !.entitled = @ \cup {Scopes(level')}]]
     \/ serial < MaxSerial /\ serial' = serial + 1 /\ UNCHANGED <<level, proc>>
  /\ UNCHANGED <<cache, pending, sess, others>>

InvalidateSessionToken(a) ==
  /\ a \in due /\ due' = due \ {a}
  /\ cache' = [cache EXCEPT ![a] = [k \in Key |-> None]]
  /\ pending' = [pending EXCEPT ![a] = [k \in Key |-> None]]
  /\ UNCHANGED <<serial, level, sess, others, proc, events>>

\* The time of a session runs out, once it has been answered.
Expire(s) ==
  /\ \E c \in Call : ~Ended(c)
  /\ sess[s].settled /\ sess[s].left # "over"
  /\ sess' = [sess EXCEPT ![s].left = "over", ![s].state = IF @ = "live" THEN "expired" ELSE @]
  /\ UNCHANGED <<member, cache, pending, others, proc, events>>

\* A process restarts: its memory and its calls are gone, the sessions stay.
Restart(a) ==
  /\ events < MaxEvents /\ events' = events + 1
  /\ cache' = [cache EXCEPT ![a] = [k \in Key |-> None]]
  /\ pending' = [pending EXCEPT ![a] = [k \in Key |-> None]]
  /\ due' = due \ {a}
  /\ proc' = [c \in Call |-> IF proc[c].at = a THEN Failed ELSE proc[c]]
  /\ UNCHANGED <<serial, level, sess, others>>

Step(c) ==
  \/ Look(c) \/ Register(c) \/ CreateSession(c)
  \/ RevokeMemberSessions(c) \/ Settle(c)

Next ==
  \/ \E c \in Call : (\E a \in Home[c] : Begin(c, a)) \/ Step(c) \/ FailKms(c) \/ Expire(c)
  \/ \E a \in Process : ChangeMember(a) \/ InvalidateSessionToken(a) \/ Restart(a)

Spec == Init /\ [][Next]_vars

-----------------------------------------------------------------------------
(* Properties.                                                             *)

Session == [state : {"none", "live", "revoked", "expired"}, left : {"fresh", "near", "over"},
            at : Process \cup {None}, key : Key \cup {None}, settled : BOOLEAN,
            cut : {"none", "process", "key", "overlap", "own"}]
Creating == {"create", "recover", "again", "reply"}
Frame == [pc : Creating \cup {"idle", "read", "open", "wait", "done", "failed"},
          at : Process \cup {None}, cert : Serial, scopes : SUBSET Scope,
          on : Call \cup {None}, token : Call \cup {None}, saw : SUBSET Call,
          entitled : SUBSET SUBSET Scope]

\* The types, and that a session is cached only under its own key, in its
\* own process, after it has been answered.
TypeOK ==
  /\ serial \in Serial /\ level \in Level /\ due \subseteq Process /\ others \in 0 .. Limit
  /\ cache \in [Process -> [Key -> Call \cup {None}]]
  /\ pending \in [Process -> [Key -> Call \cup {None}]]
  /\ sess \in [Call -> Session] /\ proc \in [Call -> Frame]
  /\ events \in Nat
  /\ \A a \in Process, k \in Key : cache[a][k] # None =>
       LET s == sess[cache[a][k]] IN s.settled /\ s.at = a /\ s.key = k

Returns(c) == ~At(c, "done") /\ At(c, "done")'

\* A token stands for the scopes and the certificate its caller is entitled
\* to: even when it comes from the cache, from another call's creation, or
\* entered the cache after an invalidation that should have removed it, the
\* member had its scopes at some moment of the very call that returns it.
TokenWithinPermissions ==
  [][\A c \in Call : Returns(c) =>
       /\ proc[c].scopes \in proc[c].entitled
       /\ sess'[proc'[c].token].key = <<proc[c].cert, proc[c].scopes>>]_vars

\* A token that is returned has not expired, and it has not been revoked
\* unless the recovery from the session limit that revoked it ran in another
\* process, for another key, or in a call that had looked into the cache
\* before the session entered it.
ReturnedTokenWorks ==
  [][\A c \in Call : Returns(c) =>
       LET s == sess[proc'[c].token] IN s.state = "live" \/ (s.state = "revoked" /\ s.cut # "own")]_vars

\* A call that waits, waits for a creation that is still under way in its
\* own process, though invalidations, restarts and the removal of somebody
\* else's entry may have made that creation unknown to later calls: nobody
\* waits for ever, and creations do not wait for each other.
WaitsForRunning ==
  \A c \in Call : At(c, "wait") =>
    LET o == proc[proc[c].on] IN
    /\ o.pc \in Creating
    /\ o.at = proc[c].at /\ CacheKey(o) = CacheKey(proc[c])
=============================================================================
