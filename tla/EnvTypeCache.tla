---------------------------- MODULE EnvTypeCache ----------------------------
(***************************************************************************)
(* One environment type and its entry in the shared cache.  getEnvType is  *)
(* a cache-aside read (get, on a miss load the row, set with a TTL); the   *)
(* guard of every direct mutation, assertMutableEnvType, decides on what   *)
(* it returns.  updateEnvType and deleteEnvType change the row first and   *)
(* delete the cache entry last.  Cache errors are logged and swallowed.    *)
(***************************************************************************)
EXTENDS FiniteSets

CONSTANTS Caller,      \* API calls in progress
          CacheFaults  \* which of "cache", "fga", "crash" may happen

Nothing == "nothing"   \* no cache entry, nothing read
Row == {"open", "protected", "gone"}   \* env_type.is_protected, or no row
Cached == {"open", "protected", Nothing}

\* What a call is for: a direct mutation, or a change of the environment type.
Intent == {"mutate", "open", "protected", "gone"}

\* pc names the await a call is about to make; "guard" is the decision of
\* assertMutableEnvType or of the env type controller on the row it got.
PC == {"idle", "get", "load", "set", "guard", "check", "change", "reread", "cleanup", "invalidate"}

CallRecord == [pc : PC, intent : Intent, got : Cached, since : SUBSET Row, old : Row \cup {Nothing}]

NoCall == [pc |-> "idle", intent |-> "mutate", got |-> Nothing, since |-> {}, old |-> Nothing]

VARIABLES
  row,     \* the env_type row
  cache,   \* CacheKeys.envType(id)
  call,    \* one record per caller. since: auxiliary, the rows a correct
           \* read may return; old: auxiliary, the row this call replaced
  excused  \* auxiliary: the cache entry was set late, or outlived its
           \* invalidation because that failed

cacheVars == <<row, cache, call, excused>>

CacheTypeOK ==
  /\ row \in Row
  /\ cache \in Cached
  /\ call \in [Caller -> CallRecord]
  /\ excused \in BOOLEAN

CacheInit ==
  /\ row \in {"open", "protected"}
  /\ cache = Nothing
  /\ call = [h \in Caller |-> NoCall]
  /\ excused = FALSE

Goto(h, label) == call' = [call EXCEPT ![h].pc = label]
Return(h) == call' = [call EXCEPT ![h] = NoCall]

-----------------------------------------------------------------------------
(* cacheAside, as used by getEnvType.                                      *)

\* Every call starts with getEnvType. A change that has not returned yet
\* may be seen or not.
Start(h, intent) ==
  /\ call[h].pc = "idle"
  /\ call' = [call EXCEPT ![h] = [NoCall EXCEPT
       !.pc = "get", !.intent = intent,
       !.since = {row} \cup ({call[g].old : g \in Caller} \ {Nothing})]]
  /\ UNCHANGED <<row, cache, excused>>

CacheGet(h) ==
  /\ call[h].pc = "get"
  /\ \/ cache # Nothing /\ call' = [call EXCEPT ![h].got = cache, ![h].pc = "guard"]
     \/ cache = Nothing /\ Goto(h, "load")
     \/ "cache" \in CacheFaults /\ Goto(h, "load")
  /\ UNCHANGED <<row, cache, excused>>

\* Faulty variant: the loader hands on what it found, a missing row too.
LoadMissingToo(h) ==
  /\ call[h].pc = "load"
  /\ call' = [call EXCEPT ![h].got = row, ![h].pc = "set"]
  /\ UNCHANGED <<row, cache, excused>>

\* The loader; NotFoundError is not cached.
Load(h) ==
  /\ call[h].pc = "load"
  /\ \/ row # "gone" /\ call' = [call EXCEPT ![h].got = row, ![h].pc = "set"]
     \/ row = "gone" /\ Return(h)
  /\ UNCHANGED <<row, cache, excused>>

\* SETEX.
CacheSet(h) ==
  /\ call[h].pc = "set"
  /\ Goto(h, "guard")
  /\ \/ cache' = call[h].got /\ excused' = (call[h].got # row)
     \/ "cache" \in CacheFaults /\ UNCHANGED <<cache, excused>>
  /\ UNCHANGED row

\* Faulty variant: the entry has no time to live.
ExpireNever == FALSE /\ UNCHANGED cacheVars

\* The TTL (CacheTTL.SHORT) runs out.
Expire ==
  /\ cache # Nothing
  /\ cache' = Nothing
  /\ excused' = FALSE
  /\ UNCHANGED <<row, call>>

\* assertMutableEnvType lets a direct mutation pass or refuses it; the env
\* type controller goes on to the service.
Guard(h) ==
  /\ call[h].pc = "guard"
  /\ \/ call[h].intent = "mutate" /\ Return(h)
     \/ call[h].intent # "mutate" /\ Goto(h, "check")
  /\ UNCHANGED <<row, cache, excused>>

-----------------------------------------------------------------------------
(* updateEnvType and deleteEnvType.                                        *)

\* orNotFound on the row itself.
CheckRow(h) ==
  /\ call[h].pc = "check"
  /\ \/ row # "gone" /\ Goto(h, "change")
     \/ row = "gone" /\ Return(h)
  /\ UNCHANGED <<row, cache, excused>>

\* The UPDATE or DELETE statement; an UPDATE of a row deleted meanwhile
\* changes nothing.
ChangeRow(h) ==
  LET new == IF row = "gone" THEN "gone" ELSE call[h].intent IN
  /\ call[h].pc = "change"
  /\ row' = new
  /\ call' = [g \in Caller |->
       IF g = h
       THEN [call[h] EXCEPT !.pc = IF call[h].intent = "gone" THEN "cleanup" ELSE "reread",
                           !.old = IF row = new THEN Nothing ELSE row]
       ELSE IF call[g].pc = "idle" THEN call[g] ELSE [call[g] EXCEPT !.since = @ \cup {new}]]
  /\ UNCHANGED <<cache, excused>>

\* The updated row is read again and returned; deleted meanwhile, it throws
\* and nothing is invalidated here.
Reread(h) ==
  /\ call[h].pc = "reread"
  /\ \/ row # "gone" /\ Goto(h, "invalidate") /\ UNCHANGED excused
     \/ row = "gone" /\ Return(h) /\ excused' = (excused \/ cache # Nothing)
  /\ UNCHANGED <<row, cache>>

\* deleteResourceTuples. When it fails the saga has nothing to compensate
\* and ends before its last step.
Cleanup(h) ==
  /\ call[h].pc = "cleanup"
  /\ \/ Goto(h, "invalidate") /\ UNCHANGED excused
     \/ "fga" \in CacheFaults /\ Return(h) /\ excused' = (excused \/ cache # Nothing)
  /\ UNCHANGED <<row, cache>>

\* Faulty variant: only the lists of the organization are invalidated.
InvalidateListsOnly(h) ==
  /\ call[h].pc = "invalidate"
  /\ Return(h)
  /\ UNCHANGED <<row, cache, excused>>

Invalidate(h) ==
  /\ call[h].pc = "invalidate"
  /\ Return(h)
  /\ \/ cache' = Nothing /\ excused' = FALSE
     \/ "cache" \in CacheFaults /\ UNCHANGED cache /\ excused' = (excused \/ cache # Nothing)
  /\ UNCHANGED row

\* The API process dies.
CrashCall(h) ==
  /\ "crash" \in CacheFaults
  /\ call[h].pc # "idle"
  /\ Return(h)
  /\ excused' = (excused \/ (call[h].old # Nothing /\ cache # Nothing))
  /\ UNCHANGED <<row, cache>>

-----------------------------------------------------------------------------
Step(h) ==
  \/ CacheGet(h) \/ Load(h) \/ CacheSet(h) \/ Guard(h)
  \/ CheckRow(h) \/ ChangeRow(h) \/ Reread(h) \/ Cleanup(h) \/ Invalidate(h)

CacheNext ==
  \/ Expire
  \/ \E h \in Caller : Step(h) \/ CrashCall(h) \/ \E intent \in Intent : Start(h, intent)

CacheSpec == CacheInit /\ [][CacheNext]_cacheVars

\* Calls that were started go on, and the cache honours the TTL.
CacheFairSpec == CacheSpec /\ WF_cacheVars(Expire) /\ \A h \in Caller : WF_cacheVars(Step(h))

-----------------------------------------------------------------------------
(* Properties.                                                             *)

Stale == cache \notin {Nothing, row}

Changing(h) == call[h].pc \in {"change", "reread", "cleanup", "invalidate"}

\* A stale cache entry has one of four causes: a change that has not come to
\* its invalidation, a reader that loaded the row before a change and cached
\* it after, an invalidation that failed or was never reached, and nothing
\* else. In particular a finished change leaves no entry of its own behind.
StaleHasCause == Stale => excused \/ \E h \in Caller : call[h].old # Nothing

\* Once changes stop, the cache comes to agree with the row and stays so,
\* late readers, failed invalidations and crashes included.
Converges ==
  <>[](\A h \in Caller : ~Changing(h)) => <>[]~Stale

\* "Protected environments require a change request": a direct mutation that
\* starts after the change to protected has returned finds it protected.
ProtectedIsSeen ==
  \A h \in Caller :
    call[h].pc = "guard" /\ call[h].intent = "mutate" /\ call[h].got = "open"
      => "open" \in call[h].since
=============================================================================
