-------------------------- MODULE TenantKeys_proofs --------------------------
(***************************************************************************)
(* Type correctness of TenantKeys, that a rewrap job never has two         *)
(* workers, that the key of a DEK is lost only for a named cause, and that *)
(* row, sidecar and DEKs agree at rest unless a cause has struck, for any  *)
(* number of processes, calls, keys, crashes and failures.                 *)
(***************************************************************************)
EXTENDS TenantKeys, TLAPS

\* The frame of an idle process and the row of a managed organization are typed.
LEMMA IdleTyped == IdleFrame \in Frame /\ ManagedRow \in Row
  BY DEF IdleFrame, Frame, ManagedRow, Row, PC, Status

\* Every call and worker runs in a process.
LEMMA HostTyped == \A p \in Proc : HostOf[p] \in Host
  BY DEF Host

\* Goto and Return keep the frames typed.
LEMMA FrameSteps ==
  ASSUME TypeOK, NEW p \in Proc, NEW label \in PC
  PROVE  /\ Goto(p, label) => proc' \in [Proc -> Frame]
         /\ Return(p) => proc' \in [Proc -> Frame]
         /\ Leave(p, label) => proc' \in [Proc -> Frame]
  BY IdleTyped DEF TypeOK, Goto, Return, Leave, Frame

\* Forget keeps kekCache typed.
LEMMA ForgetTyped ==
  ASSUME TypeOK, NEW p \in Proc, Forget(p)
  PROVE  cache' \in [Host -> {"none", "dual", "only"}]
  BY HostTyped DEF TypeOK, Forget

\* Recording a known cause keeps causes typed.
LEMMA BlameTyped ==
  ASSUME TypeOK, NEW c \in Cause, NEW b \in BOOLEAN, Blame(c, b)
  PROVE  causes' \in SUBSET Cause
  BY DEF TypeOK, Blame

\* Changing the status of the row or of the job keeps it typed.
LEMMA StatusTyped ==
  ASSUME TypeOK, NEW s \in Status, NEW t \in {"pending", "running", "succeeded", "failed"}
  PROVE  [row EXCEPT !.status = s] \in Row /\ [job EXCEPT !.status = t] \in Job
  BY DEF TypeOK, Row, Job

\* A typed frame stays typed when it goes to a label with what it loaded.
LEMMA FrameTyped ==
  ASSUME NEW f \in Frame, NEW label \in PC, NEW r \in Row, NEW s \in Status, NEW k \in Kek \cup {NoKek}
  PROVE  /\ [f EXCEPT !.pc = label, !.at = r] \in Frame
         /\ [f EXCEPT !.pc = label, !.previous = s] \in Frame
         /\ [f EXCEPT !.pc = label, !.at = r, !.previous = s] \in Frame
         /\ [f EXCEPT !.kek = k, !.at = r, !.pc = label] \in Frame
         /\ [f EXCEPT !.pc = label, !.holds = TRUE, !.previous = s] \in Frame
         /\ \A n \in Nat, b \in BOOLEAN :
              [f EXCEPT !.pc = label, !.stale = n, !.undo = b, !.previous = s] \in Frame
<1>1. [f EXCEPT !.pc = label, !.at = r] \in Frame BY DEF Frame
<1>2. [f EXCEPT !.pc = label, !.previous = s] \in Frame BY DEF Frame
<1>3. [f EXCEPT !.pc = label, !.at = r, !.previous = s] \in Frame BY DEF Frame
<1>4. [f EXCEPT !.kek = k, !.at = r, !.pc = label] \in Frame BY DEF Frame
<1>5. [f EXCEPT !.pc = label, !.holds = TRUE, !.previous = s] \in Frame BY DEF Frame
<1>6. ASSUME NEW n \in Nat, NEW b \in BOOLEAN
      PROVE  [f EXCEPT !.pc = label, !.stale = n, !.undo = b, !.previous = s] \in Frame
  BY DEF Frame
<1> QED BY <1>1, <1>2, <1>3, <1>4, <1>5, <1>6

\* The same for one process among all.
LEMMA LoadTyped ==
  ASSUME TypeOK, NEW p \in Proc, NEW f \in Frame, proc' = [proc EXCEPT ![p] = f]
  PROVE  proc' \in [Proc -> Frame]
  BY DEF TypeOK

\* What the sidecar is sent, and a job that is enqueued, are typed.
LEMMA SentTyped ==
  ASSUME NEW k \in Kek \cup {NoKek}, NEW b \in BOOLEAN
  PROVE  [kek |-> k, root |-> b] \in [kek : Kek \cup {NoKek}, root : BOOLEAN]
  OBVIOUS

LEMMA JobTyped ==
  ASSUME NEW k \in {"dek_rewrap", "detach_managed"}, NEW s \in Status, NEW b \in BOOLEAN
  PROVE  [kind |-> k, status |-> "pending", previous |-> s, warmup |-> b] \in Job
  BY DEF Job

\* What a process holds is typed.
LEMMA ParsTyped ==
  ASSUME TypeOK, NEW p \in Proc
  PROVE  /\ proc[p].at \in Row /\ proc[p].previous \in Status
         /\ proc[p] \in Frame /\ row \in Row
         /\ proc[p].kek \in Kek \cup {NoKek} /\ proc[p].cloud \in CloudKey \cup {"managed"}
         /\ proc[p].at.status \in Status /\ proc[p].at.source \in CloudKey \cup {"managed"}
         /\ proc[p].at.wrapped \in Kek \cup {NoKek}
         /\ row.status \in Status /\ row.wrapped \in Kek \cup {NoKek} /\ job.previous \in Status
  BY DEF TypeOK, Frame, Row, Job

\* Jobs are counted from nothing.
JobsAreCounted == jobs \in Nat

LEMMA JobsCounted == Spec => []JobsAreCounted
<1>1. Init => JobsAreCounted BY DEF Init, JobsAreCounted
<1>2. JobsAreCounted /\ [Next]_vars => JobsAreCounted'
  <2> SUFFICES ASSUME jobs \in Nat, [Next]_vars PROVE jobs' = jobs \/ jobs' = jobs + 1
    BY DEF JobsAreCounted
  <2>1. ASSUME NEW p \in Proc, Step(p) PROVE jobs' = jobs
    BY <2>1 DEF Step, counters, SelectStale, Reclaim, Revert, Abort, LoadKek, StoreKek
  <2>2. ASSUME NEW c \in Call, Serve(c) PROVE jobs' = jobs \/ jobs' = jobs + 1
    BY <2>2 DEF Serve, counters, Check, LoadForPut, WriteCloud, LoadForPutManaged, WriteManaged, LoadConfig,
       MarkUnavailable, EnqueueAttach, EnqueueDetach, NewJob, LoadForTenant, SetForTenant, UseDek
  <2>3. ASSUME NEW w \in Worker, Work(w) PROVE jobs' = jobs
    BY <2>3 DEF Work, counters, Claim, LoadJobRow, EndJob, SetForAttach, RewrapToKek, MarkAttachSucceeded,
       Warmup, RewrapToRoot, ClearAfterDetach, ResetToManaged
  <2> QED BY <2>1, <2>2, <2>3 DEF Next, Begin, Expire, Crash, counters, vars
<1> QED BY <1>1, <1>2, PTL DEF Spec

LEMMA TypeStep ==
  ASSUME TypeOK, jobs \in Nat, [Next]_vars
  PROVE  TypeOK'
<1>1. ASSUME NEW c \in Call, NEW op \in Ops, NEW k \in CloudKey \cup {"managed"}, Begin(c, op, k)
      PROVE  TypeOK'
  <2>1. DEFINE f == [IdleFrame EXCEPT !.op = op, !.cloud = k, !.pc =
          IF op \in {"put", "putManaged", "attach", "detach", "breakGlass"} THEN "reclaim" ELSE "load"]
  <2>2. f \in Frame BY IdleTyped, OpsAreOperations DEF Frame, PC
  <2>3. c \in Proc BY DEF Proc
  <2>4. proc' = [proc EXCEPT ![c] = f] BY <1>1 DEF Begin
  <2> QED BY <1>1, <2>2, <2>3, <2>4 DEF TypeOK, Begin
<1>2. ASSUME NEW p \in Proc, Check(p) PROVE TypeOK'
  BY <1>2, FrameSteps DEF TypeOK, Check, PC
<1>3. ASSUME NEW p \in Proc, Reclaim(p) PROVE TypeOK'
  <2>1. AfterReclaim(p) \in PC /\ "revert" \in PC BY DEF AfterReclaim, PC
  <2>2. proc' \in [Proc -> Frame] BY <1>3, <2>1, FrameSteps DEF Reclaim
  <2>3. job' \in Job BY <1>3, StatusTyped DEF Reclaim, TypeOK, Status
  <2> QED BY <1>3, <2>2, <2>3 DEF TypeOK, Reclaim
<1>32. ASSUME NEW p \in Proc, SelectStale(p) PROVE TypeOK'
  <2> DEFINE f == [proc[p] EXCEPT !.pc = "stale", !.stale = jobs,
                     !.undo = job.kind = "dek_rewrap", !.previous = job.previous]
  <2>1. "stale" \in PC /\ (job.kind = "dek_rewrap") \in BOOLEAN BY DEF PC
  <2>2. f \in Frame BY <2>1, FrameTyped, ParsTyped
  <2>3. proc' = [proc EXCEPT ![p] = f] BY <1>32 DEF SelectStale
  <2>4. proc' \in [Proc -> Frame] BY <2>2, <2>3, LoadTyped
  <2> QED BY <1>32, <2>4 DEF TypeOK, SelectStale
<1>4. ASSUME NEW p \in Proc, Revert(p) PROVE TypeOK'
  <2>1. proc' \in [Proc -> Frame] BY <1>4, FrameSteps DEF Revert, PC
  <2>2. row' \in Row BY <1>4, StatusTyped, ParsTyped DEF Revert, TypeOK, Status
  <2>3. cache' \in [Host -> {"none", "dual", "only"}] BY <1>4, ForgetTyped DEF Revert, TypeOK
  <2>4. causes' \in SUBSET Cause BY <1>4, BlameTyped DEF Revert, Cause
  <2> QED BY <1>4, <2>1, <2>2, <2>3, <2>4 DEF TypeOK, Revert
<1>5. ASSUME NEW p \in Proc, Abort(p) PROVE TypeOK'
  <2>1. proc' \in [Proc -> Frame] BY <1>5, FrameSteps DEF Abort, AfterReclaim, PC
  <2>2. causes' \in SUBSET Cause BY <1>5, BlameTyped DEF Abort, Cause, TypeOK
  <2>3. sidecar' \in [kek : Kek \cup {NoKek}, root : BOOLEAN] BY <1>5, SentTyped DEF Abort, TypeOK
  <2> QED BY <1>5, <2>1, <2>2, <2>3 DEF TypeOK, Abort
<1>6. ASSUME NEW p \in Proc, LoadForPut(p) PROVE TypeOK'
  BY <1>6, FrameSteps DEF TypeOK, LoadForPut, PC, Frame
<1>7. ASSUME NEW p \in Proc, WriteCloud(p) PROVE TypeOK'
  <2>1. proc' \in [Proc -> Frame] BY <1>7, FrameSteps DEF WriteCloud, PC
  <2>2. row' \in Row
    BY <1>7, ParsTyped DEF WriteCloud, TypeOK, Row, NextCloudPutStatus, Status
  <2>3. causes' \in SUBSET Cause BY <1>7, BlameTyped DEF WriteCloud, Cause
  <2> QED BY <1>7, <2>1, <2>2, <2>3 DEF TypeOK, WriteCloud
<1>8. ASSUME NEW p \in Proc, LoadForPutManaged(p) PROVE TypeOK'
  BY <1>8, FrameSteps DEF TypeOK, LoadForPutManaged, PC, Frame
<1>9. ASSUME NEW p \in Proc, WriteManaged(p) PROVE TypeOK'
  <2>1. proc' \in [Proc -> Frame] BY <1>9, FrameSteps DEF WriteManaged, PC
  <2>2. cache' \in [Host -> {"none", "dual", "only"}] BY <1>9, ForgetTyped DEF WriteManaged
  <2>3. causes' \in SUBSET Cause BY <1>9, BlameTyped DEF WriteManaged, Cause
  <2> QED BY <1>9, IdleTyped, <2>1, <2>2, <2>3 DEF TypeOK, WriteManaged
<1>10. ASSUME NEW p \in Proc, LoadConfig(p) PROVE TypeOK'
  <2>1. proc' \in [Proc -> Frame] 
    <3>0. {"enqueue", "kek"} \subseteq PC BY DEF PC
    <3>1. \A l \in {"enqueue", "kek"} : [proc[p] EXCEPT !.pc = l, !.at = row, !.previous = row.status] \in Frame
      BY <3>0, FrameTyped, ParsTyped
    <3>2. CASE Return(p) BY <3>2, FrameSteps DEF PC
    <3>3. CASE \E l \in {"enqueue", "kek"} :
                 proc' = [proc EXCEPT ![p] = [@ EXCEPT !.pc = l, !.at = row, !.previous = row.status]]
      BY <3>1, <3>3, LoadTyped
    <3> QED BY <1>10, <3>2, <3>3 DEF LoadConfig
  <2> QED BY <1>10, <2>1 DEF TypeOK, LoadConfig
<1>11. ASSUME NEW p \in Proc, LoadKek(p) PROVE TypeOK'
  <2>1. AfterError(p) \in PC /\ AfterKek(p) \in PC BY DEF AfterError, AfterKek, PC
  <2>2. used' \in SUBSET Kek BY <1>11 DEF LoadKek, TypeOK
  <2>3. "store" \in PC BY DEF PC
  <2>4. [proc EXCEPT ![p] = IdleFrame] \in [Proc -> Frame] BY IdleTyped DEF TypeOK
  <2>5. \A k \in Kek \cup {NoKek}, l \in PC : [proc[p] EXCEPT !.kek = k, !.at = row, !.pc = l] \in Frame
    BY FrameTyped, ParsTyped
  <2>6. proc' \in [Proc -> Frame]
    <3>1. CASE Leave(p, AfterError(p)) BY <3>1, <2>1, FrameSteps
    <3>2. CASE proc' = [proc EXCEPT ![p] = IdleFrame] BY <3>2, <2>4
    <3>3. CASE \E k \in Kek \cup {NoKek}, l \in PC :
                 proc' = [proc EXCEPT ![p] = [@ EXCEPT !.kek = k, !.at = row, !.pc = l]]
      BY <3>3, <2>5, LoadTyped
    <3>4. row.wrapped \in Kek \cup {NoKek} BY ParsTyped
    <3>5. \A k \in Kek : proc' = [proc EXCEPT ![p].kek = k, ![p].at = row, ![p].pc = "store"]
            => proc' = [proc EXCEPT ![p] = [@ EXCEPT !.kek = k, !.at = row, !.pc = "store"]]
      OBVIOUS
    <3> QED BY <1>11, <2>1, <2>3, <3>1, <3>2, <3>3, <3>4, <3>5 DEF LoadKek
  <2> QED BY <1>11, <2>2, <2>6 DEF TypeOK, LoadKek
<1>12. ASSUME NEW p \in Proc, StoreKek(p) PROVE TypeOK'
  <2>1. AfterKek(p) \in PC BY DEF AfterKek, PC
  <2>2. row' \in Row BY <1>12, ParsTyped DEF StoreKek, TypeOK, Row
  <2>3. proc' \in [Proc -> Frame] BY <1>12, <2>1, <2>2, FrameSteps DEF StoreKek, TypeOK, Frame
  <2>4. cache' \in [Host -> {"none", "dual", "only"}] BY <1>12, ForgetTyped DEF StoreKek, TypeOK
  <2>5. causes' \in SUBSET Cause BY <1>12, BlameTyped DEF StoreKek, Cause
  <2> QED BY <1>12, <2>2, <2>3, <2>4, <2>5 DEF TypeOK, StoreKek
<1>13. ASSUME NEW p \in Proc, MarkUnavailable(p) PROVE TypeOK'
  <2>1. proc' \in [Proc -> Frame] BY <1>13, FrameSteps DEF MarkUnavailable, PC
  <2>2. causes' \in SUBSET Cause BY <1>13, BlameTyped DEF MarkUnavailable, Cause
  <2>3. row' \in Row BY <1>13, StatusTyped DEF MarkUnavailable, TypeOK, Status
  <2> QED BY <1>13, <2>1, <2>2, <2>3 DEF TypeOK, MarkUnavailable
<1>14. ASSUME NEW p \in Proc, EnqueueAttach(p) PROVE TypeOK'
  <2>1. proc' \in [Proc -> Frame] BY <1>14, FrameSteps DEF EnqueueAttach, PC
  <2>2. causes' \in SUBSET Cause BY <1>14 DEF EnqueueAttach, Cause, TypeOK
  <2>3. row' \in Row BY <1>14, StatusTyped DEF EnqueueAttach, TypeOK, Status
  <2>4. job' \in Job
    <3>1. [kind |-> "dek_rewrap", status |-> "pending", previous |-> proc[p].previous,
           warmup |-> FALSE] \in Job
      BY JobTyped, ParsTyped
    <3> QED BY <1>14, <3>1 DEF EnqueueAttach, NewJob, TypeOK
  <2> QED BY <1>14, <2>1, <2>2, <2>3, <2>4 DEF TypeOK, EnqueueAttach
<1>15. ASSUME NEW p \in Proc, EnqueueDetach(p) PROVE TypeOK'
  <2>1. proc' \in [Proc -> Frame] BY <1>15, FrameSteps DEF EnqueueDetach, PC
  <2>2. job' \in Job BY <1>15, JobTyped DEF EnqueueDetach, NewJob, TypeOK, Status
  <2> QED BY <1>15, <2>1, <2>2 DEF TypeOK, EnqueueDetach
<1>16. ASSUME NEW p \in Proc, LoadForTenant(p) PROVE TypeOK'
  BY <1>16, FrameSteps DEF TypeOK, LoadForTenant, PC, Frame
<1>17. ASSUME NEW p \in Proc, SetForTenant(p) PROVE TypeOK'
  <2>1. proc' \in [Proc -> Frame] BY <1>17, FrameSteps DEF SetForTenant, PC
  <2>2. cache' \in [Host -> {"none", "dual", "only"}]
    BY <1>17, ForgetTyped, HostTyped DEF SetForTenant, TypeOK, Mode
  <2>3. causes' \in SUBSET Cause BY <1>17, BlameTyped DEF SetForTenant, Cause, TypeOK
  <2>4. row' \in Row BY <1>17, StatusTyped DEF SetForTenant, TypeOK, Status
  <2>5. sidecar' \in [kek : Kek \cup {NoKek}, root : BOOLEAN]
    BY <1>17, ParsTyped, SentTyped DEF SetForTenant, TypeOK, Send
  <2> QED BY <1>17, <2>1, <2>2, <2>3, <2>4, <2>5 DEF TypeOK, SetForTenant
<1>18. ASSUME NEW p \in Proc, UseDek(p) PROVE TypeOK'
  <2>1. proc' \in [Proc -> Frame] BY <1>18, FrameSteps DEF UseDek, PC
  <2>2. causes' \in SUBSET Cause BY <1>18, BlameTyped DEF UseDek, Cause, TypeOK
  <2> QED BY <1>18, <2>1, <2>2 DEF TypeOK, UseDek
<1>19. ASSUME NEW h \in Host, Expire(h) PROVE TypeOK'
  BY <1>19 DEF TypeOK, Expire
<1>20. ASSUME NEW w \in Proc, Claim(w) PROVE TypeOK'
  <2>1. proc' \in [Proc -> Frame] 
    <3>1. [proc[w] EXCEPT !.pc = "row", !.holds = TRUE, !.previous = job.previous] \in Frame
      BY FrameTyped, ParsTyped DEF PC
    <3>2. proc' = [proc EXCEPT ![w] = [@ EXCEPT !.pc = "row", !.holds = TRUE, !.previous = job.previous]]
      BY <1>20 DEF Claim
    <3> QED BY <3>1, <3>2, LoadTyped
  <2>2. job' \in Job BY <1>20, StatusTyped DEF Claim, Status
  <2> QED BY <1>20, <2>1, <2>2 DEF TypeOK, Claim
<1>21. ASSUME NEW w \in Proc, LoadJobRow(w) PROVE TypeOK'
  <2>1. proc' \in [Proc -> Frame] 
    <3>1. \A l \in PC : [proc[w] EXCEPT !.pc = l, !.at = row] \in Frame
      BY FrameTyped, ParsTyped
    <3>2. \E l \in PC : proc' = [proc EXCEPT ![w] = [@ EXCEPT !.pc = l, !.at = row]]
      BY <1>21 DEF LoadJobRow, PC
    <3> QED BY <3>1, <3>2, LoadTyped
  <2> QED BY <1>21, <2>1 DEF TypeOK, LoadJobRow
<1>22. ASSUME NEW w \in Proc, SetForAttach(w) PROVE TypeOK'
  <2>1. proc' \in [Proc -> Frame] BY <1>22, FrameSteps DEF SetForAttach, PC
  <2>2. causes' \in SUBSET Cause BY <1>22, BlameTyped DEF SetForAttach, Cause, TypeOK
  <2>3. sidecar' \in [kek : Kek \cup {NoKek}, root : BOOLEAN]
    <3>1. \A b \in BOOLEAN : [kek |-> proc[w].kek, root |-> b] \in [kek : Kek \cup {NoKek}, root : BOOLEAN]
      BY ParsTyped, SentTyped
    <3>2. At(w, "dual") \in BOOLEAN BY DEF At
    <3>3. sidecar' = sidecar \/ sidecar' = [kek |-> proc[w].kek, root |-> At(w, "dual")]
      BY <1>22 DEF SetForAttach, Send
    <3> QED BY <3>1, <3>2, <3>3 DEF TypeOK
  <2> QED BY <1>22, <2>1, <2>2, <2>3 DEF TypeOK, SetForAttach
<1>23. ASSUME NEW w \in Proc, RewrapToKek(w) PROVE TypeOK'
  <2>1. proc' \in [Proc -> Frame] BY <1>23, FrameSteps DEF RewrapToKek, PC
  <2>2. wrap' \in [Dek -> Kek \cup {Root, Absent}] BY <1>23 DEF RewrapToKek, TypeOK
  <2> QED BY <1>23, <2>1, <2>2 DEF TypeOK, RewrapToKek
<1>24. ASSUME NEW w \in Proc, MarkAttachSucceeded(w) PROVE TypeOK'
  <2>1. proc' \in [Proc -> Frame] BY <1>24, FrameSteps DEF MarkAttachSucceeded, PC
  <2>2. cache' \in [Host -> {"none", "dual", "only"}] BY <1>24, ForgetTyped DEF MarkAttachSucceeded
  <2>3. causes' \in SUBSET Cause BY <1>24, BlameTyped DEF MarkAttachSucceeded, Cause
  <2>4. row' \in Row BY <1>24, StatusTyped DEF MarkAttachSucceeded, Status
  <2> QED BY <1>24, <2>1, <2>2, <2>3, <2>4 DEF TypeOK, MarkAttachSucceeded
<1>25. ASSUME NEW w \in Proc, Warmup(w) PROVE TypeOK'
  <2>1. proc' \in [Proc -> Frame] BY <1>25, FrameSteps DEF Warmup, PC
  <2>2. cache' \in [Host -> {"none", "dual", "only"}]
    BY <1>25, ForgetTyped, HostTyped DEF Warmup, TypeOK
  <2>3. causes' \in SUBSET Cause BY <1>25, BlameTyped DEF Warmup, Cause, TypeOK
  <2>4. sidecar' \in [kek : Kek \cup {NoKek}, root : BOOLEAN]
    BY <1>25, ParsTyped, SentTyped DEF Warmup, TypeOK, Send
  <2> QED BY <1>25, <2>1, <2>2, <2>3, <2>4 DEF TypeOK, Warmup
<1>26. ASSUME NEW w \in Proc, RewrapToRoot(w) PROVE TypeOK'
  <2>1. proc' \in [Proc -> Frame] BY <1>26, FrameSteps DEF RewrapToRoot, PC
  <2>2. causes' \in SUBSET Cause BY <1>26, BlameTyped DEF RewrapToRoot, Cause, TypeOK
  <2>3. wrap' \in [Dek -> Kek \cup {Root, Absent}] BY <1>26 DEF RewrapToRoot, TypeOK
  <2> QED BY <1>26, <2>1, <2>2, <2>3 DEF TypeOK, RewrapToRoot
<1>27. ASSUME NEW w \in Proc, ClearAfterDetach(w) PROVE TypeOK'
  <2>1. proc' \in [Proc -> Frame] BY <1>27, FrameSteps DEF ClearAfterDetach, PC
  <2>2. causes' \in SUBSET Cause BY <1>27, BlameTyped DEF ClearAfterDetach, Cause, TypeOK
  <2>3. sidecar' \in [kek : Kek \cup {NoKek}, root : BOOLEAN] BY <1>27, SentTyped DEF ClearAfterDetach, TypeOK
  <2> QED BY <1>27, <2>1, <2>2, <2>3 DEF TypeOK, ClearAfterDetach
<1>28. ASSUME NEW w \in Proc, ResetToManaged(w) PROVE TypeOK'
  <2>1. proc' \in [Proc -> Frame] BY <1>28, FrameSteps DEF ResetToManaged, PC
  <2>2. cache' \in [Host -> {"none", "dual", "only"}] BY <1>28, ForgetTyped DEF ResetToManaged
  <2>3. causes' \in SUBSET Cause BY <1>28, BlameTyped DEF ResetToManaged, Cause
  <2> QED BY <1>28, IdleTyped, <2>1, <2>2, <2>3 DEF TypeOK, ResetToManaged
<1>29. ASSUME NEW w \in Proc, EndJob(w) PROVE TypeOK'
  <2>1. proc' \in [Proc -> Frame] BY <1>29, FrameSteps DEF EndJob, PC
  <2>2. job' \in Job BY <1>29, StatusTyped DEF EndJob, Status
  <2> QED BY <1>29, <2>1, <2>2 DEF TypeOK, EndJob
<1>30. ASSUME NEW h \in Host, Crash(h) PROVE TypeOK'
  BY <1>30, IdleTyped DEF TypeOK, Crash, Cause
<1>31. CASE UNCHANGED vars
  BY <1>31 DEF TypeOK, vars
<1> QED
  BY <1>1, <1>2, <1>3, <1>4, <1>5, <1>6, <1>7, <1>8, <1>9, <1>10, <1>11, <1>12, <1>13, <1>14,
     <1>15, <1>16, <1>17, <1>18, <1>19, <1>20, <1>21, <1>22, <1>23, <1>24, <1>25, <1>26, <1>27,
     <1>28, <1>29, <1>30, <1>31, <1>32 DEF Next, Step, Serve, Work, Proc

\* Whatever the calls, failures and crashes, the state keeps its type.
THEOREM TypeCorrect == Spec => []TypeOK
<1>1. Init => TypeOK
  BY IdleTyped DEF Init, TypeOK, Job, Status
<1>2. TypeOK /\ JobsAreCounted /\ [Next]_vars => TypeOK'
  BY TypeStep DEF JobsAreCounted
<1> QED
  BY <1>1, <1>2, JobsCounted, PTL DEF Spec

-----------------------------------------------------------------------------
(* What the steps of a process do to its frame.                            *)

\* No other process moves than p.
Others(p) == \A q \in Proc : q # p => proc'[q] = proc[q]

\* What p carries along.
Same(p) ==
  /\ proc'[p].holds = proc[p].holds /\ proc'[p].op = proc[p].op
  /\ proc'[p].previous = proc[p].previous

LEMMA GotoFacts ==
  ASSUME TypeOK, NEW p \in Proc, NEW label, Goto(p, label)
  PROVE  /\ Others(p) /\ Same(p) /\ proc'[p].pc = label
         /\ proc'[p].at = proc[p].at /\ proc'[p].kek = proc[p].kek
<1>1. proc' = [proc EXCEPT ![p] = [@ EXCEPT !.pc = label]] BY DEF Goto
<1>2. proc[p] \in Frame /\ proc \in [Proc -> Frame] BY DEF TypeOK
<1>3. proc'[p] = [proc[p] EXCEPT !.pc = label] /\ Others(p) BY <1>1, <1>2 DEF Others
<1> QED BY <1>2, <1>3 DEF Same, Frame

LEMMA ReturnFacts ==
  ASSUME TypeOK, NEW p \in Proc, Return(p)
  PROVE  /\ Others(p) /\ proc'[p] = IdleFrame
         /\ proc'[p].pc = "idle" /\ proc'[p].op = "work" /\ ~proc'[p].holds
BY DEF TypeOK, Return, Others, IdleFrame

LEMMA LeaveFacts ==
  ASSUME TypeOK, NEW p \in Proc, NEW label, Leave(p, label)
  PROVE  /\ Others(p) /\ proc'[p].pc = label /\ (proc'[p].holds => proc[p].holds)
         /\ proc'[p].holds => proc'[p].previous = proc[p].previous
BY GotoFacts, ReturnFacts DEF Leave, Same

\* A process notes the row, and for an attach the status it found.
LEMMA LoadFacts ==
  ASSUME TypeOK, NEW p \in Proc, NEW l,
         \/ proc' = [proc EXCEPT ![p] = [@ EXCEPT !.pc = l, !.at = row]]
         \/ proc' = [proc EXCEPT ![p] = [@ EXCEPT !.pc = l, !.at = row, !.previous = row.status]]
  PROVE  /\ Others(p) /\ proc'[p].pc = l /\ proc'[p].at = row
         /\ proc'[p].op = proc[p].op /\ proc'[p].holds = proc[p].holds
<1>1. proc[p] \in Frame /\ proc \in [Proc -> Frame] BY DEF TypeOK
<1>2. /\ Others(p)
      /\ \/ proc'[p] = [proc[p] EXCEPT !.pc = l, !.at = row]
         \/ proc'[p] = [proc[p] EXCEPT !.pc = l, !.at = row, !.previous = row.status]
  BY <1>1 DEF Others
<1> QED BY <1>1, <1>2 DEF Frame

-----------------------------------------------------------------------------
(* One worker per job.                                                     *)

\* The labels of a worker that executes the job it claimed.
JobPC == {"row", "warm", "toRoot", "clear", "reset", "dual", "rewrap", "only", "mark", "succeed", "fail"}

\* Only the holder of the job is at such a label; what calls and workers
\* share, the wrapping of a KEK, a worker does for its job alone.
FrameFits(p, f) ==
  /\ f.pc \in JobPC => f.holds
  /\ p \in Worker /\ f.pc \in {"kek", "store"} => f.holds

HoldInv == OneWorker /\ \A p \in Proc : FrameFits(p, proc[p])

\* Whoever has found a stale job does not hold one, and while that job is the
\* newest nobody holds it, it was claimed, and it is of the kind that was found.
StaleFits(f) ==
  /\ ~f.holds /\ f.stale <= jobs
  /\ f.stale = jobs => /\ Holding = {} /\ job.status # "pending"
                       /\ f.undo <=> job.kind = "dek_rewrap"

StaleInv == jobs \in Nat /\ \A p \in Proc : At(p, "stale") => StaleFits(proc[p])

\* A process that moves without touching the status of the job, or while
\* nobody holds it, and holds the job afterwards only if it did before, keeps
\* the invariant.
LEMMA MoveKeepsHold ==
  ASSUME TypeOK, HoldInv, NEW p \in Proc, NEW f \in Frame, proc' = [proc EXCEPT ![p] = f],
         FrameFits(p, f), f.holds => proc[p].holds, job'.status = job.status \/ Holding = {}
  PROVE  HoldInv'
<1>1. \A q \in Proc : proc'[q] = IF q = p THEN f ELSE proc[q]
  BY DEF TypeOK
<1>2. Holding' \subseteq Holding
  BY <1>1 DEF Holding
<1>3. OneWorker'
  BY <1>2 DEF HoldInv, OneWorker
<1>4. \A q \in Proc : FrameFits(q, proc'[q])
  BY <1>1 DEF HoldInv
<1> QED BY <1>3, <1>4 DEF HoldInv, FrameFits

\* Going to a label, or returning, keeps the invariant when the label fits.
LEMMA GotoKeepsHold ==
  ASSUME TypeOK, HoldInv, NEW p \in Proc, NEW label \in PC, job'.status = job.status \/ Holding = {},
         Goto(p, label) \/ Return(p) \/ Leave(p, label),
         label \in JobPC => proc[p].holds,
         p \in Worker /\ label \in {"kek", "store"} => proc[p].holds
  PROVE  HoldInv'
<1>1. CASE Return(p)
  <2>1. FrameFits(p, IdleFrame) /\ ~IdleFrame.holds BY DEF FrameFits, IdleFrame, JobPC
  <2> QED BY <1>1, <2>1, IdleTyped, MoveKeepsHold DEF Return
<1>2. CASE Goto(p, label)
  <2> DEFINE f == [proc[p] EXCEPT !.pc = label]
  <2>1. f \in Frame /\ f.pc = label /\ f.holds = proc[p].holds BY DEF TypeOK, Frame
  <2>2. FrameFits(p, f) BY <2>1 DEF FrameFits
  <2>3. proc' = [proc EXCEPT ![p] = f] BY <1>2 DEF Goto
  <2> QED BY <2>1, <2>2, <2>3, MoveKeepsHold
<1> QED BY <1>1, <1>2 DEF Leave

\* The same for a process that also notes what it loaded.
LEMMA LoadKeepsHold ==
  ASSUME TypeOK, HoldInv, NEW p \in Proc, NEW label \in PC, NEW r \in Row, NEW s \in Status,
         NEW k \in Kek \cup {NoKek}, job'.status = job.status,
         \/ proc' = [proc EXCEPT ![p] = [@ EXCEPT !.pc = label, !.at = r]]
         \/ proc' = [proc EXCEPT ![p] = [@ EXCEPT !.pc = label, !.previous = s]]
         \/ proc' = [proc EXCEPT ![p] = [@ EXCEPT !.pc = label, !.at = r, !.previous = s]]
         \/ proc' = [proc EXCEPT ![p] = [@ EXCEPT !.kek = k, !.at = r, !.pc = label]],
         label \in JobPC => proc[p].holds,
         p \in Worker /\ label \in {"kek", "store"} => proc[p].holds
  PROVE  HoldInv'
<1>1. \E f \in Frame : proc' = [proc EXCEPT ![p] = f] /\ f.pc = label /\ f.holds = proc[p].holds
  <2> DEFINE f1 == [proc[p] EXCEPT !.pc = label, !.at = r]
             f2 == [proc[p] EXCEPT !.pc = label, !.previous = s]
             f3 == [proc[p] EXCEPT !.pc = label, !.at = r, !.previous = s]
             f4 == [proc[p] EXCEPT !.kek = k, !.at = r, !.pc = label]
  <2>1. proc[p] \in Frame BY ParsTyped
  <2>2. f1 \in Frame /\ f1.pc = label /\ f1.holds = proc[p].holds
    <3>1. f1 \in Frame BY <2>1, FrameTyped
    <3>2. f1.pc = label /\ f1.holds = proc[p].holds BY <2>1 DEF Frame
    <3> QED BY <3>1, <3>2
  <2>3. f2 \in Frame /\ f2.pc = label /\ f2.holds = proc[p].holds
    <3>1. f2 \in Frame BY <2>1, FrameTyped
    <3>2. f2.pc = label /\ f2.holds = proc[p].holds BY <2>1 DEF Frame
    <3> QED BY <3>1, <3>2
  <2>4. f3 \in Frame /\ f3.pc = label /\ f3.holds = proc[p].holds
    <3>1. f3 \in Frame BY <2>1, FrameTyped
    <3>2. f3.pc = label /\ f3.holds = proc[p].holds BY <2>1 DEF Frame
    <3> QED BY <3>1, <3>2
  <2>5. f4 \in Frame /\ f4.pc = label /\ f4.holds = proc[p].holds
    <3>1. f4 \in Frame BY <2>1, FrameTyped
    <3>2. f4.pc = label /\ f4.holds = proc[p].holds BY <2>1 DEF Frame
    <3> QED BY <3>1, <3>2
  <2> QED BY <2>2, <2>3, <2>4, <2>5
<1>2. PICK f \in Frame : proc' = [proc EXCEPT ![p] = f] /\ f.pc = label /\ f.holds = proc[p].holds
  BY <1>1
<1>3. FrameFits(p, f) BY <1>2 DEF FrameFits
<1> QED BY <1>2, <1>3, MoveKeepsHold

\* Every step keeps the invariant: only a claim lets a worker hold the job,
\* and it finds the job pending; reclaiming finds nobody holding it.
LEMMA HoldStep ==
  ASSUME TypeOK, HoldInv, StaleInv, [Next]_vars
  PROVE  HoldInv'
<1> USE DEF JobPC
<1>0. job.status # "running" => Holding = {}
  BY DEF HoldInv, OneWorker
<1>1. ASSUME NEW c \in Call, NEW op \in Ops, NEW k \in CloudKey \cup {"managed"}, Begin(c, op, k)
      PROVE  HoldInv'
  <2> DEFINE f == [IdleFrame EXCEPT !.op = op, !.cloud = k, !.pc =
          IF op \in {"put", "putManaged", "attach", "detach", "breakGlass"} THEN "reclaim" ELSE "load"]
  <2>1. f \in Frame BY IdleTyped, OpsAreOperations DEF Frame, PC
  <2>2. FrameFits(c, f) /\ ~f.holds BY DEF FrameFits, IdleFrame
  <2>3. c \in Proc /\ proc' = [proc EXCEPT ![c] = f] /\ job' = job BY <1>1 DEF Begin, Proc
  <2> QED BY <2>1, <2>2, <2>3, MoveKeepsHold
<1>2. ASSUME NEW c \in Call, Check(c) PROVE HoldInv'
  <2>1. c \in Proc /\ c \notin Worker BY ActorsAreApart DEF Proc
  <2> QED BY <1>2, <2>1, GotoKeepsHold DEF Check, PC
<1>3. ASSUME NEW p \in Proc, Reclaim(p) PROVE HoldInv'
  <2>1. job' = job \/ Holding = {} BY <1>3 DEF Reclaim, StaleInv, StaleFits
  <2>2. \E label \in {"revert", "idle", "check"} : Goto(p, label) \/ Leave(p, label)
    BY <1>3 DEF Reclaim, AfterReclaim
  <2> QED BY <2>1, <2>2, GotoKeepsHold DEF PC
<1>20. ASSUME NEW p \in Proc, SelectStale(p) PROVE HoldInv'
  <2> DEFINE f == [proc[p] EXCEPT !.pc = "stale", !.stale = jobs,
                     !.undo = job.kind = "dek_rewrap", !.previous = job.previous]
  <2>1. "stale" \in PC /\ (job.kind = "dek_rewrap") \in BOOLEAN /\ jobs \in Nat BY DEF PC, StaleInv
  <2>2. f \in Frame BY <2>1, FrameTyped, ParsTyped
  <2>3. proc[p] \in Frame BY ParsTyped
  <2>4. f.pc = "stale" /\ f.holds = proc[p].holds BY <2>3 DEF Frame
  <2>5. proc' = [proc EXCEPT ![p] = f] /\ job' = job BY <1>20 DEF SelectStale
  <2> HIDE DEF f
  <2>6. FrameFits(p, f) BY <2>4 DEF FrameFits
  <2> QED BY <2>2, <2>4, <2>5, <2>6, MoveKeepsHold
<1>4. ASSUME NEW p \in Proc, Revert(p) PROVE HoldInv'
  BY <1>4, GotoKeepsHold DEF Revert, PC
<1>5. ASSUME NEW p \in Proc, Abort(p) PROVE HoldInv'
  BY <1>5, GotoKeepsHold DEF Abort, AfterReclaim, PC
<1>6. ASSUME NEW c \in Call, LoadForPut(c) \/ LoadForPutManaged(c) PROVE HoldInv'
  <2>1. c \in Proc /\ c \notin Worker /\ job' = job BY <1>6, ActorsAreApart DEF Proc, LoadForPut, LoadForPutManaged
  <2>2. Return(c) \/ proc' = [proc EXCEPT ![c] = [@ EXCEPT !.pc = "write", !.at = row]]
    BY <1>6 DEF LoadForPut, LoadForPutManaged
  <2>3. "write" \in PC /\ row \in Row BY <2>1, ParsTyped DEF PC
  <2>4. CASE Return(c) BY <2>1, <2>3, <2>4, GotoKeepsHold
  <2>5. CASE proc' = [proc EXCEPT ![c] = [@ EXCEPT !.pc = "write", !.at = row]]
    BY <2>1, <2>3, <2>5, LoadKeepsHold, ParsTyped
  <2> QED BY <2>2, <2>4, <2>5
<1>7. ASSUME NEW c \in Call, WriteCloud(c) \/ WriteManaged(c) \/ MarkUnavailable(c) \/ UseDek(c) PROVE HoldInv'
  <2>1. c \in Proc /\ job' = job /\ Return(c)
    BY <1>7 DEF Proc, WriteCloud, WriteManaged, MarkUnavailable, UseDek
  <2> QED BY <2>1, GotoKeepsHold DEF PC
<1>8. ASSUME NEW c \in Call, LoadConfig(c) PROVE HoldInv'
  <2>1. c \in Proc /\ c \notin Worker /\ job' = job BY <1>8, ActorsAreApart DEF Proc, LoadConfig
  <2>2. Return(c) \/ \E l \in {"enqueue", "kek"} :
          proc' = [proc EXCEPT ![c] = [@ EXCEPT !.pc = l, !.at = row, !.previous = row.status]]
    BY <1>8 DEF LoadConfig
  <2>3. "load" \in PC /\ row \in Row /\ row.status \in Status /\ {"enqueue", "kek"} \subseteq PC
    BY <2>1, ParsTyped DEF PC
  <2>4. CASE Return(c) BY <2>1, <2>3, <2>4, GotoKeepsHold
  <2>5. ASSUME NEW l \in {"enqueue", "kek"},
               proc' = [proc EXCEPT ![c] = [@ EXCEPT !.pc = l, !.at = row, !.previous = row.status]]
        PROVE  HoldInv'
    <3>1. l \in PC BY <2>3
    <3> QED BY <2>1, <2>3, <2>5, <3>1, LoadKeepsHold
  <2> QED BY <2>2, <2>4, <2>5
<1>9. ASSUME NEW p \in Proc, LoadKek(p) \/ StoreKek(p) PROVE HoldInv'
  <2>1. job' = job BY <1>9 DEF LoadKek, StoreKek
  <2>2. p \in Worker => proc[p].holds
    BY <1>9 DEF LoadKek, StoreKek, At, HoldInv, FrameFits
  <2>3. /\ AfterKek(p) \in PC /\ AfterError(p) \in PC /\ {"idle", "store"} \subseteq PC
        /\ p \notin Worker => AfterKek(p) \notin JobPC /\ AfterError(p) \notin JobPC
    BY DEF AfterKek, AfterError, PC
  <2>4. CASE LoadKek(p)
    <3>1. \/ Leave(p, AfterError(p)) \/ Return(p)
          \/ \E k \in Kek \cup {NoKek}, l \in {AfterKek(p), "store"} :
               proc' = [proc EXCEPT ![p] = [@ EXCEPT !.kek = k, !.at = row, !.pc = l]]
      <4>1. row.wrapped \in Kek \cup {NoKek} BY ParsTyped
      <4>2. CASE proc' = [proc EXCEPT ![p] =
             IF AfterKek(p) = "idle" /\ proc[p].op # "rotate" THEN IdleFrame
             ELSE [@ EXCEPT !.kek = row.wrapped, !.at = row,
                            !.pc = IF proc[p].op = "rotate" THEN "store" ELSE AfterKek(p)]]
        BY <4>1, <4>2 DEF Return
      <4>3. CASE \E k \in Kek : proc' = [proc EXCEPT ![p].kek = k, ![p].at = row, ![p].pc = "store"]
        <5>1. PICK k \in Kek : proc' = [proc EXCEPT ![p].kek = k, ![p].at = row, ![p].pc = "store"]
          BY <4>3
        <5>2. proc' = [proc EXCEPT ![p] = [@ EXCEPT !.kek = k, !.at = row, !.pc = "store"]] BY <5>1
        <5> QED BY <5>2
      <4> QED BY <2>4, <4>2, <4>3 DEF LoadKek
    <3>2. CASE Leave(p, AfterError(p)) \/ Return(p)
      BY <2>1, <2>2, <2>3, <3>2, GotoKeepsHold
    <3>3. ASSUME NEW k \in Kek \cup {NoKek}, NEW l \in {AfterKek(p), "store"},
                 proc' = [proc EXCEPT ![p] = [@ EXCEPT !.kek = k, !.at = row, !.pc = l]]
          PROVE  HoldInv'
      BY <2>1, <2>2, <2>3, <3>3, LoadKeepsHold, ParsTyped
    <3> QED BY <3>1, <3>2, <3>3
  <2>5. CASE StoreKek(p)
    <3>1. row' \in Row BY <2>5, ParsTyped DEF StoreKek, TypeOK, Row
    <3>2. Return(p) \/ proc' = [proc EXCEPT ![p] = [@ EXCEPT !.pc = AfterKek(p), !.at = row']]
      BY <2>5 DEF StoreKek
    <3>3. CASE Return(p) BY <2>1, <2>2, <2>3, <3>3, GotoKeepsHold
    <3>4. CASE proc' = [proc EXCEPT ![p] = [@ EXCEPT !.pc = AfterKek(p), !.at = row']]
      BY <2>1, <2>2, <2>3, <3>1, <3>4, LoadKeepsHold, ParsTyped
    <3> QED BY <3>2, <3>3, <3>4
  <2> QED BY <1>9, <2>4, <2>5
<1>10. ASSUME NEW c \in Call, EnqueueAttach(c) \/ EnqueueDetach(c) PROVE HoldInv'
  <2>1. c \in Proc /\ Return(c) BY <1>10 DEF Proc, EnqueueAttach, EnqueueDetach
  <2>2. CASE job' = job BY <2>1, <2>2, GotoKeepsHold DEF PC
  <2>3. CASE job' # job
    <3>1. Holding = {} BY <1>10, <2>3, <1>0 DEF EnqueueAttach, EnqueueDetach, Active
    <3>2. \A q \in Proc : proc'[q] = IF q = c THEN IdleFrame ELSE proc[q] BY <2>1 DEF TypeOK, Return
    <3>3. Holding' = {} BY <3>1, <3>2 DEF Holding, IdleFrame
    <3>4. FrameFits(c, IdleFrame) BY DEF FrameFits, IdleFrame
    <3> QED BY <3>2, <3>3, <3>4 DEF HoldInv, OneWorker, FrameFits
  <2> QED BY <2>2, <2>3
<1>11. ASSUME NEW c \in Call, LoadForTenant(c) PROVE HoldInv'
  <2>1. c \in Proc /\ c \notin Worker /\ job' = job BY <1>11, ActorsAreApart DEF Proc, LoadForTenant
  <2>2. Return(c) \/ \E l \in {"use", "set"} : proc' = [proc EXCEPT ![c] = [@ EXCEPT !.pc = l, !.at = row]]
    BY <1>11 DEF LoadForTenant
  <2>3. {"use", "set"} \subseteq PC /\ row \in Row BY <2>1, ParsTyped DEF PC
  <2>4. CASE Return(c) BY <2>1, <2>3, <2>4, GotoKeepsHold
  <2>5. ASSUME NEW l \in {"use", "set"}, proc' = [proc EXCEPT ![c] = [@ EXCEPT !.pc = l, !.at = row]]
        PROVE  HoldInv'
    BY <2>1, <2>3, <2>5, LoadKeepsHold, ParsTyped
  <2> QED BY <2>2, <2>4, <2>5
<1>12. ASSUME NEW c \in Call, SetForTenant(c) PROVE HoldInv'
  <2>1. c \in Proc /\ job' = job /\ (Return(c) \/ Goto(c, "use")) BY <1>12 DEF Proc, SetForTenant
  <2> QED BY <2>1, GotoKeepsHold DEF PC
<1>13. ASSUME NEW h \in Host, Expire(h) PROVE HoldInv'
  BY <1>13 DEF Expire, HoldInv, OneWorker, Holding, FrameFits
<1>14. ASSUME NEW w \in Worker, Claim(w) PROVE HoldInv'
  <2> DEFINE f == [proc[w] EXCEPT !.pc = "row", !.holds = TRUE, !.previous = job.previous]
  <2>1. Holding = {} BY <1>14, <1>0 DEF Claim
  <2>2. w \in Proc /\ proc' = [proc EXCEPT ![w] = f] BY <1>14 DEF Claim, Proc
  <2>3. proc[w] \in Frame BY <2>2, ParsTyped
  <2>4. f.pc = "row" /\ f.holds BY <2>3 DEF Frame
  <2>5. \A q \in Proc : proc'[q] = IF q = w THEN f ELSE proc[q] BY <2>2 DEF TypeOK
  <2>6. Holding' \subseteq {w} BY <2>1, <2>5 DEF Holding
  <2>7. job'.status = "running" BY <1>14 DEF Claim, TypeOK, Job
  <2> HIDE DEF f
  <2>8. \A q \in Proc : FrameFits(q, proc'[q]) BY <2>4, <2>5 DEF HoldInv, FrameFits
  <2> QED BY <2>6, <2>7, <2>8 DEF HoldInv, OneWorker, FrameFits
<1>15. ASSUME NEW w \in Worker, LoadJobRow(w) PROVE HoldInv'
  <2>1. w \in Proc /\ job' = job /\ proc[w].holds
    BY <1>15 DEF LoadJobRow, Proc, At, HoldInv, FrameFits
  <2>2. \E l \in PC : proc' = [proc EXCEPT ![w] = [@ EXCEPT !.pc = l, !.at = row]]
    BY <1>15 DEF LoadJobRow, PC
  <2>3. PICK l \in PC : proc' = [proc EXCEPT ![w] = [@ EXCEPT !.pc = l, !.at = row]] BY <2>2
  <2> QED BY <2>1, <2>3, LoadKeepsHold, ParsTyped
<1>16. ASSUME NEW w \in Worker,
              \/ SetForAttach(w) \/ RewrapToKek(w) \/ MarkAttachSucceeded(w)
              \/ Warmup(w) \/ RewrapToRoot(w) \/ ClearAfterDetach(w) \/ ResetToManaged(w)
       PROVE  HoldInv'
  <2>1. w \in Proc /\ job' = job /\ proc[w].holds
    BY <1>16 DEF Proc, At, HoldInv, FrameFits, SetForAttach, RewrapToKek, MarkAttachSucceeded,
                 Warmup, RewrapToRoot, ClearAfterDetach, ResetToManaged
  <2>2. \E l \in PC : Goto(w, l)
    BY <1>16 DEF PC, SetForAttach, RewrapToKek, MarkAttachSucceeded,
                 Warmup, RewrapToRoot, ClearAfterDetach, ResetToManaged
  <2> QED BY <2>1, <2>2, GotoKeepsHold
<1>17. ASSUME NEW w \in Worker, EndJob(w) PROVE HoldInv'
  <2>1. w \in Proc /\ Return(w) /\ proc[w].holds BY <1>17 DEF EndJob, Proc, At, HoldInv, FrameFits
  <2>2. Holding \subseteq {w} BY <2>1 DEF HoldInv, OneWorker, Holding
  <2>3. \A q \in Proc : proc'[q] = IF q = w THEN IdleFrame ELSE proc[q] BY <2>1 DEF TypeOK, Return
  <2>4. Holding' = {} BY <2>2, <2>3 DEF Holding, IdleFrame
  <2>5. FrameFits(w, IdleFrame) BY DEF FrameFits, IdleFrame
  <2> QED BY <2>3, <2>4, <2>5 DEF HoldInv, OneWorker, FrameFits
<1>18. ASSUME NEW h \in Host, Crash(h) PROVE HoldInv'
  <2>1. \A q \in Proc : proc'[q] = proc[q] \/ proc'[q] = IdleFrame BY <1>18 DEF Crash
  <2>2. Holding' \subseteq Holding BY <2>1 DEF Holding, IdleFrame
  <2>3. \A q \in Proc : FrameFits(q, IdleFrame) BY DEF FrameFits, IdleFrame
  <2>4. job' = job BY <1>18 DEF Crash
  <2> QED BY <2>1, <2>2, <2>3, <2>4 DEF HoldInv, OneWorker, FrameFits
<1>19. CASE UNCHANGED vars
  BY <1>19 DEF vars, HoldInv, OneWorker, Holding, FrameFits
<1> QED
  BY <1>1, <1>2, <1>3, <1>4, <1>5, <1>6, <1>7, <1>8, <1>9, <1>10, <1>11, <1>12, <1>13, <1>14,
     <1>15, <1>16, <1>17, <1>18, <1>19, <1>20 DEF Next, Step, Serve, Work

-----------------------------------------------------------------------------
\* Nobody takes a job who had none, and p finds nothing stale.
Quietly(p) == Others(p) /\ proc'[p].pc # "stale" /\ (proc'[p].holds => proc[p].holds)

\* What a reclaimer has found stays true of the newest job, or there is a newer one.
LEMMA StaleKeeps ==
  ASSUME TypeOK, StaleInv,
         \A q \in Proc : proc'[q].pc = "stale" => proc'[q] = proc[q],
         \/ /\ jobs' = jobs /\ Holding' \subseteq Holding /\ job'.kind = job.kind
            /\ job'.status = "pending" => job.status = "pending"
         \/ jobs' = jobs /\ job.status = "pending"
         \/ jobs' = jobs + 1
  PROVE  StaleInv'
<1>1. jobs' \in Nat BY DEF StaleInv
<1>2. ASSUME NEW q \in Proc, At(q, "stale")' PROVE StaleFits(proc[q])'
  <2>1. proc'[q] = proc[q] /\ At(q, "stale") BY <1>2 DEF At
  <2>2. StaleFits(proc[q]) /\ jobs \in Nat BY <2>1 DEF StaleInv
  <2>3. CASE /\ jobs' = jobs /\ Holding' \subseteq Holding /\ job'.kind = job.kind
             /\ job'.status = "pending" => job.status = "pending"
    BY <2>1, <2>2, <2>3 DEF StaleFits
  <2>4. CASE jobs' = jobs /\ job.status = "pending" BY <2>1, <2>2, <2>4 DEF StaleFits
  <2>5. CASE jobs' = jobs + 1
    <3>1. proc[q].stale # jobs' /\ proc[q].stale <= jobs'
      <4>1. proc[q].stale \in Nat BY DEF TypeOK, Frame
      <4> QED BY <2>2, <2>5, <4>1 DEF StaleFits
    <3> QED BY <2>1, <2>2, <3>1 DEF StaleFits
  <2> QED BY <2>3, <2>4, <2>5
<1> QED BY <1>1, <1>2 DEF StaleInv

LEMMA QuietlyStale ==
  ASSUME TypeOK, StaleInv, NEW p \in Proc, Quietly(p),
         \/ /\ jobs' = jobs /\ job'.kind = job.kind
            /\ job'.status = "pending" => job.status = "pending"
         \/ jobs' = jobs + 1
  PROVE  StaleInv'
<1>1. Holding' \subseteq Holding BY DEF Quietly, Others, Holding
<1>2. \A q \in Proc : proc'[q].pc = "stale" => proc'[q] = proc[q] BY DEF Quietly, Others
<1> QED BY <1>1, <1>2, StaleKeeps

\* Going to a label, returning or noting what is loaded finds nothing stale.
LEMMA QuietMoves ==
  ASSUME TypeOK, NEW p \in Proc, NEW l, l # "stale",
         \/ Goto(p, l) \/ Return(p) \/ Leave(p, l)
         \/ proc' = [proc EXCEPT ![p] = [@ EXCEPT !.pc = l, !.at = row]]
         \/ proc' = [proc EXCEPT ![p] = [@ EXCEPT !.pc = l, !.at = row, !.previous = row.status]]
  PROVE  Quietly(p)
<1>1. CASE Goto(p, l) \/ Return(p) \/ Leave(p, l)
  BY <1>1, GotoFacts, ReturnFacts, LeaveFacts DEF Quietly, Same
<1>2. CASE \/ proc' = [proc EXCEPT ![p] = [@ EXCEPT !.pc = l, !.at = row]]
           \/ proc' = [proc EXCEPT ![p] = [@ EXCEPT !.pc = l, !.at = row, !.previous = row.status]]
  <2>1. Others(p) /\ proc'[p].pc = l /\ proc'[p].holds = proc[p].holds BY <1>2, LoadFacts
  <2> QED BY <2>1 DEF Quietly
<1> QED BY <1>1, <1>2

LEMMA QuietReturn ==
  ASSUME TypeOK, NEW p \in Proc, Return(p)
  PROVE  Quietly(p)
BY ReturnFacts DEF Quietly

\* A tenant key is unwrapped, generated or stored.
LEMMA QuietKek ==
  ASSUME TypeOK, NEW p \in Proc, LoadKek(p) \/ StoreKek(p)
  PROVE  Quietly(p)
<1>1. AfterKek(p) # "stale" /\ AfterError(p) # "stale" BY DEF AfterKek, AfterError
<1>2. \/ Return(p) \/ Leave(p, AfterError(p))
      \/ \E k, r : \E l \in {AfterKek(p), "store"} :
           proc' = [proc EXCEPT ![p] = [@ EXCEPT !.kek = k, !.at = r, !.pc = l]]
      \/ \E r : proc' = [proc EXCEPT ![p] = [@ EXCEPT !.pc = AfterKek(p), !.at = r]]
  <2>1. CASE LoadKek(p)
    <3>1. CASE proc' = [proc EXCEPT ![p] =
                 IF AfterKek(p) = "idle" /\ proc[p].op # "rotate" THEN IdleFrame
                 ELSE [@ EXCEPT !.kek = row.wrapped, !.at = row,
                                !.pc = IF proc[p].op = "rotate" THEN "store" ELSE AfterKek(p)]]
      BY <3>1 DEF Return
    <3>2. CASE \E k \in Kek : proc' = [proc EXCEPT ![p].kek = k, ![p].at = row, ![p].pc = "store"]
      <4>1. PICK k \in Kek : proc' = [proc EXCEPT ![p].kek = k, ![p].at = row, ![p].pc = "store"] BY <3>2
      <4>2. proc' = [proc EXCEPT ![p] = [@ EXCEPT !.kek = k, !.at = row, !.pc = "store"]] BY <4>1
      <4> QED BY <4>2
    <3> QED BY <2>1, <3>1, <3>2 DEF LoadKek
  <2>2. CASE StoreKek(p) BY <2>2 DEF StoreKek
  <2> QED BY <2>1, <2>2
<1>3. proc[p] \in Frame /\ proc \in [Proc -> Frame] BY DEF TypeOK
<1>4. ASSUME NEW k, NEW r, NEW l \in {AfterKek(p), "store"},
             proc' = [proc EXCEPT ![p] = [@ EXCEPT !.kek = k, !.at = r, !.pc = l]]
      PROVE  Quietly(p)
  <2>1. Others(p) /\ proc'[p] = [proc[p] EXCEPT !.kek = k, !.at = r, !.pc = l] BY <1>3, <1>4 DEF Others
  <2>2. proc'[p].pc = l /\ proc'[p].holds = proc[p].holds BY <1>3, <2>1 DEF Frame
  <2> QED BY <1>1, <2>1, <2>2 DEF Quietly
<1>5. ASSUME NEW r, proc' = [proc EXCEPT ![p] = [@ EXCEPT !.pc = AfterKek(p), !.at = r]]
      PROVE  Quietly(p)
  <2>1. Others(p) /\ proc'[p] = [proc[p] EXCEPT !.pc = AfterKek(p), !.at = r] BY <1>3, <1>5 DEF Others
  <2>2. proc'[p].pc = AfterKek(p) /\ proc'[p].holds = proc[p].holds BY <1>3, <2>1 DEF Frame
  <2> QED BY <1>1, <2>1, <2>2 DEF Quietly
<1>6. CASE Return(p) \/ Leave(p, AfterError(p)) BY <1>1, <1>6, QuietMoves
<1> QED BY <1>2, <1>4, <1>5, <1>6

\* Every step keeps it: who finds a stale job finds that nobody holds it, and
\* nobody takes it any more.
LEMMA StaleStep ==
  ASSUME TypeOK, HoldInv, StaleInv, [Next]_vars
  PROVE  StaleInv'
<1> USE DEF counters
<1>1. ASSUME NEW c \in Call, NEW op \in Ops, NEW k \in CloudKey \cup {"managed"}, Begin(c, op, k)
      PROVE  StaleInv'
  <2>1. proc'[c] = [IdleFrame EXCEPT !.op = op, !.cloud = k, !.pc =
          IF op \in {"put", "putManaged", "attach", "detach", "breakGlass"} THEN "reclaim" ELSE "load"]
        /\ Others(c) /\ c \in Proc
    BY <1>1 DEF Begin, TypeOK, Others, Proc
  <2>2. proc'[c].pc \in {"reclaim", "load"} /\ ~proc'[c].holds BY <2>1 DEF IdleFrame
  <2>3. jobs' = jobs /\ job' = job BY <1>1 DEF Begin
  <2> QED BY <2>1, <2>2, <2>3, QuietlyStale DEF Quietly
<1>2. ASSUME NEW p \in Proc, SelectStale(p) PROVE StaleInv'
  <2>1. /\ proc' = [proc EXCEPT ![p].pc = "stale", ![p].stale = jobs,
                      ![p].undo = job.kind = "dek_rewrap", ![p].previous = job.previous]
        /\ Holding = {} /\ job.status = "running" /\ jobs' = jobs /\ job' = job
    BY <1>2 DEF SelectStale, StaleJob
  <2>2. proc[p] \in Frame /\ proc \in [Proc -> Frame] BY DEF TypeOK
  <2>3. /\ Others(p)
        /\ proc'[p] = [proc[p] EXCEPT !.pc = "stale", !.stale = jobs,
                          !.undo = job.kind = "dek_rewrap", !.previous = job.previous]
    BY <2>1, <2>2 DEF Others
  <2>4. /\ proc'[p].holds = proc[p].holds /\ proc'[p].stale = jobs
        /\ proc'[p].undo = (job.kind = "dek_rewrap")
    BY <2>2, <2>3 DEF Frame
  <2>5. \A q \in Proc : ~proc[q].holds /\ ~proc'[q].holds BY <2>1, <2>3, <2>4 DEF Holding, Others
  <2>6. Holding' = {} BY <2>5 DEF Holding
  <2>7. ASSUME NEW q \in Proc, At(q, "stale")' PROVE StaleFits(proc[q])'
    <3>1. CASE q = p
      <4>1. jobs \in Nat /\ jobs <= jobs BY DEF StaleInv
      <4> QED BY <2>1, <2>4, <2>5, <2>6, <3>1, <4>1 DEF StaleFits
    <3>2. CASE q # p
      <4>1. proc'[q] = proc[q] /\ At(q, "stale") BY <2>3, <2>7, <3>2 DEF Others, At
      <4> QED BY <2>1, <2>6, <4>1 DEF StaleFits, StaleInv
    <3> QED BY <3>1, <3>2
  <2> QED BY <2>1, <2>7 DEF StaleInv
<1>3. ASSUME NEW p \in Proc, Reclaim(p) PROVE StaleInv'
  <2>1. Quietly(p) BY <1>3, QuietMoves DEF Reclaim, AfterReclaim
  <2>2. /\ jobs' = jobs /\ job'.kind = job.kind
        /\ job'.status = "pending" => job.status = "pending"
    BY <1>3 DEF Reclaim, TypeOK, Job
  <2> QED BY <2>1, <2>2, QuietlyStale
<1>4. ASSUME NEW p \in Proc, Revert(p) \/ Abort(p) PROVE StaleInv'
  <2>1. Quietly(p) BY <1>4, QuietMoves DEF Revert, Abort, AfterReclaim
  <2>2. jobs' = jobs /\ job' = job BY <1>4 DEF Revert, Abort
  <2> QED BY <2>1, <2>2, QuietlyStale
<1>5. ASSUME NEW p \in Proc, LoadKek(p) \/ StoreKek(p) PROVE StaleInv'
  <2>1. jobs' = jobs /\ job' = job BY <1>5 DEF LoadKek, StoreKek
  <2> QED BY <1>5, <2>1, QuietKek, QuietlyStale
<1>6. ASSUME NEW c \in Call,
              \/ Check(c) \/ LoadForPut(c) \/ WriteCloud(c) \/ LoadForPutManaged(c) \/ WriteManaged(c)
              \/ LoadConfig(c) \/ MarkUnavailable(c) \/ LoadForTenant(c) \/ SetForTenant(c) \/ UseDek(c)
      PROVE  StaleInv'
  <2>1. c \in Proc /\ jobs' = jobs /\ job' = job
    BY <1>6 DEF Proc, Check, LoadForPut, WriteCloud, LoadForPutManaged, WriteManaged, LoadConfig,
       MarkUnavailable, LoadForTenant, SetForTenant, UseDek
  <2>2. \/ Return(c) \/ Goto(c, "load") \/ Goto(c, "use")
        \/ \E l \in {"write", "enqueue", "kek", "use", "set"} :
             \/ proc' = [proc EXCEPT ![c] = [@ EXCEPT !.pc = l, !.at = row]]
             \/ proc' = [proc EXCEPT ![c] = [@ EXCEPT !.pc = l, !.at = row, !.previous = row.status]]
    BY <1>6 DEF Check, LoadForPut, WriteCloud, LoadForPutManaged, WriteManaged, LoadConfig,
       MarkUnavailable, LoadForTenant, SetForTenant, UseDek
  <2>3. CASE Return(c) BY <2>1, <2>3, QuietReturn, QuietlyStale
  <2>4. ASSUME NEW l \in {"load", "write", "enqueue", "kek", "use", "set"},
               \/ Goto(c, l)
               \/ proc' = [proc EXCEPT ![c] = [@ EXCEPT !.pc = l, !.at = row]]
               \/ proc' = [proc EXCEPT ![c] = [@ EXCEPT !.pc = l, !.at = row, !.previous = row.status]]
        PROVE  StaleInv'
    <3>1. Quietly(c) BY <2>1, <2>4, QuietMoves
    <3> QED BY <2>1, <3>1, QuietlyStale
  <2> QED BY <2>2, <2>3, <2>4
<1>7. ASSUME NEW c \in Call, EnqueueAttach(c) \/ EnqueueDetach(c) PROVE StaleInv'
  <2>1. c \in Proc /\ Return(c) BY <1>7 DEF Proc, EnqueueAttach, EnqueueDetach
  <2>2. (jobs' = jobs /\ job' = job) \/ jobs' = jobs + 1
    BY <1>7 DEF EnqueueAttach, EnqueueDetach, NewJob
  <2>3. Quietly(c) BY <2>1, QuietReturn
  <2> QED BY <2>1, <2>2, <2>3, QuietlyStale
<1>8. ASSUME NEW w \in Worker, Claim(w) PROVE StaleInv'
  <2>1. /\ w \in Proc /\ proc[w] \in Frame /\ proc \in [Proc -> Frame]
        /\ jobs' = jobs /\ job.status = "pending"
    BY <1>8 DEF Claim, Proc, TypeOK
  <2>2. /\ Others(w)
        /\ proc'[w] = [proc[w] EXCEPT !.pc = "row", !.holds = TRUE, !.previous = job.previous]
    BY <1>8, <2>1 DEF Claim, Others
  <2>3. proc'[w].pc = "row" BY <2>1, <2>2 DEF Frame
  <2> QED BY <2>1, <2>2, <2>3, StaleKeeps DEF Others
<1>9. ASSUME NEW w \in Worker,
              \/ LoadJobRow(w) \/ EndJob(w)
              \/ SetForAttach(w) \/ RewrapToKek(w) \/ MarkAttachSucceeded(w)
              \/ Warmup(w) \/ RewrapToRoot(w) \/ ClearAfterDetach(w) \/ ResetToManaged(w)
      PROVE  StaleInv'
  <2>1. /\ w \in Proc /\ jobs' = jobs /\ job'.kind = job.kind
        /\ job'.status = "pending" => job.status = "pending"
    BY <1>9 DEF Proc, TypeOK, Job, LoadJobRow, EndJob, SetForAttach, RewrapToKek, MarkAttachSucceeded,
                Warmup, RewrapToRoot, ClearAfterDetach, ResetToManaged
  <2>2. CASE EndJob(w)
    <3>1. Quietly(w) BY <2>1, <2>2, QuietReturn DEF EndJob
    <3> QED BY <2>1, <3>1, QuietlyStale
  <2>3. CASE LoadJobRow(w)
    <3>1. PICK l \in {"succeed", "kek", "reset", "warm", "toRoot"} :
            proc' = [proc EXCEPT ![w] = [@ EXCEPT !.pc = l, !.at = row]]
      BY <2>3 DEF LoadJobRow
    <3>2. Quietly(w) BY <2>1, <3>1, QuietMoves
    <3> QED BY <2>1, <3>2, QuietlyStale
  <2>4. CASE ~EndJob(w) /\ ~LoadJobRow(w)
    <3>1. PICK l \in {"revert", "rewrap", "mark", "only", "succeed", "toRoot", "clear", "fail", "reset"} : Goto(w, l)
      BY <1>9, <2>4 DEF SetForAttach, RewrapToKek, MarkAttachSucceeded,
                        Warmup, RewrapToRoot, ClearAfterDetach, ResetToManaged
    <3>2. Quietly(w) BY <2>1, <3>1, QuietMoves
    <3> QED BY <2>1, <3>2, QuietlyStale
  <2> QED BY <2>2, <2>3, <2>4
<1>10. ASSUME NEW h \in Host, Crash(h) PROVE StaleInv'
  <2>1. \A q \in Proc : proc'[q] = proc[q] \/ proc'[q] = IdleFrame BY <1>10 DEF Crash
  <2>2. Holding' \subseteq Holding BY <2>1 DEF Holding, IdleFrame
  <2>3. \A q \in Proc : proc'[q].pc = "stale" => proc'[q] = proc[q] BY <2>1 DEF IdleFrame
  <2>4. jobs' = jobs /\ job' = job BY <1>10 DEF Crash
  <2> QED BY <2>2, <2>3, <2>4, StaleKeeps
<1>11. CASE UNCHANGED vars \/ \E h \in Host : Expire(h)
  BY <1>11 DEF vars, Expire, StaleInv, StaleFits, Holding, At
<1> QED
  BY <1>1, <1>2, <1>3, <1>4, <1>5, <1>6, <1>7, <1>8, <1>9, <1>10, <1>11 DEF Next, Step, Serve, Work

\* A rewrap job never has two workers, and one only while it runs: neither a
\* claim nor a reclaim, by whichever process, hands out a job that is held.
THEOREM OneWorkerAlways == Spec => []OneWorker
<1>1. Init => HoldInv /\ StaleInv
  BY DEF Init, HoldInv, OneWorker, Holding, FrameFits, IdleFrame, JobPC, StaleInv, At
<1>2. TypeOK /\ HoldInv /\ StaleInv /\ [Next]_vars => HoldInv' /\ StaleInv'
  BY HoldStep, StaleStep
<1>3. HoldInv => OneWorker
  BY DEF HoldInv
<1> QED
  BY <1>1, <1>2, <1>3, TypeCorrect, PTL DEF Spec

-----------------------------------------------------------------------------
(* No key of a DEK is lost but by a named cause.  While none has struck    *)
(* the sidecar has the key of every DEK that is under a tenant key, and    *)
(* that key is the one the row keeps, except in the window between a       *)
(* failed or abandoned attach and the end of its clean-up.                 *)

Harmful == {"stale_write", "cleared_in_use", "clear_failed", "used_in_detach",
            "reclaim_stopped", "reclaim_overlapped"}
Harmless == causes \cap Harmful = {}

Rooted(w) == \A d \in Dek : w[d] \in {Root, Absent}

\* An attach runs, or has failed and is not yet undone.
AttachRuns ==
  /\ job.kind = "dek_rewrap" /\ job.status = "running"
  /\ \A w \in Holding : proc[w].pc \notin {"succeed", "fail"}
Unsettled == AttachRuns \/ \E p \in Proc : MidReclaim(p)

KeysFit ==
  /\ \A d \in Dek : wrap[d] \in {Root, Absent, sidecar.kek}
  /\ ~NeverAttached(row) => sidecar.kek \in {NoKek, row.wrapped}
  /\ NeverAttached(row) /\ ~Unsettled => sidecar.kek = NoKek
  /\ job.kind = "dek_rewrap" /\ job.status = "pending" => ~NeverAttached(row)

\* The worker of an attach finds the row attached, the worker of a detach
\* the DEKs under the root key once it has moved them.
AttachPC == {"row", "kek", "store", "dual", "rewrap", "only", "mark"}
WorkFits(f, r, kind, w, k) ==
  /\ f.pc \in AttachPC /\ f.holds /\ kind = "dek_rewrap" => ~NeverAttached(r)
  /\ f.pc = "clear" => Rooted(w)
  /\ f.pc = "reset" /\ ~NeverAttached(f.at) => k = NoKek
  /\ f.pc = "enqueue" => f.at.source # "managed"

\* What a frame tells of the job it holds and of the row it has loaded.
LoadFits(p, f, kind) ==
  /\ p \in Call => ~f.holds
  /\ f.holds /\ f.pc \in {"kek", "store", "dual", "rewrap", "only", "mark", "revert", "abort"} =>
       kind = "dek_rewrap"
  /\ f.holds /\ f.pc \in {"warm", "toRoot", "clear", "reset"} => kind = "detach_managed"
  /\ f.op = "put" => f.cloud # "managed"
  /\ f.pc = "write" /\ f.op = "putManaged" => NeverAttached(f.at)
  /\ f.pc \in {"set", "warm"} => ~NeverAttached(f.at)
  /\ f.pc = "store" => f.at.source # "managed" /\ f.at.wrapped \in {NoKek, f.kek}

Quiet == KeysFit /\ \A p \in Proc : WorkFits(proc[p], row, job.kind, wrap, sidecar.kek)

LossInv ==
  /\ \A p \in Proc : LoadFits(p, proc[p], job.kind)
  /\ Harmless => Quiet

-----------------------------------------------------------------------------
\* Process p moves to frame f, and takes no job.
Moves(p, f) == f \in Frame /\ proc' = [proc EXCEPT ![p] = f] /\ (f.holds => proc[p].holds)

\* What a frame carries along.
Carries(p, f) == f.holds = proc[p].holds /\ f.op = proc[p].op /\ f.cloud = proc[p].cloud

LEMMA GotoMoves ==
  ASSUME TypeOK, NEW p \in Proc, NEW label \in PC, Goto(p, label)
  PROVE  \E f \in Frame : /\ Moves(p, f) /\ Carries(p, f) /\ f.pc = label
                          /\ f.at = proc[p].at /\ f.kek = proc[p].kek
<1> DEFINE f == [proc[p] EXCEPT !.pc = label]
<1>1. proc[p] \in Frame BY ParsTyped
<1>2. /\ f \in Frame /\ f.pc = label /\ f.at = proc[p].at /\ f.kek = proc[p].kek
      /\ f.holds = proc[p].holds /\ f.op = proc[p].op /\ f.cloud = proc[p].cloud
  BY <1>1 DEF Frame
<1>3. proc' = [proc EXCEPT ![p] = f] BY DEF Goto
<1> HIDE DEF f
<1> QED BY <1>2, <1>3 DEF Moves, Carries

LEMMA ReturnMoves ==
  ASSUME TypeOK, NEW p \in Proc, Return(p)
  PROVE  \E f \in Frame : Moves(p, f) /\ f.pc = "idle" /\ f.op = "work" /\ ~f.holds
BY IdleTyped DEF Return, Moves, IdleFrame

\* A process notes what it loads.
LEMMA LoadMoves ==
  ASSUME TypeOK, NEW p \in Proc, NEW label \in PC,
         \/ proc' = [proc EXCEPT ![p] = [@ EXCEPT !.pc = label, !.at = row]]
         \/ proc' = [proc EXCEPT ![p] = [@ EXCEPT !.pc = label, !.at = row, !.previous = row.status]]
  PROVE  \E f \in Frame : Moves(p, f) /\ Carries(p, f) /\ f.pc = label /\ f.at = row
<1> DEFINE f1 == [proc[p] EXCEPT !.pc = label, !.at = row]
           f3 == [proc[p] EXCEPT !.pc = label, !.at = row, !.previous = row.status]
<1>1. proc[p] \in Frame /\ proc \in [Proc -> Frame] /\ row \in Row /\ row.status \in Status
  BY ParsTyped DEF TypeOK
<1>2. f1 \in Frame /\ f3 \in Frame BY <1>1, FrameTyped
<1>3. f1.pc = label /\ f1.at = row /\ Carries(p, f1) BY <1>1 DEF Frame, Carries
<1>4. f3.pc = label /\ f3.at = row /\ Carries(p, f3) BY <1>1 DEF Frame, Carries
<1>5. proc' = [proc EXCEPT ![p] = f1] \/ proc' = [proc EXCEPT ![p] = f3]
  OBVIOUS
<1> HIDE DEF f1, f3
<1> QED BY <1>2, <1>3, <1>4, <1>5 DEF Moves, Carries

\* And the tenant key it has.
LEMMA KekFrame ==
  ASSUME NEW f \in Frame, NEW label \in PC, NEW r \in Row, NEW k \in Kek \cup {NoKek}
  PROVE  [f EXCEPT !.kek = k, !.at = r, !.pc = label] \in Frame
BY DEF Frame

-----------------------------------------------------------------------------
\* What a step of p must do for the keys to stay where they are found.
QuietGoal(p, f) ==
  /\ \A d \in Dek : wrap'[d] \in {Root, Absent, sidecar'.kek}
  /\ ~NeverAttached(row') => sidecar'.kek \in {NoKek, row'.wrapped}
  /\ NeverAttached(row') /\ ~Unsettled' => sidecar'.kek = NoKek
  /\ NeverAttached(row') => NeverAttached(row) \/ (Holding \subseteq {p} /\ job.status # "pending")
  /\ \/ Rooted(wrap')
     \/ \A q \in Proc : q # p => proc[q].pc # "clear"
  /\ \/ sidecar'.kek \in {NoKek, sidecar.kek}
     \/ \A q \in Proc : q # p => ~(proc[q].pc = "reset" /\ ~NeverAttached(proc[q].at))
  /\ WorkFits(f, row', job.kind, wrap', sidecar'.kek)

\* A step of one process that leaves the job alone.
LEMMA MoveKeeps ==
  ASSUME TypeOK, HoldInv, LossInv, NEW p \in Proc, NEW f, Moves(p, f), job' = job,
         LoadFits(p, f, job.kind), causes \subseteq causes',
         Harmless' /\ Quiet => QuietGoal(p, f)
  PROVE  LossInv'
<1>1. \A q \in Proc : proc'[q] = IF q = p THEN f ELSE proc[q] BY DEF Moves, TypeOK
<1>2. \A q \in Proc : LoadFits(q, proc'[q], job'.kind) BY <1>1 DEF LossInv
<1>3. ASSUME Harmless' PROVE Quiet'
  <2>1. Quiet /\ QuietGoal(p, f) BY <1>3 DEF LossInv, Harmless
  <2>2. KeysFit' BY <2>1 DEF Quiet, KeysFit, QuietGoal, Holding
  <2>3. ASSUME NEW q \in Proc PROVE WorkFits(proc'[q], row', job.kind, wrap', sidecar'.kek)
    <3>1. CASE q = p BY <1>1, <2>1, <3>1 DEF QuietGoal
    <3>2. CASE q # p
      <4>1. proc'[q] = proc[q] /\ WorkFits(proc[q], row, job.kind, wrap, sidecar.kek)
        BY <1>1, <2>1, <3>2 DEF Quiet
      <4>2. proc[q].holds => q \in Holding BY DEF Holding
      <4>3. NeverAttached(row') => NeverAttached(row) \/ ~proc[q].holds
        BY <2>1, <3>2, <4>2 DEF QuietGoal
      <4>4. proc[q].pc = "clear" => Rooted(wrap')
        BY <2>1, <3>2, <4>1 DEF QuietGoal
      <4>5. proc[q].pc = "reset" /\ ~NeverAttached(proc[q].at) => sidecar'.kek = NoKek
        BY <2>1, <3>2, <4>1 DEF QuietGoal, WorkFits
      <4> QED BY <4>1, <4>3, <4>4, <4>5 DEF WorkFits
    <3> QED BY <3>1, <3>2
  <2> QED BY <2>2, <2>3 DEF Quiet
<1> QED BY <1>2, <1>3 DEF LossInv

\* What is unsettled stays so while its process goes on.
LEMMA UnsettledStays ==
  ASSUME TypeOK, NEW p \in Proc, NEW f, Moves(p, f), job' = job,
         MidReclaim(p) => f.pc \in {"revert", "abort"},
         f.holds /\ job.kind = "dek_rewrap" /\ f.pc \in {"succeed", "fail"} =>
           proc[p].pc \in {"succeed", "fail"}
  PROVE  Unsettled => Unsettled'
<1>1. \A q \in Proc : proc'[q] = IF q = p THEN f ELSE proc[q] BY DEF Moves, TypeOK
<1>2. \A q \in Proc : MidReclaim(q) => MidReclaim(q)' BY <1>1 DEF Moves, MidReclaim, At
<1>3. Holding' \subseteq Holding BY <1>1 DEF Holding, Moves
<1>4. AttachRuns => AttachRuns'
  <2> SUFFICES ASSUME AttachRuns, NEW w \in Holding' PROVE proc'[w].pc \notin {"succeed", "fail"}
    BY DEF AttachRuns
  <2>1. w \in Proc /\ w \in Holding /\ proc[w].pc \notin {"succeed", "fail"} BY <1>3 DEF AttachRuns, Holding
  <2>2. proc'[w].holds BY DEF Holding
  <2> QED BY <1>1, <2>1, <2>2 DEF AttachRuns
<1> QED BY <1>2, <1>4 DEF Unsettled

\* A step that only changes a frame.
LEMMA FrameKeeps ==
  ASSUME TypeOK, HoldInv, LossInv, NEW p \in Proc, NEW f, Moves(p, f),
         UNCHANGED <<row, job, sidecar, wrap>>, causes \subseteq causes',
         LoadFits(p, f, job.kind),
         MidReclaim(p) => f.pc \in {"revert", "abort"},
         Harmless' /\ Quiet =>
           /\ f.holds /\ job.kind = "dek_rewrap" /\ f.pc \in {"succeed", "fail"} => ~NeverAttached(row)
           /\ WorkFits(f, row, job.kind, wrap, sidecar.kek)
  PROVE  LossInv'
<1>1. ASSUME Harmless', Quiet PROVE QuietGoal(p, f)
  <2>1. KeysFit BY <1>1 DEF Quiet
  <2>2. NeverAttached(row) /\ ~Unsettled' => sidecar.kek = NoKek
    <3>1. CASE f.holds /\ job.kind = "dek_rewrap" /\ f.pc \in {"succeed", "fail"} BY <1>1, <3>1
    <3>2. CASE ~(f.holds /\ job.kind = "dek_rewrap" /\ f.pc \in {"succeed", "fail"})
      BY <2>1, <3>2, UnsettledStays DEF KeysFit
    <3> QED BY <3>1, <3>2
  <2> QED BY <1>1, <2>1, <2>2 DEF QuietGoal, KeysFit, Rooted, Quiet, WorkFits
<1> QED BY <1>1, MoveKeeps

\* Who holds the job works alone.
LEMMA Alone ==
  ASSUME HoldInv, NEW p \in Proc, proc[p].holds
  PROVE  /\ job.status = "running" /\ Holding = {p}
         /\ \A q \in Proc : q # p => ~proc[q].holds /\ proc[q].pc \notin JobPC
<1>1. p \in Holding BY DEF Holding
<1>2. job.status = "running" /\ Holding = {p} BY <1>1 DEF HoldInv, OneWorker
<1>3. \A q \in Proc : q # p => ~proc[q].holds BY <1>2 DEF Holding
<1> QED BY <1>2, <1>3 DEF HoldInv, FrameFits

\* A process at a label of the job holds it, and a call never does.
LEMMA WorkerHolds ==
  ASSUME HoldInv, LossInv, NEW p \in Proc
  PROVE  /\ proc[p].pc \in JobPC => proc[p].holds
         /\ p \in Worker /\ proc[p].pc \in {"kek", "store"} => proc[p].holds
         /\ p \in Call => ~proc[p].holds
BY DEF HoldInv, FrameFits, LossInv, LoadFits

\* A DEK that the sidecar cannot unwrap without a tenant key is under the root key.
LEMMA NoKeyRooted ==
  ASSUME TypeOK, KeysFit, sidecar.kek = NoKek
  PROVE  Rooted(wrap)
<1> SUFFICES ASSUME NEW d \in Dek PROVE wrap[d] \in {Root, Absent} BY DEF Rooted
<1>1. wrap[d] \in Kek \cup {Root, Absent} /\ NoKek \notin Kek BY KeysAreApart DEF TypeOK
<1>2. wrap[d] \in {Root, Absent, NoKek} BY DEF KeysFit
<1> QED BY <1>1, <1>2

\* The sidecar is sent the key of an attached row: every DEK stays covered.
LEMMA SendCovers ==
  ASSUME TypeOK, KeysFit, ~NeverAttached(row)
  PROVE  \A d \in Dek : wrap[d] \in {Root, Absent, row.wrapped}
<1>1. sidecar.kek \in {NoKek, row.wrapped} BY DEF KeysFit
<1>2. CASE sidecar.kek = NoKek BY <1>2, NoKeyRooted DEF Rooted
<1>3. CASE sidecar.kek = row.wrapped BY <1>3 DEF KeysFit
<1> QED BY <1>1, <1>2, <1>3

\* The step goal of the actions below.
LEMMA BeginLoss ==
  ASSUME TypeOK, HoldInv, LossInv, NEW c \in Call, NEW op \in Ops,
         NEW k \in CloudKey \cup {"managed"}, Begin(c, op, k)
  PROVE  LossInv'
<1> DEFINE f == [IdleFrame EXCEPT !.op = op, !.cloud = k, !.pc =
          IF op \in {"put", "putManaged", "attach", "detach", "breakGlass"} THEN "reclaim" ELSE "load"]
<1>1. f \in Frame BY IdleTyped, OpsAreOperations DEF Frame, PC
<1>2. ~f.holds /\ f.pc \in {"reclaim", "load"} /\ f.op = op /\ f.cloud = k BY DEF IdleFrame
<1>3. c \in Proc /\ proc' = [proc EXCEPT ![c] = f] BY DEF Begin, Proc
<1>4. /\ UNCHANGED <<row, job, sidecar, wrap, causes>> /\ proc[c].pc = "idle"
      /\ op = "put" => k # "managed"
  BY DEF Begin, At
<1> HIDE DEF f
<1>5. Moves(c, f) BY <1>1, <1>2, <1>3 DEF Moves
<1>6. LoadFits(c, f, job.kind) /\ WorkFits(f, row, job.kind, wrap, sidecar.kek)
  BY <1>2, <1>4 DEF LoadFits, WorkFits, AttachPC
<1>7. ~MidReclaim(c) BY <1>4 DEF MidReclaim, At
<1> QED BY <1>2, <1>3, <1>4, <1>5, <1>6, <1>7, FrameKeeps

\* A frame that goes back to idle fits.
LEMMA ReturnFits ==
  ASSUME NEW p \in Proc, NEW f, f.pc = "idle", f.op = "work", ~f.holds
  PROVE  \A kind, r, w, k : LoadFits(p, f, kind) /\ WorkFits(f, r, kind, w, k)
BY DEF LoadFits, WorkFits, AttachPC

\* Steps of a call that only load, or only return.
LEMMA CheckLoss ==
  ASSUME TypeOK, HoldInv, LossInv, NEW c \in Call, Check(c)
  PROVE  LossInv'
<1>1. c \in Proc /\ ~proc[c].holds /\ UNCHANGED <<row, job, sidecar, wrap, causes>>
      /\ (Return(c) \/ Goto(c, "load")) /\ ~MidReclaim(c)
  BY WorkerHolds DEF Check, Proc, MidReclaim, At
<1>2. CASE Return(c)
  <2>1. PICK f \in Frame : Moves(c, f) /\ f.pc = "idle" /\ f.op = "work" /\ ~f.holds
    BY <1>1, <1>2, ReturnMoves
  <2> QED BY <1>1, <2>1, ReturnFits, FrameKeeps
<1>3. CASE Goto(c, "load")
  <2>1. "load" \in PC BY DEF PC
  <2>2. PICK f \in Frame : Moves(c, f) /\ Carries(c, f) /\ f.pc = "load"
    BY <1>1, <1>3, <2>1, GotoMoves
  <2>3. LoadFits(c, f, job.kind) /\ WorkFits(f, row, job.kind, wrap, sidecar.kek)
    BY <1>1, <2>2 DEF LossInv, LoadFits, WorkFits, Carries, AttachPC
  <2> QED BY <1>1, <2>2, <2>3, FrameKeeps
<1> QED BY <1>1, <1>2, <1>3

LEMMA LoadLoss ==
  ASSUME TypeOK, HoldInv, LossInv, NEW c \in Call,
         LoadForPut(c) \/ LoadForPutManaged(c) \/ LoadConfig(c) \/ LoadForTenant(c)
  PROVE  LossInv'
<1>1. /\ c \in Proc /\ proc[c].pc = "load" /\ UNCHANGED <<row, job, sidecar, wrap, causes>>
      /\ ~MidReclaim(c) /\ row \in Row /\ row.status \in Status /\ ~proc[c].holds
      /\ NoKek \in Kek \cup {NoKek}
  <2>1. proc[c].pc = "load" /\ UNCHANGED <<row, job, sidecar, wrap, causes>>
    BY DEF LoadForPut, LoadForPutManaged, LoadConfig, LoadForTenant, At
  <2> QED BY <2>1, ParsTyped, WorkerHolds DEF Proc, MidReclaim, At
<1>2. \/ Return(c)
      \/ \E l \in {"write", "enqueue", "kek", "use", "set"} :
           /\ \/ proc' = [proc EXCEPT ![c] = [@ EXCEPT !.pc = l, !.at = row]]
              \/ proc' = [proc EXCEPT ![c] = [@ EXCEPT !.pc = l, !.at = row, !.previous = row.status]]
           /\ l = "write" /\ proc[c].op = "putManaged" => NeverAttached(row)
           /\ l = "set" => ~NeverAttached(row)
           /\ l = "enqueue" => row.source # "managed"
  <2>1. CASE LoadForPut(c) BY <2>1 DEF LoadForPut
  <2>2. CASE LoadForPutManaged(c) BY <2>2 DEF LoadForPutManaged
  <2>3. CASE LoadConfig(c) BY <2>3 DEF LoadConfig
  <2>4. CASE LoadForTenant(c) BY <2>4 DEF LoadForTenant
  <2> QED BY <2>1, <2>2, <2>3, <2>4
<1>3. CASE Return(c)
  <2>1. PICK f \in Frame : Moves(c, f) /\ f.pc = "idle" /\ f.op = "work" /\ ~f.holds
    BY <1>1, <1>3, ReturnMoves
  <2> QED BY <1>1, <2>1, ReturnFits, FrameKeeps
<1>4. ASSUME NEW l \in {"write", "enqueue", "kek", "use", "set"},
             \/ proc' = [proc EXCEPT ![c] = [@ EXCEPT !.pc = l, !.at = row]]
             \/ proc' = [proc EXCEPT ![c] = [@ EXCEPT !.pc = l, !.at = row, !.previous = row.status]],
             l = "write" /\ proc[c].op = "putManaged" => NeverAttached(row),
             l = "set" => ~NeverAttached(row),
             l = "enqueue" => row.source # "managed"
      PROVE LossInv'
  <2>1. l \in PC BY DEF PC
  <2>2. PICK f \in Frame : Moves(c, f) /\ Carries(c, f) /\ f.pc = l /\ f.at = row
    BY <1>1, <1>4, <2>1, LoadMoves
  <2>3. LoadFits(c, f, job.kind) /\ WorkFits(f, row, job.kind, wrap, sidecar.kek)
    BY <1>1, <1>4, <2>2 DEF LossInv, LoadFits, WorkFits, Carries, AttachPC
  <2> QED BY <1>1, <2>2, <2>3, FrameKeeps
<1> QED BY <1>2, <1>3, <1>4

\* A KEK is unwrapped, or a new one is generated.
LEMMA LoadKekLoss ==
  ASSUME TypeOK, HoldInv, LossInv, NEW p \in Proc, LoadKek(p)
  PROVE  LossInv'
<1>1. /\ proc[p].pc = "kek" /\ UNCHANGED <<row, job, sidecar, wrap, causes>>
      /\ ~MidReclaim(p) /\ row \in Row /\ row.wrapped \in Kek \cup {NoKek} /\ row.status \in Status
  BY ParsTyped DEF LoadKek, MidReclaim, At
<1>2. /\ p \in Worker => proc[p].holds /\ job.kind = "dek_rewrap"
      /\ p \in Call => ~proc[p].holds
      /\ (p \in Call \/ p \in Worker) /\ ~(p \in Call /\ p \in Worker)
  BY <1>1, WorkerHolds, ActorsAreApart DEF LossInv, LoadFits, Proc
<1>3. /\ AfterKek(p) \in {"dual", "enqueue", "idle"} /\ AfterError(p) \in {"revert", "unavailable", "idle"}
      /\ p \in Worker => AfterKek(p) = "dual" /\ AfterError(p) = "revert"
      /\ p \in Call => AfterKek(p) # "dual" /\ AfterError(p) # "revert"
  BY <1>2 DEF AfterKek, AfterError
<1>4. \/ Return(p)
      \/ Goto(p, AfterError(p)) /\ AfterError(p) # "idle"
      \/ \E k \in Kek \cup {NoKek}, l \in {AfterKek(p), "store"} :
           /\ proc' = [proc EXCEPT ![p] = [@ EXCEPT !.kek = k, !.at = row, !.pc = l]]
           /\ row.source # "managed" /\ row.wrapped \in {NoKek, k}
  <2>1. CASE /\ Opens(row)
             /\ proc' = [proc EXCEPT ![p] =
                  IF AfterKek(p) = "idle" /\ proc[p].op # "rotate" THEN IdleFrame
                  ELSE [@ EXCEPT !.kek = row.wrapped, !.at = row,
                                 !.pc = IF proc[p].op = "rotate" THEN "store" ELSE AfterKek(p)]]
    <3>1. row.source # "managed" BY <2>1 DEF Opens
    <3>2. CASE AfterKek(p) = "idle" /\ proc[p].op # "rotate" BY <2>1, <3>2 DEF Return
    <3>3. CASE ~(AfterKek(p) = "idle" /\ proc[p].op # "rotate") BY <1>1, <2>1, <3>1, <3>3
    <3> QED BY <3>2, <3>3
  <2>2. CASE /\ row.source # "managed" /\ row.wrapped = NoKek
             /\ \E k \in Kek \ used : proc' = [proc EXCEPT ![p].kek = k, ![p].at = row, ![p].pc = "store"]
    <3>1. PICK k \in Kek \ used : proc' = [proc EXCEPT ![p].kek = k, ![p].at = row, ![p].pc = "store"]
      BY <2>2
    <3>2. proc' = [proc EXCEPT ![p] = [@ EXCEPT !.kek = k, !.at = row, !.pc = "store"]] BY <3>1
    <3> QED BY <2>2, <3>1, <3>2
  <2>3. CASE Leave(p, AfterError(p)) BY <2>3 DEF Leave
  <2> QED BY <2>1, <2>2, <2>3 DEF LoadKek
<1>5. CASE Return(p)
  <2>1. PICK f \in Frame : Moves(p, f) /\ f.pc = "idle" /\ f.op = "work" /\ ~f.holds
    BY <1>5, ReturnMoves
  <2> QED BY <1>1, <2>1, ReturnFits, FrameKeeps
<1>6. CASE Goto(p, AfterError(p)) /\ AfterError(p) # "idle"
  <2>1. AfterError(p) \in PC BY <1>3 DEF PC
  <2>2. PICK f \in Frame : Moves(p, f) /\ Carries(p, f) /\ f.pc = AfterError(p)
    BY <1>6, <2>1, GotoMoves
  <2>3. LoadFits(p, f, job.kind) /\ WorkFits(f, row, job.kind, wrap, sidecar.kek)
    BY <1>2, <1>3, <2>2 DEF LossInv, LoadFits, WorkFits, Carries, AttachPC
  <2>4. f.pc \notin {"succeed", "fail"} BY <1>3, <2>2
  <2> QED BY <1>1, <2>2, <2>3, <2>4, FrameKeeps
<1>7. ASSUME NEW k \in Kek \cup {NoKek}, NEW l \in {AfterKek(p), "store"},
             proc' = [proc EXCEPT ![p] = [@ EXCEPT !.kek = k, !.at = row, !.pc = l]],
             row.source # "managed", row.wrapped \in {NoKek, k}
      PROVE  LossInv'
  <2>1. l \in PC BY <1>3 DEF PC
  <2> DEFINE f == [proc[p] EXCEPT !.kek = k, !.at = row, !.pc = l]
  <2>2. f \in Frame /\ f.pc = l /\ f.at = row /\ f.kek = k /\ Carries(p, f)
    <3>1. proc[p] \in Frame /\ row \in Row BY ParsTyped
    <3>2. k \in Kek \cup {NoKek} BY <1>7
    <3>3. f \in Frame BY <2>1, <3>1, <3>2, KekFrame
    <3>4. /\ f.pc = l /\ f.at = row /\ f.kek = k
          /\ f.holds = proc[p].holds /\ f.op = proc[p].op /\ f.cloud = proc[p].cloud
      BY <2>1, <3>1, <3>2 DEF Frame
    <3> QED BY <3>3, <3>4 DEF Carries
  <2>7. proc' = [proc EXCEPT ![p] = f] BY <1>7
  <2> HIDE DEF f
  <2>6. Moves(p, f) /\ Carries(p, f) /\ f.pc = l /\ f.at = row /\ f.kek = k
    BY <2>2, <2>7 DEF Moves, Carries
  <2>3. LoadFits(p, f, job.kind)
    BY <1>2, <1>3, <1>7, <2>6 DEF LossInv, LoadFits, Carries
  <2>4. Quiet => WorkFits(f, row, job.kind, wrap, sidecar.kek)
    <3>1. Quiet => WorkFits(proc[p], row, job.kind, wrap, sidecar.kek) BY DEF Quiet
    <3> QED BY <1>1, <1>3, <1>7, <2>6, <3>1 DEF WorkFits, Carries, AttachPC
  <2>5. f.pc \notin {"succeed", "fail"} BY <1>3, <2>6
  <2> QED BY <1>1, <2>6, <2>3, <2>4, <2>5, FrameKeeps
<1> QED BY <1>4, <1>5, <1>6, <1>7

\* A call returns, and the row stays attached, under the same key, or not.
LEMMA RowLoss ==
  ASSUME TypeOK, HoldInv, LossInv, NEW c \in Call, Return(c), proc[c].pc \notin {"revert", "abort"},
         UNCHANGED <<job, sidecar, wrap>>, causes \subseteq causes',
         Harmless' => \/ NeverAttached(row') /\ NeverAttached(row)
                      \/ ~NeverAttached(row') /\ ~NeverAttached(row) /\ row'.wrapped = row.wrapped
  PROVE  LossInv'
<1>1. c \in Proc /\ ~MidReclaim(c) BY DEF Proc, MidReclaim, At
<1>2. PICK f \in Frame : Moves(c, f) /\ f.pc = "idle" /\ f.op = "work" /\ ~f.holds
  BY <1>1, ReturnMoves
<1>3. LoadFits(c, f, job.kind) /\ WorkFits(f, row', job.kind, wrap', sidecar'.kek) BY <1>1, <1>2, ReturnFits
<1>4. ASSUME Harmless', Quiet PROVE QuietGoal(c, f)
  <2>1. Unsettled => Unsettled' BY <1>1, <1>2, UnsettledStays
  <2>2. KeysFit BY <1>4 DEF Quiet
  <2>3. \A q \in Proc : proc[q].pc = "clear" => Rooted(wrap) BY <1>4 DEF Quiet, WorkFits
  <2> QED BY <1>3, <1>4, <2>1, <2>2, <2>3 DEF QuietGoal, KeysFit
<1> QED BY <1>1, <1>2, <1>3, <1>4, MoveKeeps

\* A cause that is recorded stays, and is in the way of being harmless.
LEMMA BlameGrows ==
  ASSUME NEW c \in Harmful, NEW happened, Blame(c, happened)
  PROVE  causes \subseteq causes' /\ (Harmless' => ~happened)
BY DEF Blame, Harmless

\* updateConfig and upsertManaged write, and a failed verify.
LEMMA WriteLoss ==
  ASSUME TypeOK, HoldInv, LossInv, NEW c \in Call,
         WriteCloud(c) \/ WriteManaged(c) \/ MarkUnavailable(c)
  PROVE  LossInv'
<1>1. c \in Proc /\ LoadFits(c, proc[c], job.kind) /\ "stale_write" \in Harmful
  BY DEF LossInv, Proc, Harmful
<1>2. /\ Return(c) /\ UNCHANGED <<job, sidecar, wrap>> /\ proc[c].pc \in {"write", "unavailable"}
  BY DEF WriteCloud, WriteManaged, MarkUnavailable, At
<1>3. row \in Row /\ proc[c].at \in Row BY <1>1, ParsTyped
<1>4. CASE WriteCloud(c)
  <2>1. causes \subseteq causes' /\ (Harmless' => row = proc[c].at)
    BY <1>1, <1>4, BlameGrows DEF WriteCloud
  <2>2. proc[c].cloud # "managed" BY <1>1, <1>4 DEF WriteCloud, LoadFits
  <2>3. row' = [row EXCEPT !.source = proc[c].cloud, !.status = NextCloudPutStatus(proc[c].at)]
    BY <1>4 DEF WriteCloud
  <2>4. /\ row'.source = proc[c].cloud /\ row'.status = NextCloudPutStatus(proc[c].at)
        /\ row'.wrapped = row.wrapped
    BY <1>3, <2>3 DEF Row
  <2> QED BY <1>2, <2>1, <2>2, <2>4, RowLoss DEF NeverAttached, NextCloudPutStatus
<1>5. CASE WriteManaged(c)
  <2>1. causes \subseteq causes' /\ (Harmless' => row = proc[c].at)
    BY <1>1, <1>5, BlameGrows DEF WriteManaged
  <2>2. NeverAttached(proc[c].at) BY <1>1, <1>5 DEF WriteManaged, LoadFits, At
  <2>3. NeverAttached(row') BY <1>5 DEF WriteManaged, NeverAttached, ManagedRow
  <2> QED BY <1>2, <2>1, <2>2, <2>3, RowLoss
<1>6. CASE MarkUnavailable(c)
  <2>1. causes \subseteq causes' /\ (Harmless' => row.status = "active")
    BY <1>1, <1>6, BlameGrows DEF MarkUnavailable
  <2>2. row' = IF row.source = "managed" THEN row ELSE [row EXCEPT !.status = "unavailable"]
    BY <1>6 DEF MarkUnavailable
  <2>3. row' = row \/ (row.source # "managed" /\ row'.source = row.source
                       /\ row'.status = "unavailable" /\ row'.wrapped = row.wrapped)
    BY <1>3, <2>2 DEF Row
  <2> QED BY <1>2, <2>1, <2>3, RowLoss DEF NeverAttached
<1> QED BY <1>4, <1>5, <1>6

\* A KEK is stored: a row that had one keeps it, a row that had none had
\* nothing under a tenant key.
LEMMA StoreKekLoss ==
  ASSUME TypeOK, HoldInv, LossInv, NEW p \in Proc, StoreKek(p)
  PROVE  LossInv'
<1>1. /\ proc[p].pc = "store" /\ UNCHANGED <<job, sidecar, wrap>>
      /\ ~MidReclaim(p) /\ row \in Row /\ "stale_write" \in Harmful
      /\ LoadFits(p, proc[p], job.kind)
  BY ParsTyped DEF StoreKek, MidReclaim, At, LossInv, Harmful
<1>2. /\ p \in Worker => proc[p].holds /\ job.kind = "dek_rewrap"
      /\ p \in Call => ~proc[p].holds
      /\ (p \in Call \/ p \in Worker) /\ ~(p \in Call /\ p \in Worker)
  BY <1>1, WorkerHolds, ActorsAreApart DEF LoadFits, Proc
<1>3. /\ AfterKek(p) \in {"dual", "enqueue", "idle"} /\ (AfterKek(p) = "dual" <=> p \in Worker)
      /\ AfterKek(p) \in PC
  BY DEF AfterKek, PC
<1>4. row' = [row EXCEPT !.wrapped = proc[p].kek, !.by = proc[p].at.source] BY DEF StoreKek
<1>5. row'.wrapped = proc[p].kek /\ row'.source = row.source /\ row'.status = row.status
  BY <1>1, <1>4 DEF Row
<1>6. causes \subseteq causes' /\ (Harmless' => row = proc[p].at)
  BY <1>1, BlameGrows DEF StoreKek
<1>7. proc[p].at.source # "managed" /\ proc[p].at.wrapped \in {NoKek, proc[p].kek}
  BY <1>1 DEF LoadFits
<1>8. \E f \in Frame :
        /\ Moves(p, f)
        /\ \/ f.pc = "idle" /\ f.op = "work" /\ ~f.holds
           \/ Carries(p, f) /\ f.pc = AfterKek(p) /\ f.at = row' /\ f.pc \in {"dual", "enqueue"}
  <2>1. CASE Return(p) BY <2>1, ReturnMoves
  <2>2. CASE AfterKek(p) # "idle" /\ proc' = [proc EXCEPT ![p].pc = AfterKek(p), ![p].at = row']
    <3> DEFINE f == [proc[p] EXCEPT !.pc = AfterKek(p), !.at = row']
    <3>1. proc[p] \in Frame BY ParsTyped
    <3>2. row' \in Row
      <4>1. proc[p].kek \in Kek \cup {NoKek} /\ proc[p].at.source \in CloudKey \cup {"managed"} BY ParsTyped
      <4> QED BY <1>1, <1>4, <4>1 DEF Row
    <3>3. f \in Frame BY <1>3, <3>1, <3>2 DEF Frame
    <3>4. /\ f.pc = AfterKek(p) /\ f.at = row' /\ f.holds = proc[p].holds
          /\ f.op = proc[p].op /\ f.cloud = proc[p].cloud
      BY <3>1 DEF Frame
    <3>5. proc' = [proc EXCEPT ![p] = f] BY <2>2
    <3> HIDE DEF f
    <3> QED BY <1>3, <2>2, <3>3, <3>4, <3>5 DEF Moves, Carries
  <2> QED BY <2>1, <2>2 DEF StoreKek
<1>9. PICK f \in Frame :
        /\ Moves(p, f)
        /\ \/ f.pc = "idle" /\ f.op = "work" /\ ~f.holds
           \/ Carries(p, f) /\ f.pc = AfterKek(p) /\ f.at = row' /\ f.pc \in {"dual", "enqueue"}
  BY <1>8
<1>10. LoadFits(p, f, job.kind)
  BY <1>1, <1>2, <1>3, <1>9 DEF LoadFits, Carries
<1>11. ASSUME Harmless', Quiet PROVE QuietGoal(p, f)
  <2>1. f.pc \notin {"succeed", "fail"} BY <1>9
  <2>2. Unsettled => Unsettled' BY <1>1, <1>9, <2>1, UnsettledStays
  <2>3. KeysFit /\ \A q \in Proc : proc[q].pc = "clear" => Rooted(wrap) BY <1>11 DEF Quiet, WorkFits
  <2>4. row = proc[p].at BY <1>6, <1>11
  <2>5. NeverAttached(row') <=> NeverAttached(row) BY <1>5 DEF NeverAttached
  <2>6. ~NeverAttached(row') => sidecar.kek \in {NoKek, row'.wrapped}
    BY <1>5, <1>7, <2>3, <2>4, <2>5 DEF KeysFit
  <2>7. WorkFits(proc[p], row, job.kind, wrap, sidecar.kek) BY <1>11 DEF Quiet
  <2>8. WorkFits(f, row', job.kind, wrap', sidecar'.kek)
    BY <1>1, <1>5, <1>7, <1>9, <2>4, <2>5, <2>7 DEF WorkFits, Carries, AttachPC
  <2> QED BY <1>1, <2>2, <2>3, <2>5, <2>6, <2>8 DEF QuietGoal, KeysFit
<1> QED BY <1>1, <1>6, <1>9, <1>10, <1>11, MoveKeeps

\* A tenant operation uses a DEK: a new one is wrapped by the key the
\* sidecar has.
LEMMA UseDekLoss ==
  ASSUME TypeOK, HoldInv, LossInv, NEW c \in Call, UseDek(c)
  PROVE  LossInv'
<1>1. c \in Proc /\ ~MidReclaim(c) /\ UNCHANGED <<row, job, sidecar>> /\ Return(c)
  BY DEF Proc, UseDek, MidReclaim, At
<1>2. PICK f \in Frame : Moves(c, f) /\ f.pc = "idle" /\ f.op = "work" /\ ~f.holds
  BY <1>1, ReturnMoves
<1>3. LoadFits(c, f, job.kind) /\ WorkFits(f, row', job.kind, wrap', sidecar'.kek) BY <1>1, <1>2, ReturnFits
<1>4. "used_in_detach" \in Harmful BY DEF Harmful
<1>5. \/ UNCHANGED <<wrap, causes>>
      \/ /\ \E d \in Dek : wrap' = [wrap EXCEPT ![d] = IF sidecar.kek = NoKek THEN Root ELSE sidecar.kek]
         /\ Blame("used_in_detach", \E w \in Worker : MidDetach(w))
  BY DEF UseDek
<1>6. causes \subseteq causes' /\ (Harmless' => wrap' = wrap \/ ~\E w \in Worker : MidDetach(w))
  BY <1>4, <1>5, BlameGrows
<1>7. ASSUME Harmless', Quiet PROVE QuietGoal(c, f)
  <2>1. Unsettled => Unsettled' BY <1>1, <1>2, UnsettledStays
  <2>2. KeysFit BY <1>7 DEF Quiet
  <2>3. \A d \in Dek : wrap'[d] \in {Root, Absent, sidecar.kek}
    BY <1>5, <2>2 DEF KeysFit, TypeOK
  <2>4. Rooted(wrap') \/ \A q \in Proc : q # c => proc[q].pc # "clear"
    <3>1. CASE wrap' = wrap BY <1>7, <3>1 DEF Quiet, WorkFits
    <3>2. CASE ~\E w \in Worker : MidDetach(w)
      <4> SUFFICES ASSUME NEW q \in Proc, proc[q].pc = "clear" PROVE FALSE OBVIOUS
      <4>1. q \in Worker BY WorkerHolds DEF JobPC, Proc
      <4> QED BY <3>2, <4>1 DEF MidDetach, At
    <3> QED BY <1>6, <1>7, <3>1, <3>2
  <2> QED BY <1>1, <1>3, <1>7, <2>1, <2>2, <2>3, <2>4 DEF QuietGoal, KeysFit
<1> QED BY <1>1, <1>2, <1>3, <1>6, <1>7, MoveKeeps

\* ensureTenantKek sends the key of the row it loaded, or marks the row.
LEMMA SetForTenantLoss ==
  ASSUME TypeOK, HoldInv, LossInv, NEW c \in Call, SetForTenant(c)
  PROVE  LossInv'
<1> DEFINE at == proc[c].at
           root == at.status = "rotating"
<1>1. /\ c \in Proc /\ ~MidReclaim(c) /\ UNCHANGED <<job, wrap>> /\ proc[c].pc = "set"
      /\ ~NeverAttached(at) /\ {"stale_write", "used_in_detach"} \subseteq Harmful /\ row \in Row
  BY ParsTyped DEF Proc, SetForTenant, MidReclaim, At, LossInv, LoadFits, Harmful
<1>2. CASE /\ sidecar' = [kek |-> at.wrapped, root |-> root]
           /\ causes' = causes \cup (IF row # at THEN {"stale_write"} ELSE {})
                 \cup (IF \E w \in Worker : MidDetach(w) THEN {"used_in_detach"} ELSE {})
                 \cup (IF root /\ \E w \in Worker : At(w, "mark") THEN {"dual_sent_late"} ELSE {})
           /\ Goto(c, "use") /\ row' = row
  <2>1. "use" \in PC BY DEF PC
  <2>2. PICK f \in Frame : Moves(c, f) /\ Carries(c, f) /\ f.pc = "use"
    BY <1>1, <1>2, <2>1, GotoMoves
  <2>3. LoadFits(c, f, job.kind) /\ WorkFits(f, row', job.kind, wrap', sidecar'.kek)
    BY <1>1, <2>2 DEF LossInv, LoadFits, WorkFits, Carries, AttachPC
  <2>4. causes \subseteq causes' /\ (Harmless' => row = at /\ ~\E w \in Worker : MidDetach(w))
    BY <1>1, <1>2 DEF Harmless
  <2>5. sidecar'.kek = at.wrapped BY <1>2
  <2>6. ASSUME Harmless', Quiet PROVE QuietGoal(c, f)
    <3>1. KeysFit /\ row = at /\ ~\E w \in Worker : MidDetach(w) BY <2>4, <2>6 DEF Quiet
    <3>2. \A d \in Dek : wrap'[d] \in {Root, Absent, sidecar'.kek} BY <1>1, <2>5, <3>1, SendCovers
    <3>3. Rooted(wrap') \/ \A q \in Proc : q # c => proc[q].pc # "clear"
      BY <1>1, <2>6 DEF Quiet, WorkFits
    <3>4. \A q \in Proc : q # c => ~(proc[q].pc = "reset" /\ ~NeverAttached(proc[q].at))
      <4> SUFFICES ASSUME NEW q \in Proc, proc[q].pc = "reset", ~NeverAttached(proc[q].at) PROVE FALSE
        OBVIOUS
      <4>1. q \in Worker BY WorkerHolds DEF JobPC, Proc
      <4> QED BY <3>1, <4>1 DEF MidDetach, At
    <3> QED BY <1>1, <1>2, <2>3, <2>5, <3>1, <3>2, <3>3, <3>4 DEF QuietGoal
  <2> QED BY <1>1, <2>2, <2>3, <2>4, <2>6, MoveKeeps
<1>3. CASE Goto(c, "use") /\ UNCHANGED <<row, causes, sidecar>>
  <2>1. "use" \in PC BY DEF PC
  <2>2. PICK f \in Frame : Moves(c, f) /\ Carries(c, f) /\ f.pc = "use"
    BY <1>1, <1>3, <2>1, GotoMoves
  <2>3. LoadFits(c, f, job.kind) /\ WorkFits(f, row, job.kind, wrap, sidecar.kek)
    BY <1>1, <2>2 DEF LossInv, LoadFits, WorkFits, Carries, AttachPC
  <2> QED BY <1>1, <1>3, <2>2, <2>3, FrameKeeps
<1>4. CASE /\ ~root /\ Return(c) /\ sidecar' = sidecar /\ Blame("stale_write", row # at)
           /\ row' = IF row.source = "managed" THEN row ELSE [row EXCEPT !.status = "unavailable"]
  <2>1. causes \subseteq causes' /\ (Harmless' => row = at) BY <1>1, <1>4, BlameGrows
  <2>2. row' = row \/ (row.source # "managed" /\ row'.source = row.source
                       /\ row'.status = "unavailable" /\ row'.wrapped = row.wrapped)
    BY <1>1, <1>4 DEF Row
  <2>3. Harmless' => /\ ~NeverAttached(row') /\ ~NeverAttached(row) /\ row'.wrapped = row.wrapped
    BY <1>1, <2>1, <2>2 DEF NeverAttached
  <2> QED BY <1>1, <1>4, <2>1, <2>3, RowLoss
<1> QED BY <1>2, <1>3, <1>4 DEF SetForTenant, Send

-----------------------------------------------------------------------------
\* An attach is enqueued: unless a reclaim is under way the sidecar has no
\* key, or the key of the row.
LEMMA EnqueueLoss ==
  ASSUME TypeOK, HoldInv, LossInv, NEW c \in Call, EnqueueAttach(c) \/ EnqueueDetach(c)
  PROVE  LossInv'
<1>1. /\ c \in Proc /\ Return(c) /\ proc[c].pc \in {"enqueue", "load"} /\ ~MidReclaim(c)
      /\ UNCHANGED <<wrap, sidecar>> /\ row \in Row
  BY ParsTyped DEF Proc, EnqueueAttach, EnqueueDetach, MidReclaim, At
<1>2. PICK f \in Frame : Moves(c, f) /\ f.pc = "idle" /\ f.op = "work" /\ ~f.holds
  BY <1>1, ReturnMoves
<1>3. \A kind, r, w, k : LoadFits(c, f, kind) /\ WorkFits(f, r, kind, w, k) BY <1>1, <1>2, ReturnFits
<1>4. \A q \in Proc : proc'[q] = IF q = c THEN f ELSE proc[q] BY <1>2 DEF Moves, TypeOK
<1>5. CASE UNCHANGED <<row, job, causes>>
  BY <1>1, <1>2, <1>3, <1>5, FrameKeeps
<1>6. ASSUME ~Active, job'.status = "pending", causes \subseteq causes',
             Harmless' => \/ row' = row /\ job'.kind = "detach_managed"
                          \/ /\ ~NeverAttached(row') /\ row'.wrapped = row.wrapped
                             /\ \A p \in Proc : ~MidReclaim(p)
      PROVE  LossInv'
  <2>1. Holding = {} BY <1>6 DEF Active, HoldInv, OneWorker
  <2>2. \A q \in Proc : ~proc[q].holds /\ ~proc'[q].holds BY <1>2, <1>4, <2>1 DEF Holding
  <2>3. \A q \in Proc : LoadFits(q, proc'[q], job'.kind)
    BY <1>3, <1>4, <2>2 DEF LossInv, LoadFits
  <2>4. ASSUME Harmless' PROVE Quiet'
    <3>1. Quiet BY <1>6, <2>4 DEF LossInv, Harmless
    <3>2. Unsettled => Unsettled' /\ \E p \in Proc : MidReclaim(p)
      <4>1. \A q \in Proc : MidReclaim(q) => MidReclaim(q)' BY <1>1, <1>4 DEF MidReclaim, At
      <4>2. ~AttachRuns BY <1>6 DEF AttachRuns, Active
      <4> QED BY <4>1, <4>2 DEF Unsettled
    <3>3. KeysFit'
      <4>1. CASE row' = row /\ job'.kind = "detach_managed"
        BY <1>1, <3>1, <3>2, <4>1 DEF Quiet, KeysFit
      <4>2. CASE /\ ~NeverAttached(row') /\ row'.wrapped = row.wrapped
                 /\ \A p \in Proc : ~MidReclaim(p)
        BY <1>1, <3>1, <3>2, <4>2 DEF Quiet, KeysFit
      <4> QED BY <1>6, <2>4, <4>1, <4>2
    <3>4. ASSUME NEW q \in Proc PROVE WorkFits(proc'[q], row', job'.kind, wrap', sidecar'.kek)
      BY <1>1, <1>3, <1>4, <2>2, <3>1 DEF Quiet, WorkFits
    <3> QED BY <3>3, <3>4 DEF Quiet
  <2> QED BY <2>3, <2>4 DEF LossInv
<1>7. CASE EnqueueAttach(c) /\ ~Active
  <2>1. /\ proc[c].pc = "enqueue" /\ row' = [row EXCEPT !.status = "rotating"]
        /\ job' = [kind |-> "dek_rewrap", status |-> "pending", previous |-> proc[c].previous, warmup |-> FALSE]
        /\ causes' = causes \cup (IF row # proc[c].at THEN {"stale_write"} ELSE {})
                            \cup (IF \E p \in Proc : Reclaiming(p) THEN {"reclaim_overlapped"} ELSE {})
    BY <1>7 DEF EnqueueAttach, NewJob, At
  <2>2. row'.source = row.source /\ row'.status = "rotating" /\ row'.wrapped = row.wrapped
    BY <1>1, <2>1 DEF Row
  <2>3. causes \subseteq causes' /\ (Harmless' => row = proc[c].at /\ \A p \in Proc : ~MidReclaim(p))
    BY <2>1 DEF Harmless, Harmful, Reclaiming
  <2>4. Harmless' => proc[c].at.source # "managed"
    BY <1>1, <2>1, <2>3 DEF LossInv, Quiet, WorkFits, Harmless
  <2>5. Harmless' => /\ ~NeverAttached(row') /\ row'.wrapped = row.wrapped
                     /\ \A p \in Proc : ~MidReclaim(p)
    BY <2>2, <2>3, <2>4 DEF NeverAttached
  <2>6. job'.status = "pending" BY <2>1
  <2> QED BY <1>6, <1>7, <2>3, <2>5, <2>6
<1>8. CASE EnqueueDetach(c) /\ ~Active /\ row.source # "managed"
  <2>1. /\ job'.kind = "detach_managed" /\ job'.status = "pending"
        /\ UNCHANGED <<row, causes>>
    BY <1>8 DEF EnqueueDetach, NewJob
  <2> QED BY <1>6, <1>8, <2>1
<1> QED BY <1>5, <1>7, <1>8 DEF EnqueueAttach, EnqueueDetach

\* A job is claimed: an attach finds the row attached.
LEMMA ClaimLoss ==
  ASSUME TypeOK, HoldInv, LossInv, NEW w \in Worker, Claim(w)
  PROVE  LossInv'
<1> DEFINE f == [proc[w] EXCEPT !.pc = "row", !.holds = TRUE, !.previous = job.previous]
<1>1. /\ w \in Proc /\ w \notin Call /\ proc[w] \in Frame /\ proc[w].pc = "idle"
      /\ job.status = "pending" /\ UNCHANGED <<row, sidecar, wrap, causes>>
      /\ job' = [job EXCEPT !.status = "running"]
  BY ActorsAreApart, ParsTyped DEF Claim, At, Proc
<1>2. f.pc = "row" /\ f.holds /\ f.op = proc[w].op /\ f.cloud = proc[w].cloud BY <1>1 DEF Frame
<1>3. proc' = [proc EXCEPT ![w] = f] BY DEF Claim
<1> HIDE DEF f
<1>4. \A q \in Proc : proc'[q] = IF q = w THEN f ELSE proc[q] BY <1>3 DEF TypeOK
<1>5. job'.kind = job.kind /\ job'.status = "running" BY <1>1 DEF TypeOK, Job
<1>6. ASSUME NEW q \in Proc PROVE LoadFits(q, proc'[q], job'.kind)
  BY <1>1, <1>2, <1>4, <1>5 DEF LossInv, LoadFits
<1>7. ASSUME Harmless' PROVE Quiet'
  <2>1. Quiet BY <1>1, <1>7 DEF LossInv, Harmless
  <2>2. Unsettled => Unsettled'
    <3>1. ~AttachRuns BY <1>1 DEF AttachRuns
    <3>2. \A q \in Proc : MidReclaim(q) => MidReclaim(q)' BY <1>1, <1>4 DEF MidReclaim, At
    <3> QED BY <3>1, <3>2 DEF Unsettled
  <2>3. KeysFit' BY <1>1, <1>5, <2>1, <2>2 DEF Quiet, KeysFit
  <2>4. ASSUME NEW q \in Proc PROVE WorkFits(proc'[q], row', job'.kind, wrap', sidecar'.kek)
    BY <1>1, <1>2, <1>4, <1>5, <2>1 DEF Quiet, KeysFit, WorkFits
  <2> QED BY <2>3, <2>4 DEF Quiet
<1> QED BY <1>6, <1>7 DEF LossInv

\* A job ends: an attach is over once it has succeeded or is undone.
LEMMA EndJobLoss ==
  ASSUME TypeOK, HoldInv, LossInv, NEW w \in Worker, EndJob(w)
  PROVE  LossInv'
<1>1. /\ w \in Proc /\ proc[w].pc \in {"succeed", "fail"} /\ Return(w)
      /\ UNCHANGED <<row, sidecar, wrap, causes>>
      /\ job' = [job EXCEPT !.status = IF At(w, "fail") THEN "failed" ELSE "succeeded"]
  BY DEF EndJob, At, Proc
<1>2. PICK f \in Frame : Moves(w, f) /\ f.pc = "idle" /\ f.op = "work" /\ ~f.holds
  BY <1>1, ReturnMoves
<1>3. \A kind, r, u, k : LoadFits(w, f, kind) /\ WorkFits(f, r, kind, u, k) BY <1>1, <1>2, ReturnFits
<1>4. \A q \in Proc : proc'[q] = IF q = w THEN f ELSE proc[q] BY <1>2 DEF Moves, TypeOK
<1>5. job'.kind = job.kind /\ job'.status \notin {"running", "pending"} BY <1>1 DEF TypeOK, Job
<1>6. ASSUME NEW q \in Proc PROVE LoadFits(q, proc'[q], job'.kind)
  BY <1>3, <1>4, <1>5 DEF LossInv
<1>7. ASSUME Harmless' PROVE Quiet'
  <2>1. Quiet BY <1>1, <1>7 DEF LossInv, Harmless
  <2>2. Unsettled => Unsettled'
    <3>1. proc[w].holds BY <1>1, WorkerHolds DEF JobPC
    <3>2. ~AttachRuns BY <1>1, <3>1 DEF AttachRuns, Holding
    <3>3. \A q \in Proc : MidReclaim(q) => MidReclaim(q)' BY <1>1, <1>4 DEF MidReclaim, At
    <3> QED BY <3>2, <3>3 DEF Unsettled
  <2>3. KeysFit' BY <1>1, <1>5, <2>1, <2>2 DEF Quiet, KeysFit
  <2>4. ASSUME NEW q \in Proc PROVE WorkFits(proc'[q], row', job'.kind, wrap', sidecar'.kek)
    BY <1>1, <1>3, <1>4, <1>5, <2>1 DEF Quiet
  <2> QED BY <2>3, <2>4 DEF Quiet
<1> QED BY <1>6, <1>7 DEF LossInv

\* Leaving for a label.
LEMMA LeaveMoves ==
  ASSUME TypeOK, NEW p \in Proc, NEW label \in PC, Leave(p, label)
  PROVE  \E f \in Frame : /\ Moves(p, f) /\ f.pc = label
                          /\ f.op = "put" => proc[p].op = "put" /\ f.cloud = proc[p].cloud
<1>1. CASE label = "idle"
  <2>1. PICK f \in Frame : Moves(p, f) /\ f.pc = "idle" /\ f.op = "work" /\ ~f.holds
    BY <1>1, ReturnMoves DEF Leave
  <2> QED BY <1>1, <2>1
<1>2. CASE label # "idle"
  <2>1. PICK f \in Frame : Moves(p, f) /\ Carries(p, f) /\ f.pc = label
    BY <1>2, GotoMoves DEF Leave
  <2> QED BY <2>1 DEF Carries
<1> QED BY <1>1, <1>2

\* A stale job is found.
LEMMA SelectLoss ==
  ASSUME TypeOK, HoldInv, StaleInv, LossInv, NEW p \in Proc, SelectStale(p)
  PROVE  LossInv'
<1> DEFINE f == [proc[p] EXCEPT !.pc = "stale", !.stale = jobs,
                   !.undo = job.kind = "dek_rewrap", !.previous = job.previous]
<1>1. /\ proc[p].pc \in {"reclaim", "idle"} /\ ~MidReclaim(p) /\ ~proc[p].holds
      /\ UNCHANGED <<row, job, sidecar, wrap, causes>> /\ proc[p] \in Frame
      /\ LoadFits(p, proc[p], job.kind) /\ jobs \in Nat /\ "stale" \in PC
  BY ParsTyped DEF SelectStale, At, MidReclaim, StaleJob, Holding, LossInv, StaleInv, PC
<1>2. f \in Frame BY <1>1, FrameTyped, ParsTyped
<1>3. f.pc = "stale" /\ f.holds = proc[p].holds /\ f.op = proc[p].op /\ f.cloud = proc[p].cloud
  BY <1>1 DEF Frame
<1>4. proc' = [proc EXCEPT ![p] = f] BY DEF SelectStale
<1> HIDE DEF f
<1>5. Moves(p, f) BY <1>2, <1>3, <1>4 DEF Moves
<1>6. LoadFits(p, f, job.kind) /\ WorkFits(f, row, job.kind, wrap, sidecar.kek)
  BY <1>1, <1>3 DEF LoadFits, WorkFits, AttachPC
<1> QED BY <1>1, <1>3, <1>5, <1>6, FrameKeeps

\* It is failed, unless somebody else has failed it, and its attach is
\* undone afterwards in either case.
LEMMA ReclaimLoss ==
  ASSUME TypeOK, HoldInv, StaleInv, LossInv, NEW p \in Proc, Reclaim(p)
  PROVE  LossInv'
<1>1. /\ proc[p].pc = "stale" /\ ~MidReclaim(p) /\ ~proc[p].holds
      /\ UNCHANGED <<row, sidecar, wrap, causes>> /\ LoadFits(p, proc[p], job.kind)
      /\ StaleFits(proc[p])
  BY DEF Reclaim, At, MidReclaim, StaleInv, StaleFits, LossInv
<1> DEFINE label == IF proc[p].undo THEN "revert" ELSE AfterReclaim(p)
<1>2. /\ label \in PC /\ label \in {"revert", "idle", "check"} /\ (proc[p].undo => label = "revert")
      /\ Leave(p, label)
  BY DEF Reclaim, AfterReclaim, PC, Leave
<1> HIDE DEF label
<1>3. PICK f \in Frame : /\ Moves(p, f) /\ f.pc = label
                         /\ f.op = "put" => proc[p].op = "put" /\ f.cloud = proc[p].cloud
  BY <1>2, LeaveMoves
<1>4. ~f.holds BY <1>1, <1>3 DEF Moves
<1>5. LoadFits(p, f, job.kind) /\ WorkFits(f, row, job.kind, wrap, sidecar.kek)
  BY <1>1, <1>2, <1>3, <1>4 DEF LoadFits, WorkFits, AttachPC
<1>6. CASE job' = job BY <1>1, <1>3, <1>4, <1>5, <1>6, FrameKeeps
<1>7. CASE job' # job
  <2>1. proc[p].stale = jobs /\ job' = [job EXCEPT !.status = "failed"] BY <1>7 DEF Reclaim
  <2>2. /\ job'.kind = job.kind /\ job'.status = "failed"
        /\ Holding = {} /\ (proc[p].undo <=> job.kind = "dek_rewrap")
    BY <1>1, <2>1 DEF TypeOK, Job, StaleFits
  <2>3. \A q \in Proc : proc'[q] = IF q = p THEN f ELSE proc[q] BY <1>3 DEF Moves, TypeOK
  <2>4. ASSUME NEW q \in Proc PROVE LoadFits(q, proc'[q], job'.kind)
    BY <1>5, <2>2, <2>3 DEF LossInv
  <2>5. ASSUME Harmless' PROVE Quiet'
    <3>1. Quiet BY <1>1, <2>5 DEF LossInv, Harmless
    <3>2. Unsettled => Unsettled'
      <4>1. \A q \in Proc : MidReclaim(q) => MidReclaim(q)' BY <1>1, <2>3 DEF MidReclaim, At
      <4>2. CASE job.kind = "dek_rewrap"
        <5>1. MidReclaim(p)' BY <1>2, <1>3, <1>4, <2>2, <2>3, <4>2 DEF MidReclaim, At
        <5> QED BY <5>1 DEF Unsettled
      <4>3. CASE job.kind # "dek_rewrap" BY <4>1, <4>3 DEF Unsettled, AttachRuns
      <4> QED BY <4>2, <4>3
    <3>3. KeysFit' BY <1>1, <2>2, <3>1, <3>2 DEF Quiet, KeysFit
    <3>4. ASSUME NEW q \in Proc PROVE WorkFits(proc'[q], row', job'.kind, wrap', sidecar'.kek)
      BY <1>1, <1>5, <2>2, <2>3, <3>1 DEF Quiet
    <3> QED BY <3>3, <3>4 DEF Quiet
  <2> QED BY <2>4, <2>5 DEF LossInv
<1> QED BY <1>6, <1>7

\* The row of a failed attach is put back: until the clean-up that follows
\* the organization may be never attached with a key on the sidecar.
LEMMA RevertLoss ==
  ASSUME TypeOK, HoldInv, LossInv, NEW p \in Proc, Revert(p)
  PROVE  LossInv'
<1>1. /\ proc[p].pc = "revert" /\ UNCHANGED <<job, sidecar, wrap>> /\ Goto(p, "abort")
      /\ row \in Row /\ LoadFits(p, proc[p], job.kind) /\ "abort" \in PC /\ "stale_write" \in Harmful
  BY ParsTyped DEF Revert, At, LossInv, PC, Harmful
<1>2. PICK f \in Frame : Moves(p, f) /\ Carries(p, f) /\ f.pc = "abort"
  BY <1>1, GotoMoves
<1>3. causes \subseteq causes' /\ (Harmless' => proc[p].holds \/ ~Active)
  BY <1>1, BlameGrows DEF Revert
<1>4. row' = row \/ (~NeverAttached(row) /\ row'.wrapped = row.wrapped)
  <2>1. CASE row.source # "managed" /\ row.status = "rotating"
    <3> DEFINE s == IF proc[p].previous = "rotating" THEN "pending" ELSE proc[p].previous
    <3>1. row' = [row EXCEPT !.status = s] BY <2>1 DEF Revert
    <3> HIDE DEF s
    <3> QED BY <1>1, <2>1, <3>1 DEF NeverAttached, Row
  <2> QED BY <2>1 DEF Revert
<1>5. LoadFits(p, f, job.kind) BY <1>1, <1>2 DEF LoadFits, Carries
<1>6. \A q \in Proc : proc'[q] = IF q = p THEN f ELSE proc[q] BY <1>2 DEF Moves, TypeOK
<1>7. ASSUME Harmless', Quiet PROVE QuietGoal(p, f)
  <2>1. Holding \subseteq {p} /\ job.status # "pending" /\ Unsettled'
    <3>1. CASE proc[p].holds
      <4>1. job.status = "running" /\ Holding = {p} BY <3>1, Alone
      <4>2. Holding' \subseteq {p} BY <1>2, <1>6, <4>1 DEF Holding
      <4>3. job.kind = "dek_rewrap" BY <1>1, <3>1 DEF LoadFits
      <4>4. proc'[p].pc = "abort" BY <1>2, <1>6
      <4> QED BY <1>1, <4>1, <4>2, <4>3, <4>4 DEF Unsettled, AttachRuns
    <3>2. CASE ~proc[p].holds
      <4>1. ~Active BY <1>3, <1>7, <3>2
      <4>2. MidReclaim(p)' BY <1>2, <1>6, <3>2 DEF MidReclaim, At, Carries
      <4> QED BY <4>1, <4>2 DEF Active, Unsettled, HoldInv, OneWorker
    <3> QED BY <3>1, <3>2
  <2>2. KeysFit /\ \A q \in Proc : proc[q].pc = "clear" => Rooted(wrap) BY <1>7 DEF Quiet, WorkFits
  <2>3. WorkFits(f, row', job.kind, wrap', sidecar'.kek) BY <1>2 DEF WorkFits, AttachPC
  <2>4. ~NeverAttached(row') => sidecar.kek \in {NoKek, row'.wrapped} BY <1>4, <2>2 DEF KeysFit
  <2> QED BY <1>1, <2>1, <2>2, <2>3, <2>4 DEF QuietGoal, KeysFit
<1> QED BY <1>1, <1>2, <1>3, <1>5, <1>7, MoveKeeps

\* A failed attach is cleaned up: a key that no DEK needs is cleared.
LEMMA AbortLoss ==
  ASSUME TypeOK, HoldInv, LossInv, NEW p \in Proc, Abort(p)
  PROVE  LossInv'
<1> DEFINE label == IF proc[p].holds THEN "fail" ELSE AfterReclaim(p)
<1>1. /\ proc[p].pc = "abort" /\ UNCHANGED <<row, job, wrap>>
      /\ LoadFits(p, proc[p], job.kind) /\ label \in PC /\ label \in {"fail", "idle", "check"}
  BY DEF Abort, At, LossInv, PC, AfterReclaim
<1>2. PICK f \in Frame : /\ Moves(p, f) /\ f.pc = label
                         /\ f.op = "put" => proc[p].op = "put" /\ f.cloud = proc[p].cloud
  BY <1>1, LeaveMoves DEF Abort
<1> HIDE DEF label
<1>3. LoadFits(p, f, job.kind) BY <1>1, <1>2 DEF LoadFits, Moves
<1>4. WorkFits(f, row, job.kind, wrap, NoKek) BY <1>1, <1>2 DEF WorkFits, AttachPC
<1>5. causes \subseteq causes' BY DEF Abort, Blame
<1>6. Harmless' => sidecar' = [kek |-> NoKek, root |-> FALSE] /\ ~InUse(sidecar.kek)
  <2>1. CASE /\ sidecar' = [kek |-> NoKek, root |-> FALSE]
             /\ causes' = causes \cup (IF InUse(sidecar.kek) THEN {"cleared_in_use"} ELSE {})
                                 \cup (IF ~proc[p].holds /\ Active THEN {"stale_write"} ELSE {})
    BY <2>1 DEF Harmless, Harmful
  <2>2. CASE Blame("clear_failed", TRUE)
    BY <2>2, BlameGrows DEF Harmful
  <2> QED BY <2>1, <2>2 DEF Abort
<1>7. ASSUME Harmless', Quiet PROVE QuietGoal(p, f)
  <2>1. sidecar'.kek = NoKek /\ ~InUse(sidecar.kek) BY <1>6, <1>7
  <2>2. KeysFit BY <1>7 DEF Quiet
  <2>3. Rooted(wrap)
    <3>1. CASE sidecar.kek = NoKek BY <2>2, <3>1, NoKeyRooted
    <3>2. CASE sidecar.kek # NoKek BY <2>1, <2>2, <3>2 DEF InUse, KeysFit, Rooted
    <3> QED BY <3>1, <3>2
  <2> QED BY <1>1, <1>4, <2>1, <2>3 DEF QuietGoal, Rooted
<1> QED BY <1>1, <1>2, <1>3, <1>5, <1>7, MoveKeeps

-----------------------------------------------------------------------------
\* A step of the worker that holds the job: nobody else is at a label of it.
LEMMA WorkerKeeps ==
  ASSUME TypeOK, HoldInv, LossInv, NEW w \in Proc, proc[w].holds, NEW f, Moves(w, f), job' = job,
         LoadFits(w, f, job.kind), causes \subseteq causes',
         Harmless' /\ Quiet =>
           /\ \A d \in Dek : wrap'[d] \in {Root, Absent, sidecar'.kek}
           /\ ~NeverAttached(row') => sidecar'.kek \in {NoKek, row'.wrapped}
           /\ NeverAttached(row') /\ ~Unsettled' => sidecar'.kek = NoKek
           /\ WorkFits(f, row', job.kind, wrap', sidecar'.kek)
  PROVE  LossInv'
<1>1. /\ job.status = "running" /\ Holding = {w}
      /\ \A q \in Proc : q # w => proc[q].pc \notin JobPC
  BY Alone
<1>2. \A q \in Proc : q # w => proc[q].pc # "clear" /\ proc[q].pc # "reset"
  BY <1>1 DEF JobPC
<1>3. Harmless' /\ Quiet => QuietGoal(w, f)
  BY <1>1, <1>2 DEF QuietGoal
<1> QED BY <1>3, MoveKeeps

\* What a worker at a label of the job is and holds.
LEMMA WorkerIs ==
  ASSUME TypeOK, HoldInv, LossInv, NEW w \in Worker, proc[w].pc \in JobPC
  PROVE  /\ w \in Proc /\ w \notin Call /\ proc[w].holds /\ ~MidReclaim(w)
         /\ LoadFits(w, proc[w], job.kind) /\ row \in Row
         /\ Quiet => KeysFit /\ WorkFits(proc[w], row, job.kind, wrap, sidecar.kek)
<1>1. w \in Proc /\ w \notin Call BY ActorsAreApart DEF Proc
<1>2. proc[w].holds BY <1>1, WorkerHolds
<1> QED BY <1>1, <1>2, ParsTyped DEF MidReclaim, LossInv, Quiet

\* The worker reads the row: an attach finds it attached.
LEMMA LoadJobRowLoss ==
  ASSUME TypeOK, HoldInv, LossInv, NEW w \in Worker, LoadJobRow(w)
  PROVE  LossInv'
<1>1. /\ proc[w].pc = "row" /\ UNCHANGED <<row, job, sidecar, wrap, causes>>
      /\ job.kind \in {"dek_rewrap", "detach_managed"}
  BY DEF LoadJobRow, At, TypeOK, Job
<1>2. /\ w \in Proc /\ w \notin Call /\ proc[w].holds /\ ~MidReclaim(w)
      /\ LoadFits(w, proc[w], job.kind) /\ row \in Row
      /\ Quiet => KeysFit /\ WorkFits(proc[w], row, job.kind, wrap, sidecar.kek)
  BY <1>1, WorkerIs DEF JobPC
<1>3. \E l \in PC :
        /\ proc' = [proc EXCEPT ![w] = [@ EXCEPT !.pc = l, !.at = row]]
        /\ l \in {"succeed", "kek", "reset", "warm", "toRoot"}
        /\ l = "succeed" => row.source = "managed"
        /\ l = "kek" => job.kind = "dek_rewrap"
        /\ l \in {"reset", "warm", "toRoot"} => job.kind = "detach_managed"
        /\ l = "reset" => NeverAttached(row)
        /\ l = "warm" => ~NeverAttached(row)
  <2> DEFINE l == IF row.source = "managed" THEN "succeed"
                 ELSE IF job.kind = "dek_rewrap" THEN "kek"
                 ELSE IF NeverAttached(row) THEN "reset"
                 ELSE IF job.warmup /\ row.status # "unavailable" /\ cache[HostOf[w]] # "only"
                 THEN "warm" ELSE "toRoot"
  <2>1. /\ l \in {"succeed", "kek", "reset", "warm", "toRoot"}
        /\ l = "succeed" => row.source = "managed"
        /\ l = "kek" => job.kind = "dek_rewrap"
        /\ l \in {"reset", "warm", "toRoot"} => job.kind = "detach_managed"
        /\ l = "reset" => NeverAttached(row)
        /\ l = "warm" => ~NeverAttached(row)
    BY <1>1
  <2>2. proc' = [proc EXCEPT ![w] = [@ EXCEPT !.pc = l, !.at = row]]
    BY DEF LoadJobRow
  <2> HIDE DEF l
  <2>3. l \in PC BY <2>1 DEF PC
  <2> QED BY <2>1, <2>2, <2>3
<1>4. PICK l \in PC :
        /\ proc' = [proc EXCEPT ![w] = [@ EXCEPT !.pc = l, !.at = row]]
        /\ l \in {"succeed", "kek", "reset", "warm", "toRoot"}
        /\ l = "succeed" => row.source = "managed"
        /\ l = "kek" => job.kind = "dek_rewrap"
        /\ l \in {"reset", "warm", "toRoot"} => job.kind = "detach_managed"
        /\ l = "reset" => NeverAttached(row)
        /\ l = "warm" => ~NeverAttached(row)
  BY <1>3
<1>5. PICK f \in Frame : Moves(w, f) /\ Carries(w, f) /\ f.pc = l /\ f.at = row
  BY <1>2, <1>4, LoadMoves
<1>6. LoadFits(w, f, job.kind) BY <1>1, <1>2, <1>4, <1>5 DEF LoadFits, Carries
<1>7. ASSUME Quiet
      PROVE  /\ f.holds /\ job.kind = "dek_rewrap" /\ f.pc \in {"succeed", "fail"} => ~NeverAttached(row)
             /\ WorkFits(f, row, job.kind, wrap, sidecar.kek)
  <2>1. job.kind = "dek_rewrap" => ~NeverAttached(row)
    BY <1>1, <1>2, <1>7 DEF WorkFits, AttachPC
  <2> QED BY <1>4, <1>5, <2>1 DEF WorkFits
<1> QED BY <1>1, <1>2, <1>5, <1>6, <1>7, FrameKeeps

\* The sidecar receives the key of the row, to hold root and tenant keys or
\* the tenant key alone.
LEMMA SetForAttachLoss ==
  ASSUME TypeOK, HoldInv, LossInv, NEW w \in Worker, SetForAttach(w)
  PROVE  LossInv'
<1>1. proc[w].pc \in {"dual", "only"} /\ UNCHANGED <<row, job, wrap>> /\ "stale_write" \in Harmful
  BY DEF SetForAttach, At, Harmful
<1>2. /\ w \in Proc /\ w \notin Call /\ proc[w].holds /\ ~MidReclaim(w)
      /\ LoadFits(w, proc[w], job.kind) /\ row \in Row
      /\ Quiet => KeysFit /\ WorkFits(proc[w], row, job.kind, wrap, sidecar.kek)
  BY <1>1, WorkerIs DEF JobPC
<1>3. \E l \in {"revert", "rewrap", "mark"} : Goto(w, l)
  BY DEF SetForAttach
<1>4. PICK l \in {"revert", "rewrap", "mark"} : Goto(w, l) BY <1>3
<1>5. l \in PC BY DEF PC
<1>6. PICK f \in Frame : Moves(w, f) /\ Carries(w, f) /\ f.pc = l BY <1>2, <1>4, <1>5, GotoMoves
<1>7. job.kind = "dek_rewrap" BY <1>1, <1>2 DEF LoadFits
<1>8. LoadFits(w, f, job.kind) BY <1>2, <1>6, <1>7 DEF LoadFits, Carries
<1>9. \/ UNCHANGED <<sidecar, causes>>
      \/ sidecar'.kek = proc[w].kek /\ Blame("stale_write", row.wrapped # proc[w].kek)
  BY DEF SetForAttach, Send
<1>10. causes \subseteq causes' /\ (Harmless' => sidecar' = sidecar \/ sidecar'.kek = row.wrapped)
  BY <1>1, <1>9, BlameGrows
<1>11. ASSUME Harmless', Quiet
       PROVE  /\ \A d \in Dek : wrap'[d] \in {Root, Absent, sidecar'.kek}
              /\ ~NeverAttached(row') => sidecar'.kek \in {NoKek, row'.wrapped}
              /\ NeverAttached(row') /\ ~Unsettled' => sidecar'.kek = NoKek
              /\ WorkFits(f, row', job.kind, wrap', sidecar'.kek)
  <2>1. ~NeverAttached(row) BY <1>1, <1>2, <1>7, <1>11 DEF WorkFits, AttachPC
  <2>2. KeysFit BY <1>2, <1>11
  <2>3. \A d \in Dek : wrap[d] \in {Root, Absent, row.wrapped} BY <2>1, <2>2, SendCovers
  <2>4. WorkFits(f, row', job.kind, wrap', sidecar'.kek) BY <1>1, <1>6, <2>1 DEF WorkFits
  <2> QED BY <1>1, <1>10, <1>11, <2>1, <2>2, <2>3, <2>4 DEF KeysFit
<1> QED BY <1>1, <1>2, <1>6, <1>8, <1>10, <1>11, WorkerKeeps

\* The DEKs move under the key that the sidecar has.
LEMMA RewrapToKekLoss ==
  ASSUME TypeOK, HoldInv, LossInv, NEW w \in Worker, RewrapToKek(w)
  PROVE  LossInv'
<1>1. proc[w].pc = "rewrap" /\ UNCHANGED <<row, job, sidecar, causes>>
  BY DEF RewrapToKek, At
<1>2. /\ w \in Proc /\ w \notin Call /\ proc[w].holds /\ ~MidReclaim(w)
      /\ LoadFits(w, proc[w], job.kind) /\ row \in Row
      /\ Quiet => KeysFit /\ WorkFits(proc[w], row, job.kind, wrap, sidecar.kek)
  BY <1>1, WorkerIs DEF JobPC
<1>3. \E l \in {"revert", "only"} : Goto(w, l) BY DEF RewrapToKek
<1>4. PICK l \in {"revert", "only"} : Goto(w, l) BY <1>3
<1>5. l \in PC BY DEF PC
<1>6. PICK f \in Frame : Moves(w, f) /\ Carries(w, f) /\ f.pc = l BY <1>2, <1>4, <1>5, GotoMoves
<1>7. job.kind = "dek_rewrap" BY <1>1, <1>2 DEF LoadFits
<1>8. LoadFits(w, f, job.kind) BY <1>2, <1>6, <1>7 DEF LoadFits, Carries
<1>9. \A d \in Dek : wrap'[d] \in {sidecar.kek, wrap[d]} BY DEF RewrapToKek
<1>10. ASSUME Quiet
       PROVE  /\ \A d \in Dek : wrap'[d] \in {Root, Absent, sidecar'.kek}
              /\ ~NeverAttached(row') => sidecar'.kek \in {NoKek, row'.wrapped}
              /\ NeverAttached(row') /\ ~Unsettled' => sidecar'.kek = NoKek
              /\ WorkFits(f, row', job.kind, wrap', sidecar'.kek)
  <2>1. ~NeverAttached(row) BY <1>1, <1>2, <1>7, <1>10 DEF WorkFits, AttachPC
  <2>2. KeysFit BY <1>2, <1>10
  <2>3. WorkFits(f, row', job.kind, wrap', sidecar'.kek) BY <1>1, <1>6, <2>1 DEF WorkFits
  <2> QED BY <1>1, <1>9, <2>1, <2>2, <2>3 DEF KeysFit
<1> QED BY <1>1, <1>2, <1>6, <1>8, <1>10, WorkerKeeps

\* The attach is entered as the row's state.
LEMMA MarkAttachLoss ==
  ASSUME TypeOK, HoldInv, LossInv, NEW w \in Worker, MarkAttachSucceeded(w)
  PROVE  LossInv'
<1>1. /\ proc[w].pc = "mark" /\ UNCHANGED <<job, sidecar, wrap>> /\ Goto(w, "succeed")
      /\ "succeed" \in PC /\ "stale_write" \in Harmful
  BY DEF MarkAttachSucceeded, At, PC, Harmful
<1>2. /\ w \in Proc /\ w \notin Call /\ proc[w].holds /\ ~MidReclaim(w)
      /\ LoadFits(w, proc[w], job.kind) /\ row \in Row
      /\ Quiet => KeysFit /\ WorkFits(proc[w], row, job.kind, wrap, sidecar.kek)
  BY <1>1, WorkerIs DEF JobPC
<1>3. PICK f \in Frame : Moves(w, f) /\ Carries(w, f) /\ f.pc = "succeed" BY <1>1, <1>2, GotoMoves
<1>4. job.kind = "dek_rewrap" BY <1>1, <1>2 DEF LoadFits
<1>5. LoadFits(w, f, job.kind) BY <1>2, <1>3 DEF LoadFits, Carries
<1>6. causes \subseteq causes' /\ (Harmless' => row.source # "managed")
  BY <1>1, BlameGrows DEF MarkAttachSucceeded
<1>7. row' = [row EXCEPT !.status = "active"] BY DEF MarkAttachSucceeded
<1>8. row'.source = row.source /\ row'.status = "active" /\ row'.wrapped = row.wrapped
  BY <1>2, <1>7 DEF Row
<1>9. ASSUME Harmless', Quiet
      PROVE  /\ \A d \in Dek : wrap'[d] \in {Root, Absent, sidecar'.kek}
             /\ ~NeverAttached(row') => sidecar'.kek \in {NoKek, row'.wrapped}
             /\ NeverAttached(row') /\ ~Unsettled' => sidecar'.kek = NoKek
             /\ WorkFits(f, row', job.kind, wrap', sidecar'.kek)
  <2>1. ~NeverAttached(row) BY <1>1, <1>2, <1>4, <1>9 DEF WorkFits, AttachPC
  <2>2. KeysFit /\ ~NeverAttached(row') BY <1>2, <1>6, <1>8, <1>9 DEF NeverAttached
  <2>3. WorkFits(f, row', job.kind, wrap', sidecar'.kek) BY <1>3, <2>2 DEF WorkFits
  <2> QED BY <1>1, <1>8, <2>1, <2>2, <2>3 DEF KeysFit
<1> QED BY <1>1, <1>2, <1>3, <1>5, <1>6, <1>9, WorkerKeeps

\* A detach warms the sidecar up with the key of the row.
LEMMA WarmupLoss ==
  ASSUME TypeOK, HoldInv, LossInv, NEW w \in Worker, Warmup(w)
  PROVE  LossInv'
<1>1. /\ proc[w].pc = "warm" /\ UNCHANGED <<row, job, wrap>> /\ Goto(w, "toRoot")
      /\ "toRoot" \in PC /\ "stale_write" \in Harmful
  BY DEF Warmup, At, PC, Harmful
<1>2. /\ w \in Proc /\ w \notin Call /\ proc[w].holds /\ ~MidReclaim(w)
      /\ LoadFits(w, proc[w], job.kind) /\ row \in Row
      /\ Quiet => KeysFit /\ WorkFits(proc[w], row, job.kind, wrap, sidecar.kek)
  BY <1>1, WorkerIs DEF JobPC
<1>3. PICK f \in Frame : Moves(w, f) /\ Carries(w, f) /\ f.pc = "toRoot" BY <1>1, <1>2, GotoMoves
<1>4. job.kind = "detach_managed" /\ ~NeverAttached(proc[w].at) BY <1>1, <1>2 DEF LoadFits
<1>5. LoadFits(w, f, job.kind) BY <1>2, <1>3, <1>4 DEF LoadFits, Carries
<1>6. \/ UNCHANGED <<sidecar, causes>>
      \/ sidecar'.kek = proc[w].at.wrapped /\ Blame("stale_write", row # proc[w].at)
  BY DEF Warmup, Send
<1>7. causes \subseteq causes' /\
        (Harmless' => sidecar' = sidecar \/ (row = proc[w].at /\ sidecar'.kek = row.wrapped))
  BY <1>1, <1>6, BlameGrows
<1>8. ASSUME Harmless', Quiet
      PROVE  /\ \A d \in Dek : wrap'[d] \in {Root, Absent, sidecar'.kek}
             /\ ~NeverAttached(row') => sidecar'.kek \in {NoKek, row'.wrapped}
             /\ NeverAttached(row') /\ ~Unsettled' => sidecar'.kek = NoKek
             /\ WorkFits(f, row', job.kind, wrap', sidecar'.kek)
  <2>1. KeysFit BY <1>2, <1>8
  <2>2. WorkFits(f, row', job.kind, wrap', sidecar'.kek) BY <1>3 DEF WorkFits, AttachPC
  <2>3. CASE sidecar' = sidecar
    <3>1. Unsettled => Unsettled' BY <1>1, <1>2, <1>3, UnsettledStays
    <3> QED BY <1>1, <2>1, <2>2, <2>3, <3>1 DEF KeysFit
  <2>4. CASE row = proc[w].at /\ sidecar'.kek = row.wrapped
    <3>1. ~NeverAttached(row) BY <1>4, <2>4
    <3>2. \A d \in Dek : wrap[d] \in {Root, Absent, row.wrapped} BY <2>1, <3>1, SendCovers
    <3> QED BY <1>1, <2>2, <2>4, <3>1, <3>2
  <2> QED BY <1>7, <1>8, <2>3, <2>4
<1> QED BY <1>1, <1>2, <1>3, <1>5, <1>7, <1>8, WorkerKeeps

\* The DEKs move back under the root key, all of them or the detach fails.
LEMMA RewrapToRootLoss ==
  ASSUME TypeOK, HoldInv, LossInv, NEW w \in Worker, RewrapToRoot(w)
  PROVE  LossInv'
<1>1. proc[w].pc = "toRoot" /\ UNCHANGED <<row, job, sidecar>>
  BY DEF RewrapToRoot, At
<1>2. /\ w \in Proc /\ w \notin Call /\ proc[w].holds /\ ~MidReclaim(w)
      /\ LoadFits(w, proc[w], job.kind) /\ row \in Row
      /\ Quiet => KeysFit /\ WorkFits(proc[w], row, job.kind, wrap, sidecar.kek)
  BY <1>1, WorkerIs DEF JobPC
<1>3. \/ Goto(w, "clear") /\ Rooted(wrap')
      \/ Goto(w, "fail")
  BY DEF RewrapToRoot, Rooted
<1>4. {"clear", "fail"} \subseteq PC BY DEF PC
<1>5. \E f \in Frame : /\ Moves(w, f) /\ Carries(w, f) /\ f.pc \in {"clear", "fail"}
                       /\ f.pc = "clear" => Rooted(wrap')
  <2>1. CASE Goto(w, "clear") /\ Rooted(wrap')
    <3>1. PICK f \in Frame : Moves(w, f) /\ Carries(w, f) /\ f.pc = "clear"
      BY <1>2, <1>4, <2>1, GotoMoves
    <3> QED BY <2>1, <3>1
  <2>2. CASE Goto(w, "fail")
    <3>1. PICK f \in Frame : Moves(w, f) /\ Carries(w, f) /\ f.pc = "fail"
      BY <1>2, <1>4, <2>2, GotoMoves
    <3> QED BY <3>1
  <2> QED BY <1>3, <2>1, <2>2
<1>6. PICK f \in Frame : /\ Moves(w, f) /\ Carries(w, f) /\ f.pc \in {"clear", "fail"}
                         /\ f.pc = "clear" => Rooted(wrap')
  BY <1>5
<1>7. job.kind = "detach_managed" BY <1>1, <1>2 DEF LoadFits
<1>8. LoadFits(w, f, job.kind) BY <1>2, <1>6, <1>7 DEF LoadFits, Carries
<1>9. causes \subseteq causes' /\ \A d \in Dek : wrap'[d] \in {Root, wrap[d]}
  BY DEF RewrapToRoot, Blame
<1>10. ASSUME Quiet
       PROVE  /\ \A d \in Dek : wrap'[d] \in {Root, Absent, sidecar'.kek}
              /\ ~NeverAttached(row') => sidecar'.kek \in {NoKek, row'.wrapped}
              /\ NeverAttached(row') /\ ~Unsettled' => sidecar'.kek = NoKek
              /\ WorkFits(f, row', job.kind, wrap', sidecar'.kek)
  <2>1. KeysFit BY <1>2, <1>10
  <2>2. WorkFits(f, row', job.kind, wrap', sidecar'.kek) BY <1>6 DEF WorkFits, AttachPC
  <2>3. Unsettled => Unsettled' BY <1>1, <1>2, <1>6, <1>7, UnsettledStays
  <2> QED BY <1>1, <1>9, <2>1, <2>2, <2>3 DEF KeysFit
<1> QED BY <1>1, <1>2, <1>6, <1>8, <1>9, <1>10, WorkerKeeps

\* The sidecar forgets a key that no DEK needs any more.
LEMMA ClearAfterDetachLoss ==
  ASSUME TypeOK, HoldInv, LossInv, NEW w \in Worker, ClearAfterDetach(w)
  PROVE  LossInv'
<1>1. proc[w].pc = "clear" /\ UNCHANGED <<row, job, wrap>>
  BY DEF ClearAfterDetach, At
<1>2. /\ w \in Proc /\ w \notin Call /\ proc[w].holds /\ ~MidReclaim(w)
      /\ LoadFits(w, proc[w], job.kind) /\ row \in Row
      /\ Quiet => KeysFit /\ WorkFits(proc[w], row, job.kind, wrap, sidecar.kek)
  BY <1>1, WorkerIs DEF JobPC
<1>3. \/ Goto(w, "reset") /\ sidecar'.kek = NoKek
      \/ Goto(w, "fail")
  <2>1. \/ Goto(w, "reset") /\ sidecar' = [kek |-> NoKek, root |-> FALSE]
        \/ Goto(w, "fail")
    BY DEF ClearAfterDetach
  <2> QED BY <2>1
<1>4. {"reset", "fail"} \subseteq PC BY DEF PC
<1>5. \E f \in Frame : /\ Moves(w, f) /\ Carries(w, f) /\ f.pc \in {"reset", "fail"}
                       /\ f.pc = "reset" => sidecar'.kek = NoKek
  <2>1. CASE Goto(w, "reset") /\ sidecar'.kek = NoKek
    <3>1. PICK f \in Frame : Moves(w, f) /\ Carries(w, f) /\ f.pc = "reset"
      BY <1>2, <1>4, <2>1, GotoMoves
    <3> QED BY <2>1, <3>1
  <2>2. CASE Goto(w, "fail")
    <3>1. PICK f \in Frame : Moves(w, f) /\ Carries(w, f) /\ f.pc = "fail"
      BY <1>2, <1>4, <2>2, GotoMoves
    <3> QED BY <3>1
  <2> QED BY <1>3, <2>1, <2>2
<1>6. PICK f \in Frame : /\ Moves(w, f) /\ Carries(w, f) /\ f.pc \in {"reset", "fail"}
                         /\ f.pc = "reset" => sidecar'.kek = NoKek
  BY <1>5
<1>7. job.kind = "detach_managed" BY <1>1, <1>2 DEF LoadFits
<1>8. LoadFits(w, f, job.kind) BY <1>2, <1>6, <1>7 DEF LoadFits, Carries
<1>9. causes \subseteq causes' /\ sidecar'.kek \in {NoKek, sidecar.kek}
  <2>1. sidecar' = sidecar \/ sidecar' = [kek |-> NoKek, root |-> FALSE] BY DEF ClearAfterDetach
  <2>2. sidecar'.kek \in {NoKek, sidecar.kek} BY <2>1
  <2>3. causes \subseteq causes' BY DEF ClearAfterDetach, Blame
  <2> QED BY <2>2, <2>3
<1>10. ASSUME Quiet
       PROVE  /\ \A d \in Dek : wrap'[d] \in {Root, Absent, sidecar'.kek}
              /\ ~NeverAttached(row') => sidecar'.kek \in {NoKek, row'.wrapped}
              /\ NeverAttached(row') /\ ~Unsettled' => sidecar'.kek = NoKek
              /\ WorkFits(f, row', job.kind, wrap', sidecar'.kek)
  <2>1. KeysFit /\ Rooted(wrap) BY <1>1, <1>2, <1>10 DEF WorkFits
  <2>2. WorkFits(f, row', job.kind, wrap', sidecar'.kek) BY <1>6 DEF WorkFits, AttachPC
  <2>3. Unsettled => Unsettled' BY <1>1, <1>2, <1>6, <1>7, UnsettledStays
  <2> QED BY <1>1, <1>9, <2>1, <2>2, <2>3 DEF KeysFit, Rooted
<1> QED BY <1>1, <1>2, <1>6, <1>8, <1>9, <1>10, WorkerKeeps

\* The row is forgotten when the sidecar has no key of it.
LEMMA ResetLoss ==
  ASSUME TypeOK, HoldInv, LossInv, NEW w \in Worker, ResetToManaged(w)
  PROVE  LossInv'
<1>1. /\ proc[w].pc = "reset" /\ UNCHANGED <<job, sidecar, wrap>> /\ Goto(w, "succeed")
      /\ "succeed" \in PC /\ "stale_write" \in Harmful /\ NeverAttached(row')
  BY DEF ResetToManaged, At, PC, Harmful, NeverAttached, ManagedRow
<1>2. /\ w \in Proc /\ w \notin Call /\ proc[w].holds /\ ~MidReclaim(w)
      /\ LoadFits(w, proc[w], job.kind) /\ row \in Row
      /\ Quiet => KeysFit /\ WorkFits(proc[w], row, job.kind, wrap, sidecar.kek)
  BY <1>1, WorkerIs DEF JobPC
<1>3. PICK f \in Frame : Moves(w, f) /\ Carries(w, f) /\ f.pc = "succeed" BY <1>1, <1>2, GotoMoves
<1>4. job.kind = "detach_managed" BY <1>1, <1>2 DEF LoadFits
<1>5. LoadFits(w, f, job.kind) BY <1>2, <1>3 DEF LoadFits, Carries
<1>6. causes \subseteq causes' /\ (Harmless' /\ NeverAttached(proc[w].at) => row = proc[w].at)
  BY <1>1, BlameGrows DEF ResetToManaged
<1>7. ASSUME Harmless', Quiet
      PROVE  /\ \A d \in Dek : wrap'[d] \in {Root, Absent, sidecar'.kek}
             /\ ~NeverAttached(row') => sidecar'.kek \in {NoKek, row'.wrapped}
             /\ NeverAttached(row') /\ ~Unsettled' => sidecar'.kek = NoKek
             /\ WorkFits(f, row', job.kind, wrap', sidecar'.kek)
  <2>1. KeysFit /\ (~NeverAttached(proc[w].at) => sidecar.kek = NoKek) BY <1>1, <1>2, <1>7 DEF WorkFits
  <2>2. WorkFits(f, row', job.kind, wrap', sidecar'.kek) BY <1>3, <1>4 DEF WorkFits, AttachPC
  <2>3. Unsettled => Unsettled' BY <1>1, <1>2, <1>3, <1>4, UnsettledStays
  <2> QED BY <1>1, <1>6, <1>7, <2>1, <2>2, <2>3 DEF KeysFit
<1> QED BY <1>1, <1>2, <1>3, <1>5, <1>6, <1>7, WorkerKeeps

-----------------------------------------------------------------------------
\* A process dies: an attach it ran stays unsettled until it is reclaimed.
LEMMA CrashLoss ==
  ASSUME TypeOK, HoldInv, LossInv, NEW h \in Host, Crash(h)
  PROVE  LossInv'
<1> DEFINE dead == {p \in Proc : HostOf[p] = h /\ ~At(p, "idle")}
<1>1. /\ proc' = [p \in Proc |-> IF p \in dead THEN IdleFrame ELSE proc[p]]
      /\ causes' = causes \cup (IF \E p \in dead : MidDetach(p) THEN {"detach_stopped"} ELSE {})
                          \cup (IF \E p \in dead : MidReclaim(p) THEN {"reclaim_stopped"} ELSE {})
      /\ UNCHANGED <<row, job, sidecar, wrap>>
  BY DEF Crash
<1> HIDE DEF dead
<1>2. \A q \in Proc : proc'[q] = IF q \in dead THEN IdleFrame ELSE proc[q] BY <1>1
<1>3. causes \subseteq causes' /\ (Harmless' => \A p \in dead : ~MidReclaim(p))
  BY <1>1 DEF Harmless, Harmful
<1>4. IdleFrame.pc = "idle" /\ IdleFrame.op = "work" /\ ~IdleFrame.holds BY DEF IdleFrame
<1>5. \A q \in Proc : \A kind, r, u, k : LoadFits(q, IdleFrame, kind) /\ WorkFits(IdleFrame, r, kind, u, k)
  BY <1>4, ReturnFits
<1>6. \A q \in Proc : LoadFits(q, proc'[q], job'.kind) BY <1>1, <1>2, <1>5 DEF LossInv
<1>7. ASSUME Harmless' PROVE Quiet'
  <2>1. Quiet BY <1>3, <1>7 DEF LossInv, Harmless
  <2>2. Unsettled => Unsettled'
    <3>1. \A q \in Proc : MidReclaim(q) => MidReclaim(q)' BY <1>2, <1>3, <1>7 DEF MidReclaim, At
    <3>2. \A q \in Holding' : q \in Holding /\ proc'[q] = proc[q] BY <1>2, <1>4 DEF Holding
    <3>3. AttachRuns => AttachRuns' BY <1>1, <3>2 DEF AttachRuns
    <3> QED BY <3>1, <3>3 DEF Unsettled
  <2>3. KeysFit' BY <1>1, <2>1, <2>2 DEF Quiet, KeysFit
  <2>4. ASSUME NEW q \in Proc PROVE WorkFits(proc'[q], row', job'.kind, wrap', sidecar'.kek)
    BY <1>1, <1>2, <1>5, <2>1 DEF Quiet
  <2> QED BY <2>3, <2>4 DEF Quiet
<1> QED BY <1>6, <1>7 DEF LossInv

\* What does not touch the keys, the row, the job and the processes.
LEMMA StillLoss ==
  ASSUME LossInv, UNCHANGED <<row, job, sidecar, wrap, proc, causes>>
  PROVE  LossInv'
BY DEF LossInv, Quiet, Harmless, KeysFit, Unsettled, AttachRuns, Holding, MidReclaim, At

LEMMA LossStep ==
  ASSUME TypeOK, HoldInv, StaleInv, LossInv, [Next]_vars
  PROVE  LossInv'
<1>1. ASSUME NEW p \in Proc, Step(p) PROVE LossInv'
  BY <1>1, SelectLoss, ReclaimLoss, RevertLoss, AbortLoss, LoadKekLoss, StoreKekLoss DEF Step
<1>2. ASSUME NEW c \in Call, Serve(c) PROVE LossInv'
  BY <1>2, CheckLoss, LoadLoss, WriteLoss, EnqueueLoss, SetForTenantLoss, UseDekLoss DEF Serve
<1>3. ASSUME NEW w \in Worker, Work(w) PROVE LossInv'
  BY <1>3, ClaimLoss, LoadJobRowLoss, EndJobLoss, SetForAttachLoss, RewrapToKekLoss, MarkAttachLoss,
     WarmupLoss, RewrapToRootLoss, ClearAfterDetachLoss, ResetLoss DEF Work
<1>4. ASSUME NEW h \in Host, Expire(h) PROVE LossInv'
  BY <1>4, StillLoss DEF Expire
<1>5. CASE UNCHANGED vars BY <1>5, StillLoss DEF vars
<1> QED BY <1>1, <1>2, <1>3, <1>4, <1>5, BeginLoss, CrashLoss DEF Next

\* A DEK is covered by the key of the sidecar, hence by a key that is found.
LEMMA LossInvMeans == LossInv => LossHasCause
BY DEF LossInv, Quiet, KeysFit, LossHasCause, Harmless, Harmful

\* The invariants hold together.
LEMMA LossInvAlways == Spec => [](TypeOK /\ HoldInv /\ StaleInv /\ LossInv)
<1>1. Init => LossInv
  <2> SUFFICES ASSUME Init PROVE LossInv OBVIOUS
  <2>1. \A q \in Proc : proc[q] = IdleFrame BY DEF Init
  <2>2. IdleFrame.pc = "idle" /\ IdleFrame.op = "work" /\ ~IdleFrame.holds BY DEF IdleFrame
  <2>3. \A q \in Proc : \A kind, r, w, k : LoadFits(q, IdleFrame, kind) /\ WorkFits(IdleFrame, r, kind, w, k)
    BY <2>2, ReturnFits
  <2>4. KeysFit BY DEF Init, KeysFit, NeverAttached, ManagedRow
  <2> QED BY <2>1, <2>3, <2>4 DEF LossInv, Quiet
<1>2. TypeOK /\ HoldInv /\ StaleInv /\ LossInv /\ [Next]_vars => LossInv'
  BY LossStep
<1>3. Init => HoldInv /\ StaleInv
  BY DEF Init, HoldInv, OneWorker, Holding, FrameFits, IdleFrame, JobPC, StaleInv, At
<1>4. TypeOK /\ HoldInv /\ StaleInv /\ [Next]_vars => HoldInv' /\ StaleInv'
  BY HoldStep, StaleStep
<1> QED
  BY <1>1, <1>2, <1>3, <1>4, TypeCorrect, PTL DEF Spec

\* The key of a DEK is never lost without one of the named causes, whatever
\* fails, crashes or stops half-way, for any number of processes and calls.
THEOREM KeysAreLostForCause == Spec => []LossHasCause
BY LossInvAlways, LossInvMeans, PTL

-----------------------------------------------------------------------------
(* At rest row, sidecar and DEKs agree.  While no cause has struck, an     *)
(* attached organization is on its own key alone but for the window of an  *)
(* attach, which some process has in hand or is about to undo, and for the *)
(* window of a detach; an attach that will return to an attached row       *)
(* starts from, and stays, on that row's key.                              *)

Attached == {"active", "unavailable"}
StagePC == {"rewrap", "only", "mark"}
Detaching == \E w \in Worker : MidDetach(w)
Undoing(p) == At(p, "revert") /\ ~proc[p].holds

\* Whoever has found the attach, or undoes it already, will put the row back.
Returning(p) == ~proc[p].holds /\ (At(p, "revert") \/ (At(p, "stale") /\ proc[p].undo))

\* An attach is queued or runs, and its worker has not given it up.
AttachInHand ==
  /\ job.kind = "dek_rewrap" /\ Active
  /\ \A w \in Holding : proc[w].pc \notin {"abort", "succeed", "fail"}

\* The attach of a row that was attached before.
Reattach == job.kind = "dek_rewrap" /\ Active /\ job.previous \in Attached

\* Row, sidecar and DEKs have one tenant key.
Whole ==
  /\ row.wrapped # NoKek /\ sidecar.kek = row.wrapped
  /\ \A d \in Dek : wrap[d] \in {Absent, row.wrapped}

RowAgrees ==
  ~NeverAttached(row) =>
    /\ row.wrapped # NoKek
    /\ row.status # "rotating" /\ ~Detaching => Whole /\ (sidecar.root => Unsettled)
    /\ row.status = "rotating" => AttachInHand \/ \E p \in Proc : Undoing(p)
    /\ Reattach => Whole
    /\ ~Detaching /\ (\E p \in Proc : Returning(p) /\ proc[p].previous \in Attached) => Whole

\* How far an attach has come, and the row it found.
StageFits(f, r, s, w) ==
  /\ f.pc \in StagePC => s.kek = r.wrapped
  /\ f.pc \in {"only", "mark"} => \A d \in Dek : w[d] \in {Absent, r.wrapped}
  /\ f.pc = "mark" => ~s.root
  /\ f.op = "attach" /\ ~f.holds /\ f.pc \in {"kek", "store"} => f.previous \notin Attached
  /\ f.pc = "enqueue" => /\ f.at.wrapped # NoKek
                         /\ f.previous \in Attached => f.previous = f.at.status

\* What a frame carries from one step to the next.
CarryFits(f, previous) ==
  /\ f.pc \in {"toRoot", "clear"} => ~NeverAttached(f.at)
  /\ f.pc \in {"store", "dual", "rewrap", "only", "mark"} => f.kek # NoKek
  /\ f.holds => f.previous = previous

AllStagesFit == \A p \in Proc : StageFits(proc[p], row, sidecar, wrap)

AgreeInv ==
  /\ \A p \in Proc : CarryFits(proc[p], job.previous)
  /\ causes = {} => RowAgrees /\ AllStagesFit

-----------------------------------------------------------------------------
\* An idle frame fits, whatever the row, the sidecar and the DEKs are.
LEMMA IdleAgrees ==
  ASSUME NEW f, f.pc = "idle", ~f.holds
  PROVE  \A previous, r, s, w : CarryFits(f, previous) /\ StageFits(f, r, s, w)
BY DEF CarryFits, StageFits, StagePC

\* Before a first cause strikes both invariants tell all they know.
Calm == causes = {} /\ Quiet /\ RowAgrees /\ AllStagesFit

LEMMA CalmHolds ==
  ASSUME LossInv, AgreeInv, causes = {}
  PROVE  Calm
BY DEF LossInv, AgreeInv, Calm, Harmless

-----------------------------------------------------------------------------
\* What the row, the sidecar and the processes may do for RowAgrees to stay.
LEMMA RowKeeps ==
  ASSUME RowAgrees,
         ~NeverAttached(row') =>
           /\ ~NeverAttached(row) /\ row'.wrapped = row.wrapped
           /\ row'.status = "rotating" <=> row.status = "rotating"
           /\ Whole => Whole' \/ (Detaching' /\ ~Reattach')
           /\ Detaching => Detaching'
           /\ row'.status # "rotating" /\ sidecar'.root =>
                Unsettled' \/ (sidecar.root /\ (Unsettled => Unsettled'))
           /\ AttachInHand => AttachInHand'
           /\ Reattach' => Reattach
           /\ \A q \in Proc : Undoing(q) => Undoing(q)'
           /\ \A q \in Proc : Returning(q)' => Returning(q) /\ proc'[q].previous = proc[q].previous
  PROVE  RowAgrees'
<1> SUFFICES ASSUME ~NeverAttached(row') PROVE RowAgrees' BY DEF RowAgrees
<1>1. row'.wrapped # NoKek BY DEF RowAgrees
<1>2. row'.status # "rotating" /\ ~Detaching' => Whole' /\ (sidecar'.root => Unsettled')
  BY DEF RowAgrees
<1>3. row'.status = "rotating" => AttachInHand' \/ \E p \in Proc : Undoing(p)'
  BY DEF RowAgrees
<1>4. Reattach' => Whole' BY DEF RowAgrees
<1>5. ~Detaching' /\ (\E p \in Proc : Returning(p)' /\ proc'[p].previous \in Attached) => Whole'
  BY DEF RowAgrees
<1> QED BY <1>1, <1>2, <1>3, <1>4, <1>5 DEF RowAgrees

AgreeGoal(p) ==
  /\ StageFits(proc'[p], row', sidecar', wrap')
  /\ \A q \in Proc : q # p /\ proc[q].pc \in StagePC => StageFits(proc[q], row', sidecar', wrap')
  /\ ~NeverAttached(row') =>
       /\ ~NeverAttached(row) /\ row'.wrapped = row.wrapped
       /\ row'.status = "rotating" <=> row.status = "rotating"
       /\ Whole => Whole' \/ (Detaching' /\ job.kind # "dek_rewrap")
       /\ p \in Worker /\ MidDetach(p) => MidDetach(p)'
       /\ row'.status # "rotating" /\ sidecar'.root =>
            Unsettled' \/ (sidecar.root /\ (Unsettled => Unsettled'))
       /\ proc'[p].holds /\ job.kind = "dek_rewrap" /\ proc'[p].pc \in {"abort", "succeed", "fail"} =>
            proc[p].pc \in {"abort", "succeed", "fail"}

\* A step of one process that leaves the job alone and undoes no attach.
LEMMA MoveAgrees ==
  ASSUME LossInv, AgreeInv, NEW p \in Proc, Others(p), job' = job,
         proc'[p].holds => proc[p].holds, ~Undoing(p), ~Returning(p)',
         causes \subseteq causes', CarryFits(proc'[p], job.previous),
         causes' = {} /\ Calm => AgreeGoal(p)
  PROVE  AgreeInv'
<1>1. \A q \in Proc : CarryFits(proc'[q], job'.previous) BY DEF AgreeInv, Others
<1>2. ASSUME causes' = {} PROVE RowAgrees' /\ AllStagesFit'
  <2>1. Calm /\ AgreeGoal(p) BY <1>2, CalmHolds
  <2>2. ASSUME NEW q \in Proc PROVE StageFits(proc'[q], row', sidecar', wrap')
    <3>1. CASE q = p BY <2>1, <3>1 DEF AgreeGoal
    <3>2. CASE q # p /\ proc[q].pc \in StagePC BY <2>1, <3>2 DEF AgreeGoal, Others
    <3>3. CASE q # p /\ proc[q].pc \notin StagePC
      BY <2>1, <3>3 DEF Calm, AllStagesFit, StageFits, StagePC, Others
    <3> QED BY <3>1, <3>2, <3>3
  <2>3. ~NeverAttached(row') => (Detaching => Detaching')
    BY <2>1 DEF AgreeGoal, Detaching, MidDetach, At, Others, Proc
  <2>4. Holding' \subseteq Holding BY DEF Holding, Others
  <2>5. ~NeverAttached(row') => (AttachInHand => AttachInHand')
    <3> SUFFICES ASSUME ~NeverAttached(row'), AttachInHand, NEW w \in Holding'
                 PROVE  proc'[w].pc \notin {"abort", "succeed", "fail"}
      BY DEF AttachInHand, Active
    <3>1. w \in Proc /\ w \in Holding /\ proc'[w].holds /\ job.kind = "dek_rewrap"
      BY <2>4 DEF Holding, AttachInHand
    <3>2. proc[w].pc \notin {"abort", "succeed", "fail"} BY <3>1 DEF AttachInHand
    <3>3. CASE w = p BY <2>1, <3>1, <3>2, <3>3 DEF AgreeGoal
    <3>4. CASE w # p BY <3>1, <3>2, <3>4 DEF Others
    <3> QED BY <3>3, <3>4
  <2>6. \A q \in Proc : /\ Undoing(q) => Undoing(q)'
                        /\ Returning(q)' => Returning(q) /\ proc'[q].previous = proc[q].previous
    BY DEF Undoing, Returning, At, Others
  <2>7. (Reattach' => Reattach) /\ (job.kind # "dek_rewrap" => ~Reattach') BY DEF Reattach, Active
  <2>8. RowAgrees' BY <2>1, <2>3, <2>5, <2>6, <2>7, RowKeeps DEF Calm, AgreeGoal
  <2> QED BY <2>2, <2>8 DEF AllStagesFit
<1> QED BY <1>1, <1>2 DEF AgreeInv

\* What is unsettled stays so while its process goes on.
LEMMA UnsettledGoes ==
  ASSUME NEW p \in Proc, Others(p), job' = job, proc'[p].holds => proc[p].holds, ~MidReclaim(p),
         proc'[p].holds /\ job.kind = "dek_rewrap" /\ proc'[p].pc \in {"succeed", "fail"} =>
           proc[p].pc \in {"succeed", "fail"}
  PROVE  Unsettled => Unsettled'
<1>1. \A q \in Proc : MidReclaim(q) => MidReclaim(q)' BY DEF Others, MidReclaim, At
<1>2. AttachRuns => AttachRuns'
  <2> SUFFICES ASSUME AttachRuns, NEW w \in Holding' PROVE proc'[w].pc \notin {"succeed", "fail"}
    BY DEF AttachRuns
  <2>1. w \in Proc /\ w \in Holding /\ proc'[w].holds BY DEF Holding, Others
  <2>2. proc[w].pc \notin {"succeed", "fail"} BY <2>1 DEF AttachRuns
  <2> QED BY <2>1, <2>2 DEF AttachRuns, Others
<1> QED BY <1>1, <1>2 DEF Unsettled

\* A step that only changes a frame.
LEMMA StillAgrees ==
  ASSUME LossInv, AgreeInv, NEW p \in Proc, Others(p), UNCHANGED <<row, job, sidecar, wrap>>,
         proc'[p].holds => proc[p].holds, ~MidReclaim(p), ~MidDetach(p), ~Undoing(p), ~Returning(p)',
         causes \subseteq causes', CarryFits(proc'[p], job.previous),
         causes' = {} /\ Calm =>
           /\ StageFits(proc'[p], row, sidecar, wrap)
           /\ proc'[p].holds /\ job.kind = "dek_rewrap" => proc'[p].pc \notin {"abort", "succeed", "fail"}
  PROVE  AgreeInv'
<1>1. ASSUME causes' = {}, Calm PROVE AgreeGoal(p)
  <2>1. Unsettled => Unsettled' BY <1>1, UnsettledGoes
  <2>2. Whole => Whole' BY DEF Whole
  <2> QED BY <1>1, <2>1, <2>2 DEF AgreeGoal, Calm, AllStagesFit
<1> QED BY <1>1, MoveAgrees

\* Who moves DEKs under a tenant key holds the job of an attached row.
LEMMA StageHolder ==
  ASSUME HoldInv, LossInv, NEW q \in Proc, proc[q].pc \in StagePC
  PROVE  /\ proc[q].holds /\ q \notin Call /\ q \in Worker
         /\ job.kind = "dek_rewrap" /\ job.status = "running"
         /\ Quiet => ~NeverAttached(row)
<1>1. proc[q].holds /\ q \notin Call BY WorkerHolds DEF StagePC, JobPC
<1>2. job.kind = "dek_rewrap" BY <1>1 DEF LossInv, LoadFits, StagePC
<1>3. Quiet => ~NeverAttached(row) BY <1>1, <1>2 DEF Quiet, WorkFits, AttachPC, StagePC
<1> QED BY <1>1, <1>2, <1>3, Alone DEF Proc

\* A detach that has moved the DEKs holds the job, and it is no attach.
LEMMA DetachHolder ==
  ASSUME HoldInv, LossInv, NEW q \in Proc, MidDetach(q)
  PROVE  /\ proc[q].holds /\ q \in Worker
         /\ job.kind = "detach_managed" /\ job.status = "running"
<1>1. proc[q].holds /\ q \notin Call BY WorkerHolds DEF MidDetach, At, JobPC
<1> QED BY <1>1, Alone DEF LossInv, LoadFits, MidDetach, At, Proc

-----------------------------------------------------------------------------
\* Steps of a call that only load, or only return.
LEMMA BeginAgree ==
  ASSUME TypeOK, HoldInv, LossInv, AgreeInv, NEW c \in Call, NEW op \in Ops,
         NEW k \in CloudKey \cup {"managed"}, Begin(c, op, k)
  PROVE  AgreeInv'
<1>1. c \in Proc /\ proc[c].pc = "idle" /\ UNCHANGED <<row, job, sidecar, wrap, causes>>
  BY DEF Begin, At, Proc
<1>2. proc'[c] = [IdleFrame EXCEPT !.op = op, !.cloud = k, !.pc =
          IF op \in {"put", "putManaged", "attach", "detach", "breakGlass"} THEN "reclaim" ELSE "load"]
      /\ Others(c)
  BY <1>1 DEF Begin, TypeOK, Others
<1>3. proc'[c].pc \in {"reclaim", "load"} /\ ~proc'[c].holds BY <1>2 DEF IdleFrame
<1>4. \A r, s, w : CarryFits(proc'[c], job.previous) /\ StageFits(proc'[c], r, s, w)
  BY <1>3 DEF CarryFits, StageFits, StagePC
<1>5. ~MidReclaim(c) /\ ~MidDetach(c) /\ ~Undoing(c) /\ ~Returning(c)'
  BY <1>1, <1>3 DEF MidReclaim, MidDetach, Undoing, Returning, At
<1> QED BY <1>1, <1>2, <1>3, <1>4, <1>5, StillAgrees

LEMMA CheckAgree ==
  ASSUME TypeOK, HoldInv, LossInv, AgreeInv, NEW c \in Call, Check(c)
  PROVE  AgreeInv'
<1>1. /\ c \in Proc /\ proc[c].pc \in {"reclaim", "check"} /\ ~proc[c].holds
      /\ UNCHANGED <<row, job, sidecar, wrap, causes>> /\ (Return(c) \/ Goto(c, "load"))
  BY WorkerHolds DEF Check, At, Proc
<1>2. Others(c) /\ proc'[c].pc \in {"idle", "load"} /\ ~proc'[c].holds
  BY <1>1, ReturnFacts, GotoFacts DEF Same
<1>3. \A r, s, w : CarryFits(proc'[c], job.previous) /\ StageFits(proc'[c], r, s, w)
  BY <1>2 DEF CarryFits, StageFits, StagePC
<1>4. ~MidReclaim(c) /\ ~MidDetach(c) /\ ~Undoing(c) /\ ~Returning(c)'
  BY <1>1, <1>2 DEF MidReclaim, MidDetach, Undoing, Returning, At
<1> QED BY <1>1, <1>2, <1>3, <1>4, StillAgrees

\* An attach of an attached row leaves its key to be stored by no one.
LEMMA LoadConfigAgree ==
  ASSUME TypeOK, HoldInv, LossInv, AgreeInv, NEW c \in Call, LoadConfig(c), ~Return(c)
  PROVE  AgreeInv'
<1> DEFINE l == IF proc[c].op = "attach" /\ row.wrapped # NoKek THEN "enqueue" ELSE "kek"
<1>1. /\ c \in Proc /\ proc[c].pc = "load" /\ ~proc[c].holds /\ row.source # "managed"
      /\ UNCHANGED <<row, job, sidecar, wrap, causes>>
  BY WorkerHolds DEF LoadConfig, At, Proc
<1>2. proc' = [proc EXCEPT ![c] = [@ EXCEPT !.pc = l, !.at = row, !.previous = row.status]]
  BY DEF LoadConfig
<1>3. l = (IF proc[c].op = "attach" /\ row.wrapped # NoKek THEN "enqueue" ELSE "kek") OBVIOUS
<1> HIDE DEF l
<1>4. /\ Others(c) /\ proc'[c].pc = l /\ proc'[c].at = row
      /\ proc'[c].op = proc[c].op /\ proc'[c].holds = proc[c].holds
  BY <1>1, <1>2, LoadFacts
<1>5. proc'[c].previous = row.status
  <2>1. proc[c] \in Frame /\ proc \in [Proc -> Frame] BY <1>1 DEF TypeOK
  <2>2. proc'[c] = [proc[c] EXCEPT !.pc = l, !.at = row, !.previous = row.status] BY <1>1, <1>2, <2>1
  <2> QED BY <2>1, <2>2 DEF Frame
<1>6. CarryFits(proc'[c], job.previous) BY <1>1, <1>3, <1>4 DEF CarryFits
<1>7. ASSUME Calm PROVE StageFits(proc'[c], row, sidecar, wrap)
  <2>1. row.wrapped = NoKek => row.status \notin Attached
    BY <1>1, <1>7 DEF Calm, RowAgrees, NeverAttached, Attached
  <2> QED BY <1>3, <1>4, <1>5, <2>1 DEF StageFits, StagePC
<1>8. ~MidReclaim(c) /\ ~MidDetach(c) /\ ~Undoing(c) /\ ~Returning(c)'
  BY <1>1, <1>3, <1>4 DEF MidReclaim, MidDetach, Undoing, Returning, At
<1> QED BY <1>1, <1>4, <1>6, <1>7, <1>8, StillAgrees

LEMMA LoadAgree ==
  ASSUME TypeOK, HoldInv, LossInv, AgreeInv, NEW c \in Call,
         LoadForPut(c) \/ LoadForPutManaged(c) \/ LoadConfig(c) \/ LoadForTenant(c)
  PROVE  AgreeInv'
<1> SUFFICES ASSUME ~LoadConfig(c) \/ Return(c) PROVE AgreeInv' BY LoadConfigAgree
<1>1. /\ c \in Proc /\ proc[c].pc = "load" /\ UNCHANGED <<row, job, sidecar, wrap, causes>>
  BY DEF LoadForPut, LoadForPutManaged, LoadConfig, LoadForTenant, At, Proc
<1>2. \/ Return(c)
      \/ \E l \in {"write", "use", "set"} : proc' = [proc EXCEPT ![c] = [@ EXCEPT !.pc = l, !.at = row]]
  BY DEF LoadForPut, LoadForPutManaged, LoadForTenant
<1>3. Others(c) /\ proc'[c].pc \in {"idle", "write", "use", "set"} /\ ~proc'[c].holds
  <2>1. ~proc[c].holds BY <1>1, WorkerHolds
  <2>2. CASE Return(c) BY <1>1, <2>2, ReturnFacts
  <2>3. ASSUME NEW l \in {"write", "use", "set"}, proc' = [proc EXCEPT ![c] = [@ EXCEPT !.pc = l, !.at = row]]
        PROVE  Others(c) /\ proc'[c].pc = l /\ ~proc'[c].holds
    BY <1>1, <2>1, <2>3, LoadFacts
  <2> QED BY <1>2, <2>2, <2>3
<1>4. \A r, s, w : CarryFits(proc'[c], job.previous) /\ StageFits(proc'[c], r, s, w)
  BY <1>3 DEF CarryFits, StageFits, StagePC
<1>5. ~MidReclaim(c) /\ ~MidDetach(c) /\ ~Undoing(c) /\ ~Returning(c)'
  BY <1>1, <1>3 DEF MidReclaim, MidDetach, Undoing, Returning, At
<1> QED BY <1>1, <1>3, <1>4, <1>5, StillAgrees

\* A KEK is unwrapped, or a new one is generated.
LEMMA LoadKekAgree ==
  ASSUME TypeOK, HoldInv, LossInv, AgreeInv, NEW p \in Proc, LoadKek(p)
  PROVE  AgreeInv'
<1>1. /\ proc[p].pc = "kek" /\ UNCHANGED <<row, job, sidecar, wrap, causes>>
      /\ CarryFits(proc[p], job.previous) /\ proc[p] \in Frame /\ proc \in [Proc -> Frame]
  BY DEF LoadKek, At, AgreeInv, TypeOK
<1>2. (p \in Worker => proc[p].holds) /\ (p \in Call => ~proc[p].holds) /\ (p \in Call \/ p \in Worker)
  BY <1>1, WorkerHolds DEF Proc
<1>3. \/ Return(p)
      \/ Goto(p, AfterError(p)) /\ AfterError(p) # "idle"
      \/ \E k \in Kek \cup {NoKek}, l \in {AfterKek(p), "store"} :
           /\ proc' = [proc EXCEPT ![p] = [@ EXCEPT !.kek = k, !.at = row, !.pc = l]]
           /\ k # NoKek /\ (l # "store" => row.wrapped = k /\ l # "idle")
           /\ l = "store" => proc[p].op # "attach" \/ row.wrapped = NoKek
  <2>1. CASE /\ Opens(row)
             /\ proc' = [proc EXCEPT ![p] =
                  IF AfterKek(p) = "idle" /\ proc[p].op # "rotate" THEN IdleFrame
                  ELSE [@ EXCEPT !.kek = row.wrapped, !.at = row,
                                 !.pc = IF proc[p].op = "rotate" THEN "store" ELSE AfterKek(p)]]
    <3>1. row.wrapped # NoKek /\ row.wrapped \in Kek \cup {NoKek} BY <2>1, ParsTyped DEF Opens
    <3>2. CASE AfterKek(p) = "idle" /\ proc[p].op # "rotate" BY <2>1, <3>2 DEF Return
    <3>3. CASE proc[p].op = "rotate" BY <2>1, <3>1, <3>3
    <3>4. CASE AfterKek(p) # "idle" /\ proc[p].op # "rotate"
      <4>1. AfterKek(p) # "store" BY DEF AfterKek
      <4> QED BY <2>1, <3>1, <3>4, <4>1
    <3> QED BY <3>2, <3>3, <3>4
  <2>2. CASE /\ row.wrapped = NoKek
             /\ \E k \in Kek \ used : proc' = [proc EXCEPT ![p].kek = k, ![p].at = row, ![p].pc = "store"]
    <3>1. PICK k \in Kek \ used : proc' = [proc EXCEPT ![p].kek = k, ![p].at = row, ![p].pc = "store"]
      BY <2>2
    <3>2. proc' = [proc EXCEPT ![p] = [@ EXCEPT !.kek = k, !.at = row, !.pc = "store"]] BY <3>1
    <3>3. k # NoKek BY KeysAreApart
    <3> QED BY <2>2, <3>2, <3>3
  <2>3. CASE Leave(p, AfterError(p)) BY <2>3 DEF Leave
  <2> QED BY <2>1, <2>2, <2>3 DEF LoadKek
<1>4. ~MidReclaim(p) /\ ~MidDetach(p) /\ ~Undoing(p) BY <1>1 DEF MidReclaim, MidDetach, Undoing, At
<1>5. CASE Return(p)
  <2>1. Others(p) /\ proc'[p].pc = "idle" /\ ~proc'[p].holds BY <1>5, ReturnFacts
  <2>2. ~Returning(p)' BY <2>1 DEF Returning, At
  <2> QED BY <1>1, <1>4, <2>1, <2>2, IdleAgrees, StillAgrees
<1>6. CASE Goto(p, AfterError(p)) /\ AfterError(p) # "idle"
  <2>1. Others(p) /\ Same(p) /\ proc'[p].pc = AfterError(p) BY <1>6, GotoFacts
  <2>2. AfterError(p) \in {"revert", "unavailable"} /\ (AfterError(p) = "revert" => p \in Worker)
    BY <1>6 DEF AfterError
  <2>3. ~Returning(p)' BY <1>2, <2>1, <2>2 DEF Returning, At, Same
  <2>4. \A r, s, w : CarryFits(proc'[p], job.previous) /\ StageFits(proc'[p], r, s, w)
    BY <1>1, <2>1, <2>2 DEF CarryFits, StageFits, StagePC, Same
  <2> QED BY <1>1, <1>4, <2>1, <2>2, <2>3, <2>4, StillAgrees DEF Same
<1>7. ASSUME NEW k \in Kek \cup {NoKek}, NEW l \in {AfterKek(p), "store"},
             proc' = [proc EXCEPT ![p] = [@ EXCEPT !.kek = k, !.at = row, !.pc = l]],
             k # NoKek, l # "store" => row.wrapped = k /\ l # "idle",
             l = "store" => proc[p].op # "attach" \/ row.wrapped = NoKek
      PROVE  AgreeInv'
  <2>1. Others(p) /\ proc'[p] = [proc[p] EXCEPT !.kek = k, !.at = row, !.pc = l] BY <1>1, <1>7 DEF Others
  <2>2. Same(p) /\ proc'[p].pc = l /\ proc'[p].kek = k /\ proc'[p].at = row
    BY <1>1, <2>1 DEF Frame, Same
  <2>3. l \in {"store", "dual", "enqueue"} /\ (l = "enqueue" => proc[p].op = "attach" /\ ~proc[p].holds)
    BY <1>2, <1>7 DEF AfterKek
  <2>4. CarryFits(proc'[p], job.previous) BY <1>1, <1>7, <2>2, <2>3 DEF CarryFits, Same
  <2>5. ASSUME Calm PROVE StageFits(proc'[p], row, sidecar, wrap)
    <3>1. StageFits(proc[p], row, sidecar, wrap) BY <2>5 DEF Calm, AllStagesFit
    <3> QED BY <1>1, <1>7, <2>2, <2>3, <3>1 DEF StageFits, StagePC, Same
  <2>6. ~Returning(p)' BY <2>2, <2>3 DEF Returning, At
  <2> QED BY <1>1, <1>4, <2>1, <2>2, <2>3, <2>4, <2>5, <2>6, StillAgrees DEF Same
<1> QED BY <1>3, <1>5, <1>6, <1>7

\* Nothing is blamed while there is no cause.
LEMMA BlameNone ==
  ASSUME NEW c, NEW happened \in BOOLEAN, Blame(c, happened)
  PROVE  causes \subseteq causes' /\ (causes' = {} => ~happened)
BY DEF Blame

\* A step of a call that leaves sidecar and DEKs alone, and an attached row
\* attached under its key and as far from rotating as it was.
LEMMA RowAgreesStep ==
  ASSUME TypeOK, HoldInv, LossInv, AgreeInv, NEW c \in Proc, Others(c),
         UNCHANGED <<job, sidecar, wrap>>, causes \subseteq causes',
         proc'[c].holds => proc[c].holds, ~MidReclaim(c), ~MidDetach(c), ~Undoing(c), ~Returning(c)',
         CarryFits(proc'[c], job.previous),
         proc'[c].pc \notin {"abort", "succeed", "fail"},
         causes' = {} /\ Calm =>
           /\ StageFits(proc'[c], row', sidecar, wrap)
           /\ \/ NeverAttached(row') /\ NeverAttached(row)
              \/ /\ ~NeverAttached(row') /\ ~NeverAttached(row) /\ row'.wrapped = row.wrapped
                 /\ row'.status = "rotating" <=> row.status = "rotating"
  PROVE  AgreeInv'
<1>1. ASSUME causes' = {}, Calm PROVE AgreeGoal(c)
  <2>1. Unsettled => Unsettled' BY UnsettledGoes
  <2>2. ASSUME NEW q \in Proc, q # c, proc[q].pc \in StagePC
        PROVE  StageFits(proc[q], row', sidecar', wrap')
    <3>1. ~NeverAttached(row) BY <1>1, <2>2, StageHolder DEF Calm
    <3>2. row'.wrapped = row.wrapped BY <1>1, <3>1
    <3> QED BY <1>1, <2>2, <3>2 DEF Calm, AllStagesFit, StageFits
  <2>3. row'.wrapped = row.wrapped => (Whole => Whole') BY DEF Whole
  <2> QED BY <1>1, <2>1, <2>2, <2>3 DEF AgreeGoal
<1> QED BY <1>1, MoveAgrees

\* updateConfig and upsertManaged write, and a failed verify.
LEMMA WriteAgree ==
  ASSUME TypeOK, HoldInv, LossInv, AgreeInv, NEW c \in Call,
         WriteCloud(c) \/ WriteManaged(c) \/ MarkUnavailable(c)
  PROVE  AgreeInv'
<1>1. c \in Proc /\ LoadFits(c, proc[c], job.kind) /\ row \in Row BY ParsTyped DEF LossInv, Proc
<1>2. /\ Return(c) /\ UNCHANGED <<job, sidecar, wrap>> /\ proc[c].pc \in {"write", "unavailable"}
  BY DEF WriteCloud, WriteManaged, MarkUnavailable, At
<1>3. Others(c) /\ proc'[c].pc = "idle" /\ ~proc'[c].holds BY <1>1, <1>2, ReturnFacts
<1>4. ~MidReclaim(c) /\ ~MidDetach(c) /\ ~Undoing(c) /\ ~Returning(c)'
  BY <1>2, <1>3 DEF MidReclaim, MidDetach, Undoing, Returning, At
<1>5. /\ causes \subseteq causes'
      /\ causes' = {} =>
           \/ NeverAttached(row') /\ NeverAttached(row)
           \/ /\ ~NeverAttached(row') /\ ~NeverAttached(row) /\ row'.wrapped = row.wrapped
              /\ row'.status = "rotating" <=> row.status = "rotating"
  <2>1. CASE WriteCloud(c)
    <3>1. causes \subseteq causes' /\ (causes' = {} => row = proc[c].at)
      BY <2>1, BlameNone DEF WriteCloud
    <3>2. proc[c].cloud # "managed" BY <1>1, <2>1 DEF WriteCloud, LoadFits
    <3>3. row' = [row EXCEPT !.source = proc[c].cloud, !.status = NextCloudPutStatus(proc[c].at)]
      BY <2>1 DEF WriteCloud
    <3>4. /\ row'.source = proc[c].cloud /\ row'.status = NextCloudPutStatus(proc[c].at)
          /\ row'.wrapped = row.wrapped
      BY <1>1, <3>3 DEF Row
    <3> QED BY <3>1, <3>2, <3>4 DEF NeverAttached, NextCloudPutStatus
  <2>2. CASE WriteManaged(c)
    <3>1. causes \subseteq causes' /\ (causes' = {} => row = proc[c].at)
      BY <2>2, BlameNone DEF WriteManaged
    <3>2. NeverAttached(proc[c].at) BY <1>1, <2>2 DEF WriteManaged, LoadFits, At
    <3>3. NeverAttached(row') BY <2>2 DEF WriteManaged, NeverAttached, ManagedRow
    <3> QED BY <3>1, <3>2, <3>3
  <2>3. CASE MarkUnavailable(c)
    <3>1. causes \subseteq causes' /\ (causes' = {} => row.status = "active")
      BY <2>3, BlameNone DEF MarkUnavailable
    <3>2. row' = IF row.source = "managed" THEN row ELSE [row EXCEPT !.status = "unavailable"]
      BY <2>3 DEF MarkUnavailable
    <3>3. row' = row \/ (row.source # "managed" /\ row'.source = row.source
                         /\ row'.status = "unavailable" /\ row'.wrapped = row.wrapped)
      BY <1>1, <3>2 DEF Row
    <3> QED BY <3>1, <3>3 DEF NeverAttached
  <2> QED BY <2>1, <2>2, <2>3
<1> QED BY <1>1, <1>2, <1>3, <1>4, <1>5, IdleAgrees, RowAgreesStep

\* A KEK is stored: an attached row has one already, and keeps it.
LEMMA StoreKekAgree ==
  ASSUME TypeOK, HoldInv, LossInv, AgreeInv, NEW p \in Proc, StoreKek(p)
  PROVE  AgreeInv'
<1>1. /\ proc[p].pc = "store" /\ UNCHANGED <<job, sidecar, wrap>> /\ row \in Row
      /\ CarryFits(proc[p], job.previous) /\ LoadFits(p, proc[p], job.kind)
      /\ proc[p] \in Frame /\ proc \in [Proc -> Frame]
  BY ParsTyped DEF StoreKek, At, AgreeInv, LossInv, TypeOK
<1>2. row' = [row EXCEPT !.wrapped = proc[p].kek, !.by = proc[p].at.source] BY DEF StoreKek
<1>3. row'.wrapped = proc[p].kek /\ row'.source = row.source /\ row'.status = row.status
  BY <1>1, <1>2 DEF Row
<1>4. causes \subseteq causes' /\ (causes' = {} => row = proc[p].at) BY BlameNone DEF StoreKek
<1>5. proc[p].at.wrapped \in {NoKek, proc[p].kek} /\ proc[p].kek # NoKek BY <1>1 DEF LoadFits, CarryFits
<1>6. /\ Others(p) /\ (proc'[p].holds => proc[p].holds /\ proc'[p].previous = proc[p].previous)
      /\ \/ proc'[p].pc = "idle" /\ ~proc'[p].holds
         \/ Same(p) /\ proc'[p].pc = "dual" /\ proc'[p].kek = proc[p].kek
         \/ /\ Same(p) /\ proc'[p].pc = "enqueue" /\ proc'[p].at = row'
            /\ proc[p].op = "attach" /\ ~proc[p].holds
  <2>1. CASE Return(p) BY <2>1, ReturnFacts
  <2>2. CASE AfterKek(p) # "idle" /\ proc' = [proc EXCEPT ![p].pc = AfterKek(p), ![p].at = row']
    <3>1. Others(p) /\ proc'[p] = [proc[p] EXCEPT !.pc = AfterKek(p), !.at = row'] BY <1>1, <2>2 DEF Others
    <3>2. Same(p) /\ proc'[p].pc = AfterKek(p) /\ proc'[p].at = row' /\ proc'[p].kek = proc[p].kek
      BY <1>1, <3>1 DEF Frame, Same
    <3>3. AfterKek(p) = "dual" \/ (AfterKek(p) = "enqueue" /\ proc[p].op = "attach" /\ ~proc[p].holds)
      BY <1>1, <2>2 DEF AfterKek, LoadFits, Proc
    <3> QED BY <3>1, <3>2, <3>3 DEF Same
  <2> QED BY <2>1, <2>2 DEF StoreKek
<1>7. proc'[p].pc \in {"idle", "dual", "enqueue"} BY <1>6
<1>8. CarryFits(proc'[p], job.previous) BY <1>1, <1>5, <1>6, <1>7 DEF CarryFits
<1>9. ~MidReclaim(p) /\ ~MidDetach(p) /\ ~Undoing(p) /\ ~Returning(p)'
  BY <1>1, <1>7 DEF MidReclaim, MidDetach, Undoing, Returning, At
<1>10. ASSUME causes' = {}, Calm
       PROVE  /\ StageFits(proc'[p], row', sidecar, wrap)
              /\ \/ NeverAttached(row') /\ NeverAttached(row)
                 \/ /\ ~NeverAttached(row') /\ ~NeverAttached(row) /\ row'.wrapped = row.wrapped
                    /\ row'.status = "rotating" <=> row.status = "rotating"
  <2>1. row = proc[p].at BY <1>4, <1>10
  <2>2. NeverAttached(row') <=> NeverAttached(row) BY <1>3 DEF NeverAttached
  <2>3. ~NeverAttached(row) => row'.wrapped = row.wrapped BY <1>3, <1>5, <1>10, <2>1 DEF Calm, RowAgrees
  <2>4. StageFits(proc[p], row, sidecar, wrap) BY <1>10 DEF Calm, AllStagesFit
  <2>5. StageFits(proc'[p], row', sidecar, wrap)
    BY <1>1, <1>3, <1>5, <1>6, <2>4 DEF StageFits, StagePC, Same
  <2> QED BY <1>3, <2>2, <2>3, <2>5
<1> QED BY <1>1, <1>4, <1>6, <1>7, <1>8, <1>9, <1>10, RowAgreesStep

\* A tenant operation uses a DEK: a new one joins the others.
LEMMA UseDekAgree ==
  ASSUME TypeOK, HoldInv, LossInv, AgreeInv, NEW c \in Call, UseDek(c)
  PROVE  AgreeInv'
<1>1. c \in Proc /\ proc[c].pc = "use" /\ UNCHANGED <<row, job, sidecar>> /\ Return(c)
  BY DEF Proc, UseDek, At
<1>2. Others(c) /\ proc'[c].pc = "idle" /\ ~proc'[c].holds BY <1>1, ReturnFacts
<1>3. ~MidReclaim(c) /\ ~MidDetach(c) /\ ~Undoing(c) /\ ~Returning(c)'
  BY <1>1, <1>2 DEF MidReclaim, MidDetach, Undoing, Returning, At
<1>4. \/ UNCHANGED <<wrap, causes>>
      \/ /\ \E d \in Dek : wrap' = [wrap EXCEPT ![d] = IF sidecar.kek = NoKek THEN Root ELSE sidecar.kek]
         /\ Blame("used_in_detach", Detaching)
  BY DEF UseDek, Detaching
<1>5. causes \subseteq causes' /\ (causes' = {} => wrap' = wrap \/ ~Detaching)
  BY <1>4, BlameNone DEF Detaching
<1>6. ASSUME causes' = {}, Calm PROVE AgreeGoal(c)
  <2>1. Unsettled => Unsettled' BY <1>1, <1>2, <1>3, UnsettledGoes
  <2>2. \A d \in Dek : wrap'[d] = wrap[d] \/ (sidecar.kek # NoKek => wrap'[d] = sidecar.kek)
    BY <1>4 DEF TypeOK
  <2>3. Whole => Whole' BY <1>1, <2>2 DEF Whole
  <2>4. ASSUME NEW q \in Proc, q # c, proc[q].pc \in StagePC
        PROVE  StageFits(proc[q], row', sidecar', wrap')
    <3>1. row.wrapped # NoKek BY <1>6, <2>4, StageHolder DEF Calm, RowAgrees
    <3>2. StageFits(proc[q], row, sidecar, wrap) BY <1>6 DEF Calm, AllStagesFit
    <3> QED BY <1>1, <2>2, <2>4, <3>1, <3>2 DEF StageFits, StagePC
  <2>5. StageFits(proc'[c], row', sidecar', wrap') BY <1>2, IdleAgrees
  <2> QED BY <1>1, <1>2, <1>3, <2>1, <2>3, <2>4, <2>5 DEF AgreeGoal
<1> QED BY <1>1, <1>2, <1>3, <1>5, <1>6, IdleAgrees, MoveAgrees

\* ensureTenantKek sends the key of the row it loaded, or marks the row.
LEMMA SetForTenantAgree ==
  ASSUME TypeOK, HoldInv, LossInv, AgreeInv, NEW c \in Call, SetForTenant(c)
  PROVE  AgreeInv'
<1> DEFINE at == proc[c].at
           root == at.status = "rotating"
<1>1. /\ c \in Proc /\ UNCHANGED <<job, wrap>> /\ proc[c].pc = "set" /\ ~proc[c].holds
      /\ ~NeverAttached(at) /\ row \in Row
  BY ParsTyped, WorkerHolds DEF Proc, SetForTenant, At, LossInv, LoadFits
<1>2. /\ Others(c) /\ proc'[c].pc \in {"idle", "use"} /\ ~proc'[c].holds
      /\ ~MidReclaim(c) /\ ~MidDetach(c) /\ ~Undoing(c) /\ ~Returning(c)'
  <2>1. Goto(c, "use") \/ Return(c) BY DEF SetForTenant
  <2>2. Others(c) /\ proc'[c].pc \in {"idle", "use"} /\ ~proc'[c].holds
    BY <1>1, <2>1, ReturnFacts, GotoFacts DEF Same
  <2> QED BY <1>1, <2>2 DEF MidReclaim, MidDetach, Undoing, Returning, At
<1>3. \A r, s, w : CarryFits(proc'[c], job.previous) /\ StageFits(proc'[c], r, s, w)
  BY <1>2 DEF CarryFits, StageFits, StagePC
<1>4. CASE /\ sidecar' = [kek |-> at.wrapped, root |-> root]
           /\ causes' = causes \cup (IF row # at THEN {"stale_write"} ELSE {})
                 \cup (IF \E w \in Worker : MidDetach(w) THEN {"used_in_detach"} ELSE {})
                 \cup (IF root /\ \E w \in Worker : At(w, "mark") THEN {"dual_sent_late"} ELSE {})
           /\ row' = row
  <2>1. causes \subseteq causes' BY <1>4
  <2>2. ASSUME causes' = {}, Calm PROVE AgreeGoal(c)
    <3>1. row = at /\ ~Detaching /\ (root => ~\E w \in Worker : At(w, "mark"))
      BY <1>4, <2>2 DEF Detaching
    <3>2. sidecar'.kek = row.wrapped /\ (sidecar'.root <=> row.status = "rotating") BY <1>4, <3>1
    <3>3. Whole => Whole' BY <1>1, <1>4, <3>2 DEF Whole
    <3>4. ASSUME NEW q \in Proc, q # c, proc[q].pc \in StagePC
          PROVE  StageFits(proc[q], row', sidecar', wrap')
      <4>1. StageFits(proc[q], row, sidecar, wrap) /\ q \in Worker
        BY <2>2, <3>4, StageHolder DEF Calm, AllStagesFit
      <4>2. proc[q].pc = "mark" => ~sidecar'.root BY <3>1, <3>2, <4>1 DEF At
      <4> QED BY <1>1, <1>4, <3>2, <3>4, <4>1, <4>2 DEF StageFits, StagePC
    <3>5. ~NeverAttached(row) BY <1>1, <3>1
    <3> QED BY <1>2, <1>3, <1>4, <3>2, <3>3, <3>4, <3>5 DEF AgreeGoal
  <2> QED BY <1>1, <1>2, <1>3, <2>1, <2>2, MoveAgrees
<1>5. CASE UNCHANGED <<row, causes, sidecar>>
  BY <1>1, <1>2, <1>3, <1>5, StillAgrees
<1>6. CASE /\ ~root /\ sidecar' = sidecar /\ Blame("stale_write", row # at)
           /\ row' = IF row.source = "managed" THEN row ELSE [row EXCEPT !.status = "unavailable"]
  <2>1. causes \subseteq causes' /\ (causes' = {} => row = at) BY <1>6, BlameNone
  <2>2. row' = row \/ (row.source # "managed" /\ row'.source = row.source
                       /\ row'.status = "unavailable" /\ row'.wrapped = row.wrapped)
    BY <1>1, <1>6 DEF Row
  <2>3. causes' = {} => /\ ~NeverAttached(row') /\ ~NeverAttached(row) /\ row'.wrapped = row.wrapped
                        /\ row'.status = "rotating" <=> row.status = "rotating"
    BY <1>1, <1>6, <2>1, <2>2 DEF NeverAttached
  <2> QED BY <1>1, <1>2, <1>3, <1>6, <2>1, <2>3, RowAgreesStep
<1> QED BY <1>4, <1>5, <1>6 DEF SetForTenant, Send

-----------------------------------------------------------------------------
\* A call enqueues a job: an attach starts from the agreement it found.
LEMMA EnqueueAttachAgree ==
  ASSUME TypeOK, HoldInv, LossInv, AgreeInv, NEW c \in Call, EnqueueAttach(c), ~Active
  PROVE  AgreeInv'
<1>1. /\ c \in Proc /\ Return(c) /\ proc[c].pc = "enqueue" /\ UNCHANGED <<wrap, sidecar>>
      /\ row \in Row /\ row' = [row EXCEPT !.status = "rotating"]
      /\ job' = [kind |-> "dek_rewrap", status |-> "pending", previous |-> proc[c].previous, warmup |-> FALSE]
      /\ causes' = causes \cup (IF row # proc[c].at THEN {"stale_write"} ELSE {})
                          \cup (IF \E p \in Proc : Reclaiming(p) THEN {"reclaim_overlapped"} ELSE {})
  BY ParsTyped DEF Proc, EnqueueAttach, NewJob, At
<1>2. row'.source = row.source /\ row'.status = "rotating" /\ row'.wrapped = row.wrapped
  BY <1>1 DEF Row
<1>3. job'.kind = "dek_rewrap" /\ job'.status = "pending" /\ job'.previous = proc[c].previous BY <1>1
<1>4. Others(c) /\ proc'[c].pc = "idle" /\ ~proc'[c].holds BY <1>1, ReturnFacts
<1>5. Holding = {} BY DEF Active, HoldInv, OneWorker
<1>6. \A q \in Proc : ~proc[q].holds /\ ~proc'[q].holds BY <1>4, <1>5 DEF Holding, Others
<1>7. ASSUME NEW q \in Proc PROVE CarryFits(proc'[q], job'.previous)
  BY <1>4, <1>6, IdleAgrees DEF CarryFits, AgreeInv, Others
<1>8. ASSUME causes' = {} PROVE RowAgrees' /\ AllStagesFit'
  <2>1. causes = {} /\ row = proc[c].at /\ \A p \in Proc : ~Reclaiming(p) BY <1>1, <1>8
  <2>2. Calm BY <2>1, CalmHolds
  <2>3. StageFits(proc[c], row, sidecar, wrap) BY <1>1, <2>2 DEF Calm, AllStagesFit
  <2>4. row.source # "managed" BY <1>1, <2>1, <2>2 DEF Calm, Quiet, WorkFits
  <2>5. row.wrapped # NoKek /\ (proc[c].previous \in Attached => proc[c].previous = row.status)
    BY <1>1, <2>1, <2>3 DEF StageFits
  <2>6. ~Detaching BY <1>6, DetachHolder DEF Detaching, Proc
  <2>7. proc[c].previous \in Attached => Whole
    BY <2>2, <2>4, <2>5, <2>6 DEF Calm, RowAgrees, NeverAttached, Attached
  <2>8. Reattach' => Whole' BY <1>1, <1>2, <1>3, <2>7 DEF Reattach, Whole
  <2>9. AttachInHand' BY <1>3, <1>6 DEF AttachInHand, Active, Holding
  <2>10. \A q \in Proc : ~Undoing(q)' /\ ~Returning(q)'
    BY <1>4, <1>6, <2>1 DEF Undoing, Returning, Reclaiming, MidReclaim, At, Others
  <2>11. RowAgrees' BY <1>2, <2>5, <2>8, <2>9, <2>10 DEF RowAgrees
  <2>12. ASSUME NEW q \in Proc PROVE StageFits(proc'[q], row', sidecar', wrap')
    <3>1. CASE q = c BY <1>4, <3>1, IdleAgrees
    <3>2. CASE q # c
      <4>1. StageFits(proc[q], row, sidecar, wrap) BY <2>2 DEF Calm, AllStagesFit
      <4> QED BY <1>1, <1>2, <1>4, <3>2, <4>1 DEF StageFits, Others
    <3> QED BY <3>1, <3>2
  <2> QED BY <2>11, <2>12 DEF AllStagesFit
<1> QED BY <1>7, <1>8 DEF AgreeInv

LEMMA EnqueueAgree ==
  ASSUME TypeOK, HoldInv, LossInv, AgreeInv, NEW c \in Call, EnqueueAttach(c) \/ EnqueueDetach(c)
  PROVE  AgreeInv'
<1>1. /\ c \in Proc /\ Return(c) /\ proc[c].pc \in {"enqueue", "load"}
      /\ UNCHANGED <<wrap, sidecar>>
  BY DEF Proc, EnqueueAttach, EnqueueDetach, At
<1>2. Others(c) /\ proc'[c].pc = "idle" /\ ~proc'[c].holds BY <1>1, ReturnFacts
<1>3. ~MidReclaim(c) /\ ~MidDetach(c) /\ ~Undoing(c) /\ ~Returning(c)'
  BY <1>1, <1>2 DEF MidReclaim, MidDetach, Undoing, Returning, At
<1>4. CASE UNCHANGED <<row, job, causes>>
  BY <1>1, <1>2, <1>3, <1>4, IdleAgrees, StillAgrees
<1>5. CASE EnqueueDetach(c) /\ ~Active /\ job'.kind = "detach_managed" /\ UNCHANGED <<row, causes>>
  <2>1. Holding = {} BY <1>5 DEF Active, HoldInv, OneWorker
  <2>2. \A q \in Proc : ~proc[q].holds /\ ~proc'[q].holds BY <1>2, <2>1 DEF Holding, Others
  <2>3. ASSUME NEW q \in Proc PROVE CarryFits(proc'[q], job'.previous)
    BY <1>2, <2>2, IdleAgrees DEF CarryFits, AgreeInv, Others
  <2>4. ASSUME causes' = {} PROVE RowAgrees' /\ AllStagesFit'
    <3>1. Calm BY <1>5, <2>4, CalmHolds
    <3>2. ~AttachRuns /\ ~AttachInHand /\ ~Reattach' BY <1>5 DEF AttachRuns, AttachInHand, Active, Reattach
    <3>3. Unsettled => Unsettled'
      <4>1. \A q \in Proc : MidReclaim(q) => MidReclaim(q)' BY <1>2, <1>3 DEF MidReclaim, At, Others
      <4> QED BY <3>2, <4>1 DEF Unsettled
    <3>4. Detaching => Detaching' BY <2>2, DetachHolder DEF Detaching, Proc
    <3>5. \A q \in Proc : /\ Undoing(q) => Undoing(q)'
                          /\ Returning(q)' => Returning(q) /\ proc'[q].previous = proc[q].previous
      BY <1>2, <1>3 DEF Undoing, Returning, At, Others
    <3>6. Whole => Whole' BY <1>1, <1>5 DEF Whole
    <3>7. RowAgrees' BY <1>1, <1>5, <3>1, <3>2, <3>3, <3>4, <3>5, <3>6, RowKeeps DEF Calm
    <3>8. ASSUME NEW q \in Proc PROVE StageFits(proc'[q], row', sidecar', wrap')
      BY <1>1, <1>2, <1>5, <3>1, IdleAgrees DEF Calm, AllStagesFit, Others
    <3> QED BY <3>7, <3>8 DEF AllStagesFit
  <2> QED BY <2>3, <2>4 DEF AgreeInv
<1> QED BY <1>4, <1>5, EnqueueAttachAgree DEF EnqueueAttach, EnqueueDetach, NewJob

\* A step that gives the row another status, with what it owes for it.
LEMMA StatusAgrees ==
  ASSUME LossInv, AgreeInv, NEW p \in Proc, Others(p), UNCHANGED <<job, sidecar, wrap>>,
         causes \subseteq causes', CarryFits(proc'[p], job.previous),
         causes' = {} /\ Calm =>
           /\ StageFits(proc'[p], row', sidecar, wrap)
           /\ row'.wrapped = row.wrapped \/ \A q \in Proc : q # p => proc[q].pc \notin StagePC
           /\ RowAgrees'
  PROVE  AgreeInv'
<1>1. \A q \in Proc : CarryFits(proc'[q], job'.previous) BY DEF AgreeInv, Others
<1>2. ASSUME causes' = {} PROVE RowAgrees' /\ AllStagesFit'
  <2>1. Calm BY <1>2, CalmHolds
  <2>2. ASSUME NEW q \in Proc PROVE StageFits(proc'[q], row', sidecar', wrap')
    BY <1>2, <2>1 DEF Calm, AllStagesFit, StageFits, StagePC, Others
  <2> QED BY <1>2, <2>1, <2>2 DEF AllStagesFit
<1> QED BY <1>1, <1>2 DEF AgreeInv

\* A job is claimed.
LEMMA ClaimAgree ==
  ASSUME TypeOK, HoldInv, LossInv, AgreeInv, NEW w \in Worker, Claim(w)
  PROVE  AgreeInv'
<1>1. /\ w \in Proc /\ proc[w] \in Frame /\ proc \in [Proc -> Frame] /\ proc[w].pc = "idle"
      /\ job.status = "pending" /\ UNCHANGED <<row, sidecar, wrap, causes>>
      /\ job' = [job EXCEPT !.status = "running"] /\ job \in Job
  BY DEF Claim, At, Proc, TypeOK
<1>2. /\ Others(w)
      /\ proc'[w] = [proc[w] EXCEPT !.pc = "row", !.holds = TRUE, !.previous = job.previous]
  BY <1>1 DEF Claim, Others
<1>3. proc'[w].pc = "row" /\ proc'[w].previous = job.previous BY <1>1, <1>2 DEF Frame
<1>4. job'.kind = job.kind /\ job'.status = "running" /\ job'.previous = job.previous BY <1>1 DEF Job
<1>5. Holding = {} BY <1>1 DEF HoldInv, OneWorker
<1>6. \A q \in Proc : ~proc[q].holds BY <1>5 DEF Holding
<1>7. ASSUME NEW q \in Proc PROVE CarryFits(proc'[q], job'.previous)
  BY <1>2, <1>3, <1>4 DEF CarryFits, AgreeInv, Others
<1>8. ASSUME causes' = {} PROVE RowAgrees' /\ AllStagesFit'
  <2>1. Calm BY <1>1, <1>8, CalmHolds
  <2>2. Unsettled => Unsettled'
    <3>1. ~AttachRuns BY <1>1 DEF AttachRuns
    <3>2. \A q \in Proc : MidReclaim(q) => MidReclaim(q)' BY <1>1, <1>2 DEF MidReclaim, At, Others
    <3> QED BY <3>1, <3>2 DEF Unsettled
  <2>3. AttachInHand => AttachInHand'
    <3>1. \A q \in Holding' : proc'[q].pc = "row" BY <1>2, <1>3, <1>6 DEF Holding, Others
    <3> QED BY <1>4, <3>1 DEF AttachInHand, Active
  <2>4. Detaching => Detaching' BY <1>6, DetachHolder DEF Detaching, Proc
  <2>5. \A q \in Proc : /\ Undoing(q) => Undoing(q)'
                        /\ Returning(q)' => Returning(q) /\ proc'[q].previous = proc[q].previous
    BY <1>1, <1>2, <1>3 DEF Undoing, Returning, At, Others
  <2>6. (Whole => Whole') /\ (Reattach' => Reattach) BY <1>1, <1>4 DEF Whole, Reattach, Active
  <2>7. RowAgrees' BY <1>1, <2>1, <2>2, <2>3, <2>4, <2>5, <2>6, RowKeeps DEF Calm
  <2>8. ASSUME NEW q \in Proc PROVE StageFits(proc'[q], row', sidecar', wrap')
    <3>1. CASE q = w
      <4>1. proc'[w].pc \notin StagePC /\ proc'[w].pc \notin {"kek", "store", "enqueue"} BY <1>3 DEF StagePC
      <4> QED BY <3>1, <4>1 DEF StageFits, StagePC
    <3>2. CASE q # w BY <1>1, <1>2, <2>1, <3>2 DEF Calm, AllStagesFit, Others
    <3> QED BY <3>1, <3>2
  <2> QED BY <2>7, <2>8 DEF AllStagesFit
<1> QED BY <1>7, <1>8 DEF AgreeInv

\* A job ends.
LEMMA EndJobAgree ==
  ASSUME TypeOK, HoldInv, LossInv, AgreeInv, NEW w \in Worker, EndJob(w)
  PROVE  AgreeInv'
<1>1. /\ w \in Proc /\ proc[w].pc \in {"succeed", "fail"} /\ Return(w)
      /\ UNCHANGED <<row, sidecar, wrap, causes>>
      /\ job' = [job EXCEPT !.status = IF At(w, "fail") THEN "failed" ELSE "succeeded"] /\ job \in Job
  BY DEF EndJob, At, Proc, TypeOK
<1>2. Others(w) /\ proc'[w].pc = "idle" /\ ~proc'[w].holds BY <1>1, ReturnFacts
<1>3. job'.previous = job.previous /\ job'.kind = job.kind /\ job'.status \in {"failed", "succeeded"}
  BY <1>1 DEF Job
<1>4. ASSUME NEW q \in Proc PROVE CarryFits(proc'[q], job'.previous)
  BY <1>2, <1>3, IdleAgrees DEF AgreeInv, Others
<1>5. ASSUME causes' = {} PROVE RowAgrees' /\ AllStagesFit'
  <2>1. Calm BY <1>1, <1>5, CalmHolds
  <2>2. w \in Holding BY <1>1, WorkerHolds DEF JobPC, Holding
  <2>3. ~AttachRuns /\ ~AttachInHand /\ ~Reattach'
    BY <1>1, <1>3, <2>2 DEF AttachRuns, AttachInHand, Reattach, Active
  <2>4. Unsettled => Unsettled'
    <3>1. \A q \in Proc : MidReclaim(q) => MidReclaim(q)' BY <1>1, <1>2 DEF MidReclaim, At, Others
    <3> QED BY <2>3, <3>1 DEF Unsettled
  <2>5. Detaching => Detaching' BY <1>1, <1>2 DEF Detaching, MidDetach, At, Others, Proc
  <2>6. \A q \in Proc : /\ Undoing(q) => Undoing(q)'
                        /\ Returning(q)' => Returning(q) /\ proc'[q].previous = proc[q].previous
    BY <1>1, <1>2 DEF Undoing, Returning, At, Others
  <2>7. Whole => Whole' BY <1>1 DEF Whole
  <2>8. RowAgrees' BY <1>1, <2>1, <2>3, <2>4, <2>5, <2>6, <2>7, RowKeeps DEF Calm
  <2>9. ASSUME NEW q \in Proc PROVE StageFits(proc'[q], row', sidecar', wrap')
    BY <1>1, <1>2, <2>1, IdleAgrees DEF Calm, AllStagesFit, Others
  <2> QED BY <2>8, <2>9 DEF AllStagesFit
<1> QED BY <1>4, <1>5 DEF AgreeInv

\* A stale job is found: an attach that would return to an attached row is
\* whole, and stays so until it is undone.
LEMMA SelectAgree ==
  ASSUME TypeOK, HoldInv, StaleInv, LossInv, AgreeInv, NEW p \in Proc, SelectStale(p)
  PROVE  AgreeInv'
<1>1. /\ proc[p].pc \in {"reclaim", "idle"} /\ job.status = "running" /\ Holding = {}
      /\ UNCHANGED <<row, job, sidecar, wrap, causes>>
      /\ proc[p] \in Frame /\ proc \in [Proc -> Frame]
  BY DEF SelectStale, At, StaleJob, TypeOK
<1>2. /\ Others(p)
      /\ proc'[p] = [proc[p] EXCEPT !.pc = "stale", !.stale = jobs,
                        !.undo = job.kind = "dek_rewrap", !.previous = job.previous]
  BY <1>1 DEF SelectStale, Others
<1>3. /\ proc'[p].pc = "stale" /\ proc'[p].holds = proc[p].holds
      /\ proc'[p].undo = (job.kind = "dek_rewrap") /\ proc'[p].previous = job.previous
  BY <1>1, <1>2 DEF Frame
<1>4. \A q \in Proc : ~proc[q].holds /\ ~proc'[q].holds BY <1>1, <1>2, <1>3 DEF Holding, Others
<1>5. \A r, s, w : CarryFits(proc'[p], job.previous) /\ StageFits(proc'[p], r, s, w)
  BY <1>3, <1>4 DEF CarryFits, StageFits, StagePC
<1>6. ASSUME causes' = {}, Calm PROVE RowAgrees'
  <2>1. ~Detaching BY <1>4, DetachHolder DEF Detaching, Proc
  <2>2. Unsettled => Unsettled'
    <3>1. \A q \in Proc : MidReclaim(q) => MidReclaim(q)' BY <1>1, <1>2 DEF MidReclaim, At, Others
    <3>2. Holding' = {} BY <1>4 DEF Holding
    <3>3. AttachRuns => AttachRuns' BY <1>1, <3>2 DEF AttachRuns
    <3> QED BY <3>1, <3>3 DEF Unsettled
  <2>3. AttachInHand => AttachInHand'
    <3>1. Holding' = {} BY <1>4 DEF Holding
    <3> QED BY <1>1, <3>1 DEF AttachInHand, Active
  <2>4. \A q \in Proc : Undoing(q) => Undoing(q)' BY <1>1, <1>2 DEF Undoing, At, Others
  <2>5. (Whole <=> Whole') /\ (Reattach <=> Reattach') BY <1>1 DEF Whole, Reattach, Active
  <2>6. ASSUME NEW q \in Proc, Returning(q)', proc'[q].previous \in Attached
        PROVE  Reattach \/ (Returning(q) /\ proc[q].previous \in Attached)
    <3>1. CASE q = p BY <1>1, <1>3, <2>6, <3>1 DEF Returning, At, Reattach, Active
    <3>2. CASE q # p BY <1>2, <2>6, <3>2 DEF Returning, At, Others
    <3> QED BY <3>1, <3>2
  <2> SUFFICES ASSUME ~NeverAttached(row) PROVE RowAgrees' BY <1>1 DEF RowAgrees
  <2>7. (\E q \in Proc : Returning(q)' /\ proc'[q].previous \in Attached) => Whole'
    BY <1>6, <2>1, <2>5, <2>6 DEF Calm, RowAgrees
  <2>8. /\ row'.wrapped # NoKek /\ (Reattach' => Whole')
        /\ row'.status # "rotating" => Whole' /\ (sidecar'.root => Unsettled')
        /\ row'.status = "rotating" => AttachInHand' \/ \E q \in Proc : Undoing(q)'
    BY <1>1, <1>6, <2>1, <2>2, <2>3, <2>4, <2>5 DEF Calm, RowAgrees
  <2> QED BY <2>7, <2>8 DEF RowAgrees
<1> QED BY <1>1, <1>2, <1>5, <1>6, StatusAgrees

\* It is failed, unless somebody else has failed it: its attach goes from its
\* dead worker's hand to the process that will undo it.
LEMMA ReclaimAgree ==
  ASSUME TypeOK, HoldInv, StaleInv, LossInv, AgreeInv, NEW p \in Proc, Reclaim(p)
  PROVE  AgreeInv'
<1>1. /\ proc[p].pc = "stale" /\ ~proc[p].holds /\ StaleFits(proc[p])
      /\ UNCHANGED <<row, sidecar, wrap, causes>> /\ job \in Job
  BY DEF Reclaim, At, StaleInv, StaleFits, TypeOK
<1>2. /\ Others(p) /\ ~proc'[p].holds
      /\ \/ proc[p].undo /\ proc'[p].pc = "revert" /\ proc'[p].previous = proc[p].previous
         \/ ~proc[p].undo /\ proc'[p].pc \in {"idle", "check"}
  <2>1. CASE proc[p].undo BY <1>1, <2>1, GotoFacts DEF Reclaim, Same
  <2>2. CASE ~proc[p].undo BY <1>1, <2>2, LeaveFacts DEF Reclaim, AfterReclaim
  <2> QED BY <2>1, <2>2
<1>3. /\ job'.kind = job.kind /\ job'.previous = job.previous
      /\ \/ job' = job
         \/ job'.status = "failed" /\ Holding = {} /\ (proc[p].undo <=> job.kind = "dek_rewrap")
  BY <1>1 DEF Reclaim, StaleFits, Job
<1>4. \A r, s, w : CarryFits(proc'[p], job.previous) /\ StageFits(proc'[p], r, s, w)
  BY <1>2 DEF CarryFits, StageFits, StagePC
<1>5. ASSUME NEW q \in Proc PROVE CarryFits(proc'[q], job'.previous)
  BY <1>2, <1>3, <1>4 DEF AgreeInv, Others
<1>6. ASSUME causes' = {} PROVE RowAgrees' /\ AllStagesFit'
  <2>1. Calm BY <1>1, <1>6, CalmHolds
  <2>2. \A q \in Proc : /\ MidReclaim(q) => MidReclaim(q)'
                        /\ Undoing(q) => Undoing(q)'
                        /\ Returning(q)' => Returning(q) /\ proc'[q].previous = proc[q].previous
    BY <1>1, <1>2 DEF MidReclaim, Undoing, Returning, At, Others
  <2>3. proc[p].undo => MidReclaim(p)' /\ Undoing(p)' BY <1>2 DEF MidReclaim, Undoing, At
  <2>4. \A q \in Holding' : q \in Holding /\ proc'[q] = proc[q] BY <1>2 DEF Holding, Others
  <2>5. (Whole <=> Whole') /\ (Reattach' => Reattach) BY <1>1, <1>3 DEF Whole, Reattach, Active
  <2>6. Detaching <=> Detaching' BY <1>1, <1>2 DEF Detaching, MidDetach, At, Others, Proc
  <2>7. AttachRuns => AttachRuns' \/ MidReclaim(p)' BY <1>3, <2>3, <2>4 DEF AttachRuns
  <2>8. AttachInHand => AttachInHand' \/ Undoing(p)' BY <1>3, <2>3, <2>4 DEF AttachInHand, Active
  <2>9. Unsettled => Unsettled' BY <2>2, <2>7 DEF Unsettled
  <2>10. ASSUME ~NeverAttached(row') PROVE RowAgrees'
    <3>1. ~NeverAttached(row) /\ RowAgrees BY <1>1, <2>1, <2>10 DEF Calm
    <3>2. row'.status = "rotating" => AttachInHand' \/ \E q \in Proc : Undoing(q)'
      BY <1>1, <2>2, <2>8, <3>1 DEF RowAgrees
    <3>3. ~Detaching' /\ (\E q \in Proc : Returning(q)' /\ proc'[q].previous \in Attached) => Whole'
      BY <2>2, <2>5, <2>6, <3>1 DEF RowAgrees
    <3> QED BY <1>1, <2>5, <2>6, <2>9, <3>1, <3>2, <3>3 DEF RowAgrees
  <2>11. ASSUME NEW q \in Proc PROVE StageFits(proc'[q], row', sidecar', wrap')
    BY <1>1, <1>2, <1>4, <2>1 DEF Calm, AllStagesFit, Others
  <2> QED BY <2>10, <2>11 DEF AllStagesFit, RowAgrees
<1> QED BY <1>5, <1>6 DEF AgreeInv

\* The row of a failed attach is put back: to an attached one only if it was
\* attached before, and then its key is whole.
LEMMA RevertAgree ==
  ASSUME TypeOK, HoldInv, LossInv, AgreeInv, NEW p \in Proc, Revert(p)
  PROVE  AgreeInv'
<1>1. /\ proc[p].pc = "revert" /\ UNCHANGED <<job, sidecar, wrap>> /\ Goto(p, "abort")
      /\ row \in Row /\ proc[p].previous \in Status
      /\ LoadFits(p, proc[p], job.kind) /\ CarryFits(proc[p], job.previous)
  BY ParsTyped DEF Revert, At, LossInv, AgreeInv
<1>2. Others(p) /\ Same(p) /\ proc'[p].pc = "abort" BY <1>1, GotoFacts
<1>3. causes \subseteq causes' /\ (causes' = {} => proc[p].holds \/ ~Active)
  BY BlameNone DEF Revert, Active
<1>4. \/ row' = row /\ (NeverAttached(row) \/ row.status # "rotating")
      \/ /\ row.status = "rotating" /\ ~NeverAttached(row) /\ row'.wrapped = row.wrapped
         /\ row'.status # "rotating"
         /\ ~NeverAttached(row') => proc[p].previous \in Attached
  <2>1. CASE row.source # "managed" /\ row.status = "rotating"
    <3> DEFINE s == IF proc[p].previous = "rotating" THEN "pending" ELSE proc[p].previous
    <3>1. row' = [row EXCEPT !.status = s] BY <2>1 DEF Revert
    <3>2. s # "rotating" /\ (s # "pending" => proc[p].previous \in Attached) BY <1>1 DEF Attached, Status
    <3> HIDE DEF s
    <3>3. row'.status = s /\ row'.wrapped = row.wrapped BY <1>1, <3>1 DEF Row
    <3> QED BY <2>1, <3>2, <3>3 DEF NeverAttached
  <2>2. CASE ~(row.source # "managed" /\ row.status = "rotating")
    BY <2>2 DEF Revert, NeverAttached
  <2> QED BY <2>1, <2>2
<1>5. Unsettled'
  <2>1. CASE proc[p].holds
    <3>1. job.status = "running" /\ Holding = {p} /\ job.kind = "dek_rewrap"
      BY <1>1, <2>1, Alone DEF LoadFits
    <3>2. Holding' \subseteq {p} BY <1>2, <3>1 DEF Holding, Others
    <3> QED BY <1>1, <1>2, <3>1, <3>2 DEF Unsettled, AttachRuns
  <2>2. CASE ~proc[p].holds BY <1>2, <2>2 DEF Unsettled, MidReclaim, At, Same
  <2> QED BY <2>1, <2>2
<1>6. CarryFits(proc'[p], job.previous) BY <1>1, <1>2 DEF CarryFits, Same
<1>7. \A r, s, w : StageFits(proc'[p], r, s, w) BY <1>2 DEF StageFits, StagePC
<1>8. ASSUME causes' = {}, Calm, ~NeverAttached(row') PROVE RowAgrees'
  <2>1. ~NeverAttached(row) /\ row'.wrapped = row.wrapped /\ row'.status # "rotating"
    BY <1>4, <1>8
  <2>2. row'.wrapped # NoKek BY <1>8, <2>1 DEF Calm, RowAgrees
  <2>3. Detaching <=> Detaching' BY <1>1, <1>2 DEF Detaching, MidDetach, At, Others, Proc
  <2>4. \A q \in Proc : Returning(q)' => Returning(q) /\ proc'[q].previous = proc[q].previous
    BY <1>2 DEF Returning, At, Others
  <2>5. (Whole => Whole') /\ (Reattach' => Reattach) BY <1>1, <2>1 DEF Whole, Reattach, Active
  <2>6. ~Detaching => Whole
    <3>1. CASE row.status # "rotating" BY <1>8, <2>1, <3>1 DEF Calm, RowAgrees
    <3>2. CASE row.status = "rotating"
      <4>1. proc[p].previous \in Attached BY <1>4, <1>8, <3>2
      <4>2. CASE proc[p].holds
        <5>1. Reattach BY <1>1, <4>1, <4>2, Alone DEF Reattach, Active, LoadFits, CarryFits
        <5> QED BY <1>8, <2>1, <5>1 DEF Calm, RowAgrees
      <4>3. CASE ~proc[p].holds
        <5>1. Returning(p) BY <1>1, <4>3 DEF Returning, At
        <5> QED BY <1>8, <2>1, <4>1, <5>1 DEF Calm, RowAgrees
      <4> QED BY <4>2, <4>3
    <3> QED BY <3>1, <3>2
  <2>7. Reattach => Whole BY <1>8, <2>1 DEF Calm, RowAgrees
  <2> QED BY <1>5, <2>1, <2>2, <2>3, <2>5, <2>6, <2>7 DEF RowAgrees
<1>9. NeverAttached(row') => RowAgrees' BY DEF RowAgrees
<1>10. row'.wrapped = row.wrapped BY <1>4
<1> QED BY <1>1, <1>2, <1>3, <1>6, <1>7, <1>8, <1>9, <1>10, StatusAgrees

\* A failed attach is cleaned up: the key of an attached row is in use.
LEMMA AbortAgree ==
  ASSUME TypeOK, HoldInv, LossInv, AgreeInv, NEW p \in Proc, Abort(p)
  PROVE  AgreeInv'
<1>1. /\ proc[p].pc = "abort" /\ UNCHANGED <<row, job, wrap>>
      /\ Leave(p, IF proc[p].holds THEN "fail" ELSE AfterReclaim(p))
      /\ CarryFits(proc[p], job.previous)
  BY DEF Abort, At, AgreeInv
<1>2. /\ Others(p) /\ proc'[p].pc \in {"fail", "idle", "check"}
      /\ proc'[p].holds => proc[p].holds /\ proc'[p].previous = proc[p].previous
  BY <1>1, LeaveFacts DEF AfterReclaim
<1>3. ~Undoing(p) /\ ~Returning(p)' /\ ~MidDetach(p) BY <1>1, <1>2 DEF Undoing, Returning, MidDetach, At
<1>4. CarryFits(proc'[p], job.previous) BY <1>1, <1>2 DEF CarryFits
<1>5. \A r, s, w : StageFits(proc'[p], r, s, w) BY <1>2 DEF StageFits, StagePC
<1>6. causes \subseteq causes' BY DEF Abort, Blame
<1>7. causes' = {} => /\ sidecar' = [kek |-> NoKek, root |-> FALSE] /\ ~InUse(sidecar.kek)
                      /\ proc[p].holds \/ ~Active
  BY DEF Abort, Blame
<1>8. ASSUME causes' = {}, Calm PROVE AgreeGoal(p)
  <2>1. sidecar'.root = FALSE BY <1>7, <1>8
  <2>2. ~NeverAttached(row) => ~Whole BY <1>7, <1>8 DEF InUse, Whole
  <2>3. \A q \in Proc : q # p => proc[q].pc \notin StagePC
    <3> SUFFICES ASSUME NEW q \in Proc, q # p, proc[q].pc \in StagePC PROVE FALSE OBVIOUS
    <3>1. proc[q].holds /\ Active BY StageHolder DEF Active
    <3>2. ~proc[p].holds BY <3>1, Alone
    <3> QED BY <1>7, <1>8, <3>1, <3>2
  <2> QED BY <1>1, <1>3, <1>5, <2>1, <2>2, <2>3 DEF AgreeGoal
<1> QED BY <1>1, <1>2, <1>3, <1>4, <1>6, <1>8, MoveAgrees

-----------------------------------------------------------------------------
\* A step of the worker that holds the job: nobody else is at a label of it.
LEMMA WorkerAgrees ==
  ASSUME TypeOK, HoldInv, LossInv, AgreeInv, NEW w \in Proc, proc[w].holds,
         Others(w), Same(w), job' = job, row' = row,
         causes \subseteq causes', CarryFits(proc'[w], job.previous),
         causes' = {} /\ Calm =>
           /\ StageFits(proc'[w], row', sidecar', wrap')
           /\ ~NeverAttached(row) =>
                /\ Whole => Whole' \/ (MidDetach(w)' /\ w \in Worker /\ job.kind # "dek_rewrap")
                /\ MidDetach(w) => MidDetach(w)'
                /\ sidecar'.root => Unsettled' \/ (sidecar.root /\ (Unsettled => Unsettled'))
                /\ job.kind = "dek_rewrap" => proc'[w].pc \notin {"abort", "succeed", "fail"}
  PROVE  AgreeInv'
<1>1. \A q \in Proc : q # w => proc[q].pc \notin StagePC
  BY Alone DEF JobPC, StagePC
<1>2. ~Undoing(w) /\ ~Returning(w)' BY DEF Undoing, Returning, Same
<1>3. ASSUME causes' = {}, Calm PROVE AgreeGoal(w)
  BY <1>1, <1>3 DEF AgreeGoal, Detaching
<1> QED BY <1>2, <1>3, MoveAgrees DEF Same

\* What a worker at a label of the job finds.
LEMMA WorkerFinds ==
  ASSUME TypeOK, HoldInv, LossInv, AgreeInv, NEW w \in Worker, proc[w].pc \in JobPC
  PROVE  /\ w \in Proc /\ proc[w].holds /\ ~MidReclaim(w)
         /\ LoadFits(w, proc[w], job.kind) /\ CarryFits(proc[w], job.previous) /\ row \in Row
         /\ Calm => /\ StageFits(proc[w], row, sidecar, wrap)
                    /\ proc[w].pc \in AttachPC /\ job.kind = "dek_rewrap" =>
                         ~NeverAttached(row) /\ row.wrapped # NoKek
BY WorkerIs DEF AgreeInv, Calm, AllStagesFit, RowAgrees, WorkFits

\* An attach that goes on is unsettled.
LEMMA AttachGoesOn ==
  ASSUME HoldInv, NEW w \in Proc, proc[w].holds, Others(w), job' = job, job.kind = "dek_rewrap",
         proc'[w].pc \notin {"succeed", "fail"}
  PROVE  Unsettled'
<1>1. job.status = "running" /\ Holding = {w} BY Alone
<1>2. Holding' \subseteq {w} BY <1>1 DEF Holding, Others
<1> QED BY <1>1, <1>2 DEF Unsettled, AttachRuns

LEMMA LoadJobRowAgree ==
  ASSUME TypeOK, HoldInv, LossInv, AgreeInv, NEW w \in Worker, LoadJobRow(w)
  PROVE  AgreeInv'
<1>1. /\ proc[w].pc = "row" /\ UNCHANGED <<row, job, sidecar, wrap, causes>>
      /\ job.kind \in {"dek_rewrap", "detach_managed"}
  BY DEF LoadJobRow, At, TypeOK, Job
<1>2. /\ w \in Proc /\ proc[w].holds /\ ~MidReclaim(w) /\ CarryFits(proc[w], job.previous)
      /\ Calm => (job.kind = "dek_rewrap" => ~NeverAttached(row))
      /\ proc[w] \in Frame /\ proc \in [Proc -> Frame]
  BY <1>1, WorkerFinds DEF JobPC, AttachPC, TypeOK
<1> DEFINE l == IF row.source = "managed" THEN "succeed"
                ELSE IF job.kind = "dek_rewrap" THEN "kek"
                ELSE IF NeverAttached(row) THEN "reset"
                ELSE IF job.warmup /\ row.status # "unavailable" /\ cache[HostOf[w]] # "only"
                THEN "warm" ELSE "toRoot"
<1>3. /\ l \in {"succeed", "kek", "reset", "warm", "toRoot"}
      /\ l = "succeed" => NeverAttached(row)
      /\ l = "toRoot" => ~NeverAttached(row)
  BY <1>1 DEF NeverAttached
<1>4. proc' = [proc EXCEPT ![w] = [@ EXCEPT !.pc = l, !.at = row]] BY DEF LoadJobRow
<1> HIDE DEF l
<1>5. Others(w) /\ proc'[w] = [proc[w] EXCEPT !.pc = l, !.at = row] BY <1>2, <1>4 DEF Others
<1>6. Same(w) /\ proc'[w].pc = l /\ proc'[w].at = row BY <1>2, <1>5 DEF Frame, Same
<1>7. CarryFits(proc'[w], job.previous) BY <1>2, <1>3, <1>6 DEF CarryFits, Same
<1>8. \A r, s, u : StageFits(proc'[w], r, s, u) BY <1>2, <1>3, <1>6 DEF StageFits, StagePC, Same
<1>9. ~MidDetach(w) /\ ~Undoing(w) /\ ~Returning(w)' BY <1>1, <1>2, <1>6 DEF MidDetach, Undoing, Returning, At, Same
<1>10. Calm /\ job.kind = "dek_rewrap" => proc'[w].pc \notin {"abort", "succeed", "fail"}
  BY <1>2, <1>3, <1>6
<1> QED BY <1>1, <1>2, <1>5, <1>6, <1>7, <1>8, <1>9, <1>10, StillAgrees DEF Same

\* The sidecar receives the key of the row.
LEMMA SetForAttachAgree ==
  ASSUME TypeOK, HoldInv, LossInv, AgreeInv, NEW w \in Worker, SetForAttach(w)
  PROVE  AgreeInv'
<1>1. proc[w].pc \in {"dual", "only"} /\ UNCHANGED <<row, job, wrap>> BY DEF SetForAttach, At
<1>2. /\ w \in Proc /\ proc[w].holds
      /\ LoadFits(w, proc[w], job.kind) /\ CarryFits(proc[w], job.previous)
      /\ Calm => StageFits(proc[w], row, sidecar, wrap)
  BY <1>1, WorkerFinds DEF JobPC
<1>3. job.kind = "dek_rewrap" BY <1>1, <1>2 DEF LoadFits
<1>4. \/ Goto(w, "revert") /\ UNCHANGED <<sidecar, causes>>
      \/ /\ sidecar' = [kek |-> proc[w].kek, root |-> proc[w].pc = "dual"]
         /\ Blame("stale_write", row.wrapped # proc[w].kek)
         /\ Goto(w, "revert") \/ Goto(w, IF proc[w].pc = "dual" THEN "rewrap" ELSE "mark")
  <2>1. PICK outcome \in {"ok", "error", "lost"} :
          /\ IF outcome = "error" THEN UNCHANGED <<sidecar, causes>>
             ELSE Send(w, proc[w].kek, At(w, "dual")) /\ Blame("stale_write", row.wrapped # proc[w].kek)
          /\ Goto(w, IF outcome # "ok" THEN "revert" ELSE IF At(w, "dual") THEN "rewrap" ELSE "mark")
    BY DEF SetForAttach
  <2>2. CASE outcome = "ok" BY <2>1, <2>2 DEF Send, At
  <2>3. CASE outcome = "lost" BY <2>1, <2>3 DEF Send, At
  <2>4. CASE outcome = "error" BY <2>1, <2>4
  <2> QED BY <2>2, <2>3, <2>4
<1>5. /\ Others(w) /\ Same(w) /\ proc'[w].kek = proc[w].kek
      /\ proc'[w].pc \in {"revert", "rewrap", "mark"}
  BY <1>2, <1>4, GotoFacts
<1>6. /\ proc'[w].pc = "rewrap" => sidecar'.kek = proc[w].kek
      /\ proc'[w].pc = "mark" => proc[w].pc = "only" /\ sidecar'.kek = proc[w].kek /\ ~sidecar'.root
  <2>1. CASE Goto(w, "revert") BY <1>2, <2>1, GotoFacts
  <2>2. CASE /\ sidecar' = [kek |-> proc[w].kek, root |-> proc[w].pc = "dual"]
             /\ Goto(w, IF proc[w].pc = "dual" THEN "rewrap" ELSE "mark")
    <3>1. proc'[w].pc = IF proc[w].pc = "dual" THEN "rewrap" ELSE "mark" BY <1>2, <2>2, GotoFacts
    <3>2. sidecar'.kek = proc[w].kek /\ sidecar'.root = (proc[w].pc = "dual") BY <2>2
    <3>3. CASE proc[w].pc = "dual" BY <3>1, <3>2, <3>3
    <3>4. CASE proc[w].pc = "only" BY <3>1, <3>2, <3>4
    <3> QED BY <1>1, <3>3, <3>4
  <2> QED BY <1>4, <2>1, <2>2
<1>7. /\ causes \subseteq causes'
      /\ causes' = {} => sidecar' = sidecar \/ (sidecar'.kek = row.wrapped /\ row.wrapped = proc[w].kek)
  <2>1. CASE UNCHANGED <<sidecar, causes>> BY <2>1
  <2>2. CASE /\ sidecar' = [kek |-> proc[w].kek, root |-> proc[w].pc = "dual"]
             /\ Blame("stale_write", row.wrapped # proc[w].kek)
    <3>1. sidecar'.kek = proc[w].kek BY <2>2
    <3> QED BY <2>2, <3>1, BlameNone
  <2> QED BY <1>4, <2>1, <2>2
<1>8. CarryFits(proc'[w], job.previous) BY <1>1, <1>2, <1>5 DEF CarryFits, Same
<1>9. causes' = {} /\ proc'[w].pc # "revert" => row.wrapped = proc[w].kek
  BY <1>2, <1>4, BlameNone, GotoFacts
<1>10. ASSUME causes' = {}, Calm
       PROVE  StageFits(proc'[w], row', sidecar', wrap') /\ (Whole => Whole')
  <2>1. StageFits(proc'[w], row', sidecar', wrap')
    BY <1>1, <1>2, <1>5, <1>6, <1>9, <1>10 DEF StageFits, StagePC
  <2>2. Whole => Whole' BY <1>1, <1>7, <1>10 DEF Whole
  <2> QED BY <2>1, <2>2
<1>11. Unsettled' BY <1>1, <1>2, <1>3, <1>5, AttachGoesOn
<1>12. ~MidDetach(w) BY <1>1 DEF MidDetach, At
<1> QED BY <1>1, <1>2, <1>5, <1>7, <1>8, <1>10, <1>11, <1>12, WorkerAgrees

\* The DEKs move under the key that the sidecar has, all of them or the
\* attach fails.
LEMMA RewrapToKekAgree ==
  ASSUME TypeOK, HoldInv, LossInv, AgreeInv, NEW w \in Worker, RewrapToKek(w)
  PROVE  AgreeInv'
<1>1. proc[w].pc = "rewrap" /\ UNCHANGED <<row, job, sidecar, causes>> BY DEF RewrapToKek, At
<1>2. /\ w \in Proc /\ proc[w].holds
      /\ LoadFits(w, proc[w], job.kind) /\ CarryFits(proc[w], job.previous)
      /\ Calm => StageFits(proc[w], row, sidecar, wrap)
  BY <1>1, WorkerFinds DEF JobPC
<1>3. job.kind = "dek_rewrap" BY <1>1, <1>2 DEF LoadFits
<1>4. /\ \A d \in Dek : wrap'[d] \in {wrap[d], sidecar.kek}
      /\ Goto(w, "revert") \/ (Goto(w, "only") /\ \A d \in Dek : wrap[d] # Absent => wrap'[d] = sidecar.kek)
      /\ \A d \in Dek : wrap[d] = Absent => wrap'[d] = Absent
  BY DEF RewrapToKek
<1>5. Others(w) /\ Same(w) /\ proc'[w].kek = proc[w].kek /\ proc'[w].pc \in {"revert", "only"}
  BY <1>2, <1>4, GotoFacts
<1>6. proc'[w].pc = "only" => \A d \in Dek : wrap'[d] \in {Absent, sidecar.kek}
  BY <1>2, <1>4, GotoFacts
<1>7. CarryFits(proc'[w], job.previous) BY <1>1, <1>2, <1>5 DEF CarryFits, Same
<1>8. ASSUME Calm PROVE StageFits(proc'[w], row', sidecar', wrap') /\ (Whole => Whole')
  <2>1. sidecar.kek = row.wrapped BY <1>1, <1>2, <1>8 DEF StageFits, StagePC
  <2>2. StageFits(proc'[w], row', sidecar', wrap') BY <1>1, <1>2, <1>5, <1>6, <2>1 DEF StageFits, StagePC
  <2>3. Whole => Whole' BY <1>1, <1>4, <2>1 DEF Whole
  <2> QED BY <2>2, <2>3
<1>9. Unsettled' BY <1>1, <1>2, <1>3, <1>5, AttachGoesOn
<1>10. ~MidDetach(w) BY <1>1 DEF MidDetach, At
<1> QED BY <1>1, <1>2, <1>5, <1>7, <1>8, <1>9, <1>10, WorkerAgrees

\* The attach is entered as the row's state once everything is on its key.
LEMMA MarkAttachAgree ==
  ASSUME TypeOK, HoldInv, LossInv, AgreeInv, NEW w \in Worker, MarkAttachSucceeded(w)
  PROVE  AgreeInv'
<1>1. /\ proc[w].pc = "mark" /\ UNCHANGED <<job, sidecar, wrap>> /\ Goto(w, "succeed")
      /\ row' = [row EXCEPT !.status = "active"]
  BY DEF MarkAttachSucceeded, At
<1>2. /\ w \in Proc /\ proc[w].holds /\ row \in Row
      /\ LoadFits(w, proc[w], job.kind) /\ CarryFits(proc[w], job.previous)
      /\ Calm => /\ StageFits(proc[w], row, sidecar, wrap)
                 /\ job.kind = "dek_rewrap" => row.wrapped # NoKek
  BY <1>1, WorkerFinds DEF JobPC, AttachPC
<1>3. job.kind = "dek_rewrap" BY <1>1, <1>2 DEF LoadFits
<1>4. Others(w) /\ Same(w) /\ proc'[w].pc = "succeed" BY <1>1, <1>2, GotoFacts
<1>5. row'.status = "active" /\ row'.wrapped = row.wrapped BY <1>1, <1>2 DEF Row
<1>6. CarryFits(proc'[w], job.previous) BY <1>2, <1>4 DEF CarryFits, Same
<1>7. \A r, s, u : StageFits(proc'[w], r, s, u) BY <1>4 DEF StageFits, StagePC
<1>8. causes \subseteq causes' BY DEF MarkAttachSucceeded, Blame
<1>9. ASSUME Calm PROVE RowAgrees'
  <2>1. sidecar.kek = row.wrapped /\ ~sidecar.root /\ \A d \in Dek : wrap[d] \in {Absent, row.wrapped}
    BY <1>1, <1>2, <1>9 DEF StageFits, StagePC
  <2>2. Whole' BY <1>1, <1>2, <1>3, <1>5, <1>9, <2>1 DEF Whole
  <2> QED BY <1>1, <1>5, <2>1, <2>2 DEF RowAgrees, Whole
<1> QED BY <1>1, <1>2, <1>4, <1>5, <1>6, <1>7, <1>8, <1>9, StatusAgrees

\* A detach warms the sidecar up with the key of the row.
LEMMA WarmupAgree ==
  ASSUME TypeOK, HoldInv, LossInv, AgreeInv, NEW w \in Worker, Warmup(w)
  PROVE  AgreeInv'
<1>1. proc[w].pc = "warm" /\ UNCHANGED <<row, job, wrap>> /\ Goto(w, "toRoot") BY DEF Warmup, At
<1>2. /\ w \in Proc /\ proc[w].holds /\ ~MidReclaim(w)
      /\ LoadFits(w, proc[w], job.kind) /\ CarryFits(proc[w], job.previous)
  BY <1>1, WorkerFinds DEF JobPC
<1>3. job.kind = "detach_managed" /\ ~NeverAttached(proc[w].at) BY <1>1, <1>2 DEF LoadFits
<1>4. Others(w) /\ Same(w) /\ proc'[w].pc = "toRoot" /\ proc'[w].at = proc[w].at
  BY <1>1, <1>2, GotoFacts
<1>5. CarryFits(proc'[w], job.previous) BY <1>2, <1>3, <1>4 DEF CarryFits, Same
<1>6. \A r, s, u : StageFits(proc'[w], r, s, u) BY <1>4 DEF StageFits, StagePC
<1>7. \/ UNCHANGED <<sidecar, causes>>
      \/ /\ sidecar' = [kek |-> proc[w].at.wrapped, root |-> FALSE]
         /\ Blame("stale_write", row # proc[w].at)
  BY DEF Warmup, Send
<1>8. /\ causes \subseteq causes'
      /\ causes' = {} => sidecar' = sidecar \/ (~sidecar'.root /\ sidecar'.kek = row.wrapped)
  <2>1. CASE UNCHANGED <<sidecar, causes>> BY <2>1
  <2>2. CASE /\ sidecar' = [kek |-> proc[w].at.wrapped, root |-> FALSE]
             /\ Blame("stale_write", row # proc[w].at)
    <3>1. sidecar'.kek = proc[w].at.wrapped /\ ~sidecar'.root BY <2>2
    <3> QED BY <2>2, <3>1, BlameNone
  <2> QED BY <1>7, <2>1, <2>2
<1>9. Unsettled => Unsettled' BY <1>1, <1>2, <1>3, <1>4, UnsettledGoes
<1>10. causes' = {} => (Whole => Whole') BY <1>1, <1>8 DEF Whole
<1>11. ~MidDetach(w) BY <1>1 DEF MidDetach, At
<1> QED BY <1>1, <1>2, <1>3, <1>4, <1>5, <1>6, <1>8, <1>9, <1>10, <1>11, WorkerAgrees

\* The DEKs move back under the root key: the detach is under way.
LEMMA RewrapToRootAgree ==
  ASSUME TypeOK, HoldInv, LossInv, AgreeInv, NEW w \in Worker, RewrapToRoot(w)
  PROVE  AgreeInv'
<1>1. proc[w].pc = "toRoot" /\ UNCHANGED <<row, job, sidecar>> BY DEF RewrapToRoot, At
<1>2. /\ w \in Proc /\ proc[w].holds /\ ~MidReclaim(w)
      /\ LoadFits(w, proc[w], job.kind) /\ CarryFits(proc[w], job.previous)
  BY <1>1, WorkerFinds DEF JobPC
<1>3. job.kind = "detach_managed" BY <1>1, <1>2 DEF LoadFits
<1>4. PICK moved \in SUBSET Dek :
        /\ wrap' = [d \in Dek |-> IF d \in moved THEN Root ELSE wrap[d]]
        /\ \/ Goto(w, "clear") /\ UNCHANGED causes
           \/ Goto(w, "fail") /\ Blame("detach_stopped", moved # {})
  BY DEF RewrapToRoot
<1>5. Others(w) /\ Same(w) /\ proc'[w].pc \in {"clear", "fail"} /\ proc'[w].at = proc[w].at
  BY <1>2, <1>4, GotoFacts
<1>6. CarryFits(proc'[w], job.previous) BY <1>1, <1>2, <1>5 DEF CarryFits, Same
<1>7. \A r, s, u : StageFits(proc'[w], r, s, u) BY <1>5 DEF StageFits, StagePC
<1>8. /\ causes \subseteq causes'
      /\ causes' = {} => proc'[w].pc = "clear" \/ moved = {}
  BY <1>2, <1>4, BlameNone, GotoFacts
<1>9. causes' = {} => (Whole => Whole') \/ MidDetach(w)'
  <2>1. moved = {} => (Whole => Whole') BY <1>1, <1>4 DEF Whole
  <2>2. proc'[w].pc = "clear" => MidDetach(w)' BY DEF MidDetach, At
  <2> QED BY <1>8, <2>1, <2>2
<1>10. Unsettled => Unsettled' BY <1>1, <1>2, <1>3, <1>5, UnsettledGoes DEF Same
<1>11. ~MidDetach(w) BY <1>1 DEF MidDetach, At
<1> QED BY <1>1, <1>2, <1>3, <1>5, <1>6, <1>7, <1>8, <1>9, <1>10, <1>11, WorkerAgrees

\* The sidecar forgets the key, and the row is next.
LEMMA ClearAfterDetachAgree ==
  ASSUME TypeOK, HoldInv, LossInv, AgreeInv, NEW w \in Worker, ClearAfterDetach(w)
  PROVE  AgreeInv'
<1>1. proc[w].pc = "clear" /\ UNCHANGED <<row, job, wrap>> BY DEF ClearAfterDetach, At
<1>2. /\ w \in Proc /\ proc[w].holds /\ ~MidReclaim(w)
      /\ LoadFits(w, proc[w], job.kind) /\ CarryFits(proc[w], job.previous)
  BY <1>1, WorkerFinds DEF JobPC
<1>3. job.kind = "detach_managed" /\ ~NeverAttached(proc[w].at) BY <1>1, <1>2 DEF LoadFits, CarryFits
<1>4. \/ sidecar' = [kek |-> NoKek, root |-> FALSE] /\ Goto(w, "reset") /\ UNCHANGED causes
      \/ Goto(w, "fail") /\ Blame("detach_stopped", TRUE)
  BY DEF ClearAfterDetach
<1>5. Others(w) /\ Same(w) /\ proc'[w].pc \in {"reset", "fail"} /\ proc'[w].at = proc[w].at
  BY <1>2, <1>4, GotoFacts
<1>6. CarryFits(proc'[w], job.previous) BY <1>2, <1>5 DEF CarryFits, Same
<1>7. \A r, s, u : StageFits(proc'[w], r, s, u) BY <1>5 DEF StageFits, StagePC
<1>8. /\ causes \subseteq causes'
      /\ causes' = {} => proc'[w].pc = "reset" /\ sidecar' = [kek |-> NoKek, root |-> FALSE]
  BY <1>2, <1>4, BlameNone, GotoFacts
<1>9. causes' = {} => MidDetach(w)' /\ ~sidecar'.root BY <1>3, <1>5, <1>8 DEF MidDetach, At
<1> QED BY <1>1, <1>2, <1>3, <1>5, <1>6, <1>7, <1>8, <1>9, WorkerAgrees

\* The row is forgotten.
LEMMA ResetAgree ==
  ASSUME TypeOK, HoldInv, LossInv, AgreeInv, NEW w \in Worker, ResetToManaged(w)
  PROVE  AgreeInv'
<1>1. /\ proc[w].pc = "reset" /\ UNCHANGED <<job, sidecar, wrap>> /\ Goto(w, "succeed")
      /\ NeverAttached(row')
  BY DEF ResetToManaged, At, NeverAttached, ManagedRow
<1>2. w \in Proc /\ proc[w].holds /\ CarryFits(proc[w], job.previous) BY <1>1, WorkerFinds DEF JobPC
<1>3. Others(w) /\ Same(w) /\ proc'[w].pc = "succeed" BY <1>1, <1>2, GotoFacts
<1>4. CarryFits(proc'[w], job.previous) BY <1>2, <1>3 DEF CarryFits, Same
<1>5. \A r, s, u : StageFits(proc'[w], r, s, u) BY <1>3 DEF StageFits, StagePC
<1>6. causes \subseteq causes' BY DEF ResetToManaged, Blame
<1>7. \A q \in Proc : q # w => proc[q].pc \notin StagePC BY <1>2, Alone DEF JobPC, StagePC
<1>8. RowAgrees' BY <1>1 DEF RowAgrees
<1> QED BY <1>1, <1>2, <1>3, <1>4, <1>5, <1>6, <1>7, <1>8, StatusAgrees

-----------------------------------------------------------------------------
\* A process dies: an attach it ran stays in hand until it is reclaimed.
LEMMA CrashAgree ==
  ASSUME TypeOK, HoldInv, LossInv, AgreeInv, NEW h \in Host, Crash(h)
  PROVE  AgreeInv'
<1> DEFINE dead == {p \in Proc : HostOf[p] = h /\ ~At(p, "idle")}
<1>1. /\ proc' = [p \in Proc |-> IF p \in dead THEN IdleFrame ELSE proc[p]]
      /\ causes' = causes \cup (IF \E p \in dead : MidDetach(p) THEN {"detach_stopped"} ELSE {})
                          \cup (IF \E p \in dead : MidReclaim(p) THEN {"reclaim_stopped"} ELSE {})
      /\ UNCHANGED <<row, job, sidecar, wrap>> /\ dead \subseteq Proc
  BY DEF Crash
<1> HIDE DEF dead
<1>2. \A q \in Proc : proc'[q] = IF q \in dead THEN IdleFrame ELSE proc[q] BY <1>1
<1>3. IdleFrame.pc = "idle" /\ ~IdleFrame.holds BY DEF IdleFrame
<1>4. causes' = {} => causes = {} /\ \A p \in dead : ~MidDetach(p) /\ ~MidReclaim(p) BY <1>1
<1>5. ASSUME NEW q \in Proc PROVE CarryFits(proc'[q], job'.previous)
  BY <1>1, <1>2, <1>3, IdleAgrees DEF AgreeInv
<1>6. ASSUME causes' = {} PROVE RowAgrees' /\ AllStagesFit'
  <2>1. Calm /\ \A p \in dead : ~MidDetach(p) /\ ~MidReclaim(p) BY <1>4, <1>6, CalmHolds
  <2>2. \A q \in Holding' : q \in Holding /\ proc'[q] = proc[q] BY <1>2, <1>3 DEF Holding
  <2>3. Unsettled => Unsettled'
    <3>1. \A q \in Proc : MidReclaim(q) => MidReclaim(q)' BY <1>2, <2>1 DEF MidReclaim, At
    <3>2. AttachRuns => AttachRuns' BY <1>1, <2>2 DEF AttachRuns
    <3> QED BY <3>1, <3>2 DEF Unsettled
  <2>4. AttachInHand => AttachInHand' BY <1>1, <2>2 DEF AttachInHand, Active
  <2>5. Detaching => Detaching' BY <1>2, <2>1 DEF Detaching, MidDetach, At, Proc
  <2>6. \A q \in Proc : Undoing(q) => Undoing(q)' BY <1>2, <2>1 DEF Undoing, MidReclaim, At
  <2>7. \A q \in Proc : Returning(q)' => Returning(q) /\ proc'[q].previous = proc[q].previous
    BY <1>2, <1>3 DEF Returning, At
  <2>8. (Whole => Whole') /\ (Reattach' => Reattach) BY <1>1 DEF Whole, Reattach, Active
  <2>9. RowAgrees' BY <1>1, <2>1, <2>3, <2>4, <2>5, <2>6, <2>7, <2>8, RowKeeps DEF Calm
  <2>10. ASSUME NEW q \in Proc PROVE StageFits(proc'[q], row', sidecar', wrap')
    BY <1>1, <1>2, <1>3, <2>1, IdleAgrees DEF Calm, AllStagesFit
  <2> QED BY <2>9, <2>10 DEF AllStagesFit
<1> QED BY <1>5, <1>6 DEF AgreeInv

\* What does not touch the keys, the row, the job and the processes.
LEMMA NothingAgrees ==
  ASSUME AgreeInv, UNCHANGED <<row, job, sidecar, wrap, proc, causes>>
  PROVE  AgreeInv'
BY DEF AgreeInv, RowAgrees, AllStagesFit, Reattach, AttachInHand, Active, Detaching, Undoing, Returning, Whole,
       Unsettled, AttachRuns, Holding, MidReclaim, MidDetach, At

LEMMA AgreeStep ==
  ASSUME TypeOK, HoldInv, StaleInv, LossInv, AgreeInv, [Next]_vars
  PROVE  AgreeInv'
<1>1. ASSUME NEW p \in Proc, Step(p) PROVE AgreeInv'
  BY <1>1, SelectAgree, ReclaimAgree, RevertAgree, AbortAgree, LoadKekAgree, StoreKekAgree DEF Step
<1>2. ASSUME NEW c \in Call, Serve(c) PROVE AgreeInv'
  BY <1>2, CheckAgree, LoadAgree, WriteAgree, EnqueueAgree, SetForTenantAgree, UseDekAgree DEF Serve
<1>3. ASSUME NEW w \in Worker, Work(w) PROVE AgreeInv'
  BY <1>3, ClaimAgree, LoadJobRowAgree, EndJobAgree, SetForAttachAgree, RewrapToKekAgree, MarkAttachAgree,
     WarmupAgree, RewrapToRootAgree, ClearAfterDetachAgree, ResetAgree DEF Work
<1>4. ASSUME NEW h \in Host, Expire(h) PROVE AgreeInv'
  BY <1>4, NothingAgrees DEF Expire
<1>5. CASE UNCHANGED vars BY <1>5, NothingAgrees DEF vars
<1> QED BY <1>1, <1>2, <1>3, <1>4, <1>5, BeginAgree, CrashAgree DEF Next

\* At rest nothing is under way that the invariants make room for.
LEMMA AgreeInvMeans ==
  ASSUME TypeOK, HoldInv, LossInv, AgreeInv
  PROVE  SettledAgrees
<1> SUFFICES ASSUME causes = {}, Settled PROVE Agreement BY DEF SettledAgrees
<1>1. Calm BY CalmHolds
<1>2. ~Active /\ \A p \in Proc : proc[p].pc = "idle" BY DEF Settled, At
<1>3. ~Unsettled BY <1>2 DEF Unsettled, AttachRuns, Active, MidReclaim, At
<1>4. ~Detaching /\ ~AttachInHand /\ \A p \in Proc : ~Undoing(p)
  BY <1>2 DEF Detaching, MidDetach, AttachInHand, Undoing, At, Proc
<1>5. CASE NeverAttached(row)
  <2>1. KeysFit /\ sidecar.kek = NoKek BY <1>1, <1>3, <1>5 DEF Calm, Quiet, KeysFit
  <2>2. Rooted(wrap) BY <2>1, NoKeyRooted
  <2> QED BY <1>5, <2>1, <2>2 DEF Agreement, Rooted
<1>6. CASE ~NeverAttached(row)
  <2>1. row.status # "rotating" BY <1>1, <1>4, <1>6 DEF Calm, RowAgrees
  <2>2. Whole /\ ~sidecar.root BY <1>1, <1>3, <1>4, <1>6, <2>1 DEF Calm, RowAgrees
  <2>3. sidecar = [kek |-> row.wrapped, root |-> FALSE] BY <2>2 DEF TypeOK, Whole
  <2> QED BY <1>6, <2>1, <2>2, <2>3 DEF Agreement, Whole
<1> QED BY <1>5, <1>6

\* Whenever no call and no job is under way, and none of the named hazards
\* has struck, the row, the sidecar and every DEK agree, for any number of
\* processes, calls, jobs, failures and crashes.
THEOREM SettledAlwaysAgrees == Spec => []SettledAgrees
<1>1. Init => AgreeInv
  <2> SUFFICES ASSUME Init PROVE AgreeInv OBVIOUS
  <2>1. \A q \in Proc : proc[q] = IdleFrame BY DEF Init
  <2>2. IdleFrame.pc = "idle" /\ ~IdleFrame.holds BY DEF IdleFrame
  <2>3. RowAgrees BY DEF Init, RowAgrees, NeverAttached, ManagedRow
  <2> QED BY <2>1, <2>2, <2>3, IdleAgrees DEF AgreeInv, AllStagesFit
<1>2. TypeOK /\ HoldInv /\ StaleInv /\ LossInv /\ AgreeInv /\ [Next]_vars => AgreeInv'
  BY AgreeStep
<1>3. TypeOK /\ HoldInv /\ LossInv /\ AgreeInv => SettledAgrees
  BY AgreeInvMeans
<1> QED
  BY <1>1, <1>2, <1>3, LossInvAlways, PTL DEF Spec

=============================================================================
