--------------------------- MODULE JobLeaseProofs ---------------------------
(***************************************************************************)
(* Theorems about JobLease, for any number of replicas and jobs.           *)
(***************************************************************************)
EXTENDS JobLease, TLAPS

\* Every variable keeps its type, whatever fails.
THEOREM TypeCorrect == Spec => []TypeOK
<1>1. Init => TypeOK
  BY JobLeaseAssumption DEF Init, TypeOK, Statuses, PCs
<1>2. TypeOK /\ [Next]_vars => TypeOK'
  <2> SUFFICES ASSUME TypeOK, [Next]_vars PROVE TypeOK'
    OBVIOUS
  <2> USE JobLeaseAssumption DEF TypeOK, Statuses, Active, PCs, Stages, Leased, Kinds,
          rowVars, runVars, admVars, sweepVars, dataVars
  <2>1. CASE UNCHANGED vars
    BY <2>1 DEF vars
  <2>2. ASSUME NEW j \in Jobs, Work(j) PROVE TypeOK'
    <3>1. CASE Claim(j)
      <4>1. CASE Connected(j) /\ live[j] /\ status[j] = "pending"
        BY <3>1, <4>1, ZenonT(40) DEF Claim, Goto
      <4>2. CASE ~(Connected(j) /\ live[j] /\ status[j] = "pending")
        BY <3>1, <4>2 DEF Claim, Goto
      <4> QED BY <4>1, <4>2
    <3>2. CASE Fetch(j) \/ WipeScratch(j) \/ BumpLease(j) \/ LoadScratch(j)
      BY <3>2 DEF Fetch, WipeScratch, BumpLease, LoadScratch, Does, Goto
    <3>3. CASE Dump(j)
      BY <3>3 DEF Dump, Does, Goto
    <3>4. CASE Upload(j) \/ DropBlue(j) \/ RunLive(j) \/ ApplySchema(j)
      BY <3>4 DEF Upload, DropBlue, RunLive, ApplySchema, Does, Goto
    <3>5. CASE Commit(j) \/ Publish(j)
      BY <3>5 DEF Commit, Publish, Goto
    <3>6. CASE MarkFailed(j)
      BY <3>6 DEF MarkFailed, Goto
    <3> QED BY <2>2, <3>1, <3>2, <3>3, <3>4, <3>5, <3>6 DEF Work
  <2>3. ASSUME NEW j \in Jobs,
               StageFails(j) \/ Timeout(j) \/ Beat(j) \/ Expire(j) \/ DeleteBackup(j)
        PROVE TypeOK'
    <3>1. CASE StageFails(j)
      BY <3>1, SMTT(20) DEF StageFails, Goto
    <3>2. CASE Timeout(j) \/ Beat(j) \/ Expire(j) \/ DeleteBackup(j)
      BY <3>2, ZenonT(40) DEF Timeout, Beat, Expire, DeleteBackup
    <3> QED BY <2>3, <3>1, <3>2
  <2>4. ASSUME NEW p \in Procs, NEW k \in Kinds, Admit(p, k) PROVE TypeOK'
    BY <2>4 DEF Admit
  <2>5. ASSUME NEW p \in Procs, NEW j \in Jobs,
               Create(p, j) \/ FireCreate(p, j) \/ ReapMark(p, j)
        PROVE TypeOK'
    <3>1. CASE Create(p, j)
      BY <3>1 DEF Create, Spawn, Release
    <3>2. CASE FireCreate(p, j)
      BY <3>2 DEF FireCreate, Spawn
    <3>3. CASE ReapMark(p, j)
      BY <3>3 DEF ReapMark
    <3> QED BY <2>5, <3>1, <3>2, <3>3
  <2>6. ASSUME NEW p \in Procs,
               AdmitAbort(p) \/ AdmitLockExpires(p) \/ FireCheck(p) \/ FireAbort(p)
        PROVE TypeOK'
    BY <2>6 DEF AdmitAbort, AdmitLockExpires, FireCheck, FireAbort, Release
  <2>7. ASSUME NEW p \in Procs, ReapScan(p) \/ ReapAbort(p) PROVE TypeOK'
    BY <2>7 DEF ReapScan, ReapAbort, Stale
  <2>8. ASSUME NEW p \in Procs, Crash(p) \/ Cut(p) \/ Reconnect(p) PROVE TypeOK'
    BY <2>8 DEF Crash, Cut, Reconnect, Release
  <2> QED BY <2>1, <2>2, <2>3, <2>4, <2>5, <2>6, <2>7, <2>8 DEF Next
<1> QED BY <1>1, <1>2, PTL DEF Spec

-----------------------------------------------------------------------------
(* Admission.                                                              *)

\* The blocked pairs the admission lock keeps apart.
Apart(a, b) == a \in Blockers(b) /\ ~(Scheduler /\ "backup" \in {a, b})

\* What makes check-then-create atomic: a handler between the two holds the
\* lock, and nothing that blocks it has become active since its check.
AdmissionInv ==
    /\ \A p \in Procs : req[p] # "idle" => admLock = p
    /\ \A p \in Procs, j \in Jobs :
          req[p] # "idle" /\ Apart(Kind[j], req[p]) => status[j] \notin Active
    /\ sched # None => Scheduler
    /\ AdmissionExclusive

LEMMA BlockersSymmetric ==
    \A a, b \in Kinds : a \in Blockers(b) <=> b \in Blockers(a)
  BY DEF Kinds, Blockers

LEMMA ApartSymmetric == \A a, b \in Kinds : Apart(a, b) <=> Apart(b, a)
  BY BlockersSymmetric DEF Apart

\* A step that makes no row active and leaves the handlers alone.
Quiet == /\ \A j \in Jobs : status'[j] \in Active => status[j] \in Active
         /\ req' = req /\ admLock' = admLock /\ sched' = sched

LEMMA QuietKeepsAdmission ==
    ASSUME AdmissionInv, Quiet
    PROVE  AdmissionInv'
  BY DEF AdmissionInv, AdmissionExclusive, Quiet

LEMMA AdmissionStep ==
    ASSUME "slow" \notin Faults, TypeOK, AdmissionInv, [Next]_vars
    PROVE  AdmissionInv'
<1> USE JobLeaseAssumption
<1>1. CASE UNCHANGED vars
  <2> Quiet
    BY <1>1 DEF Quiet, vars, rowVars, admVars
  <2> QED BY QuietKeepsAdmission
<1>2. ASSUME NEW j \in Jobs, Work(j) PROVE AdmissionInv'
  <2>1. Quiet
    <3>1. CASE Claim(j)
      BY <3>1 DEF Claim, Quiet, TypeOK, Active, rowVars, admVars
    <3>2. CASE Commit(j) \/ MarkFailed(j)
      BY <3>2 DEF Commit, MarkFailed, Quiet, TypeOK, Active, admVars
    <3>3. CASE Publish(j)
      BY <3>3 DEF Publish, Quiet, rowVars, admVars
    <3>4. ASSUME NEW s, NEW t, Does(j, s, t) PROVE Quiet
      BY <3>4 DEF Does, Quiet, rowVars, admVars
    <3> QED BY <1>2, <3>1, <3>2, <3>3, <3>4
            DEF Work, Fetch, WipeScratch, BumpLease, LoadScratch, Dump, Upload,
                DropBlue, RunLive, ApplySchema
  <2> QED BY <2>1, QuietKeepsAdmission
<1>3. ASSUME NEW j \in Jobs,
             StageFails(j) \/ Timeout(j) \/ Beat(j) \/ Expire(j) \/ DeleteBackup(j)
      PROVE AdmissionInv'
  <2>1. Quiet
    BY <1>3 DEF StageFails, Timeout, Beat, Expire, DeleteBackup, Quiet, TypeOK,
                Active, rowVars, admVars
  <2> QED BY <2>1, QuietKeepsAdmission
<1>4. ASSUME NEW p \in Procs, NEW k \in Kinds, Admit(p, k) PROVE AdmissionInv'
  BY <1>4 DEF Admit, Clear, AdmissionInv, AdmissionExclusive, Apart, TypeOK,
              rowVars
<1>5. ASSUME NEW p \in Procs, NEW j \in Jobs, Create(p, j) PROVE AdmissionInv'
  <2>1. /\ req[p] = Kind[j] /\ Kind[j] \in Kinds /\ req[p] # "idle"
        /\ admLock = p
    BY <1>5 DEF Create, AdmissionInv, Kinds
  <2>2. \A q \in Procs : req'[q] = "idle"
    BY <1>5, <2>1 DEF Create, Release, AdmissionInv, TypeOK
  <2>3. \A i \in Jobs : Apart(Kind[i], Kind[j]) => status[i] \notin Active
    BY <2>1 DEF AdmissionInv
  <2>4. \A i \in Jobs : i # j => status'[i] = status[i]
    BY <1>5 DEF Create, Spawn, TypeOK
  <2>5. AdmissionExclusive'
    BY <2>1, <2>3, <2>4, BlockersSymmetric
       DEF AdmissionInv, AdmissionExclusive, Apart
  <2> QED BY <1>5, <2>2, <2>5 DEF AdmissionInv, Create
<1>6. ASSUME NEW p \in Procs, NEW j \in Jobs, FireCreate(p, j) PROVE AdmissionInv'
  <2>1. Scheduler /\ Kind[j] = "backup"
    BY <1>6 DEF FireCreate, AdmissionInv
  <2>2. \A i \in Jobs : i # j => status'[i] = status[i]
    BY <1>6 DEF FireCreate, Spawn, TypeOK
  <2> QED BY <1>6, <2>1, <2>2 DEF FireCreate, AdmissionInv, AdmissionExclusive, Apart
<1>7. ASSUME NEW p \in Procs, NEW j \in Jobs, ReapMark(p, j) PROVE AdmissionInv'
  <2>1. Quiet
    BY <1>7 DEF ReapMark, Quiet, TypeOK, Active, admVars
  <2> QED BY <2>1, QuietKeepsAdmission
<1>8. ASSUME NEW p \in Procs, AdmitAbort(p) \/ Crash(p) PROVE AdmissionInv'
  BY <1>8 DEF AdmitAbort, Crash, Release, AdmissionInv, AdmissionExclusive,
              TypeOK, rowVars
<1>9. ASSUME NEW p \in Procs, AdmitLockExpires(p) PROVE AdmissionInv'
  BY <1>9 DEF AdmitLockExpires
<1>10. ASSUME NEW p \in Procs, FireCheck(p) \/ FireAbort(p) PROVE AdmissionInv'
  BY <1>10 DEF FireCheck, FireAbort, AdmissionInv, AdmissionExclusive, rowVars
<1>11. ASSUME NEW p \in Procs, ReapScan(p) \/ ReapAbort(p) \/ Cut(p) \/ Reconnect(p)
       PROVE AdmissionInv'
  <2>1. Quiet
    BY <1>11 DEF ReapScan, ReapAbort, Cut, Reconnect, Quiet, rowVars, admVars
  <2> QED BY <2>1, QuietKeepsAdmission
<1> QED BY <1>1, <1>2, <1>3, <1>4, <1>5, <1>6, <1>7, <1>8, <1>9, <1>10, <1>11 DEF Next

LEMMA AdmissionInvariant ==
    ASSUME "slow" \notin Faults
    PROVE  Spec => []AdmissionInv
<1>1. Init => AdmissionInv
  BY DEF Init, AdmissionInv, AdmissionExclusive, Active
<1>2. TypeOK /\ AdmissionInv /\ [Next]_vars => AdmissionInv'
  BY AdmissionStep
<1> QED BY <1>1, <1>2, TypeCorrect, PTL DEF Spec

\* While the lock outlives every check-then-create, no two jobs that block each
\* other are in progress together, whatever crashes, pauses or is reaped.
THEOREM AdmissionIsExclusive ==
    ASSUME "slow" \notin Faults
    PROVE  Spec => []AdmissionExclusive
<1>1. AdmissionInv => AdmissionExclusive
  BY DEF AdmissionInv
<1> QED BY <1>1, AdmissionInvariant, PTL

-----------------------------------------------------------------------------
(* The lease, when processes may crash but none is cut off and no job       *)
(* outlives its context.                                                    *)

CrashOnly == Faults \cap {"cut", "timeout"} = {}

\* The goroutine of a job works under a row that says so: until its terminal
\* write the row is running, claimed by it and not overdue, so the reaper's
\* batch holds only rows whose runner is gone.
FencedJob(j) ==
    /\ status[j] = "absent" =>
         pc[j] = "idle" /\ lockedBy[j] = None /\ ~overdue[j] /\ live[j]
    /\ pc[j] = "idle" => status[j] = "absent"
    /\ Running(j) /\ pc[j] = "start" =>
         status[j] = "pending" /\ ~overdue[j] /\ live[j]
    /\ Running(j) /\ pc[j] \in Leased =>
         /\ lockedBy[j] = on[j] /\ live[j]
         /\ \/ status[j] = "running" /\ ~overdue[j] /\ pc[j] # "publish"
            \/ /\ status[j] = "completed" /\ Kind[j] = "export"
               /\ pc[j] \in {"publish", "failing"}
    /\ j \in batch => status[j] # "absent" /\ (Running(j) => pc[j] = "end")

Fenced ==
    /\ \A p \in Procs : proc[p] # "cut"
    /\ \A j \in Jobs : FencedJob(j)

\* Who is at which stage, and what scratch holds while an export is on it.
ScratchInv ==
    /\ \A j \in Jobs :
         /\ pc[j] \in {"wipe", "bump", "load", "publish"} => Kind[j] = "export"
         /\ pc[j] \in {"drop", "live", "schema"} => Kind[j] = "restore"
         /\ pc[j] = "upload" => Kind[j] = "backup"
         /\ pc[j] = "dump" => Kind[j] # "restore"
         /\ pc[j] = "fetch" => Kind[j] # "backup"
         /\ Running(j) /\ pc[j] \in {"bump", "load"} => scratch = {}
         /\ Running(j) /\ pc[j] = "dump" /\ Kind[j] = "export" => scratch = {j}
    /\ NoBleed

\* A step that touches the row and the goroutine of j only.
Local(j) ==
    /\ on' = on /\ proc' = proc /\ batch' = batch
    /\ \A i \in Jobs \ {j} : /\ status'[i] = status[i] /\ lockedBy'[i] = lockedBy[i]
                             /\ overdue'[i] = overdue[i] /\ pc'[i] = pc[i]
                             /\ live'[i] = live[i]

LEMMA LocalStep ==
    ASSUME Fenced, NEW j \in Jobs, Local(j), FencedJob(j)'
    PROVE  Fenced'
  BY DEF Fenced, FencedJob, Local, Running

LEMMA FencedWork ==
    ASSUME TypeOK, ScratchInv, Fenced, NEW j \in Jobs, Work(j)
    PROVE  Fenced'
<1> USE JobLeaseAssumption DEF TypeOK
<1>0. FencedJob(j)
  BY DEF Fenced
<1>1. CASE Claim(j)
  <2>1. Connected(j) /\ live[j] /\ status[j] = "pending"
    BY <1>0, <1>1 DEF Claim, Fenced, FencedJob, Running, Connected
  <2>2. Local(j)
    BY <1>1, <2>1 DEF Claim, Goto, Local, rowVars, sweepVars
  <2>3. FencedJob(j)'
    BY <1>0, <1>1, <2>1 DEF Claim, Goto, FencedJob, Running, Connected, Leased,
                            Stages, sweepVars
  <2> QED BY <2>2, <2>3, LocalStep
<1>2. ASSUME NEW s \in Stages \ {"publish"}, NEW t \in Stages \ {"publish"}, Does(j, s, t)
      PROVE Fenced'
  <2>1. Local(j)
    BY <1>2 DEF Does, Goto, Local, rowVars, sweepVars
  <2>2. FencedJob(j)'
    BY <1>0, <1>2 DEF Does, Goto, FencedJob, Running, Leased, Stages, rowVars, sweepVars
  <2> QED BY <2>1, <2>2, LocalStep
<1>3. CASE Fetch(j)
  BY <1>2, <1>3 DEF Fetch, Stages
<1>4. CASE WipeScratch(j) \/ BumpLease(j) \/ LoadScratch(j)
  BY <1>2, <1>4 DEF WipeScratch, BumpLease, LoadScratch, Stages
<1>5. CASE Dump(j)
  BY <1>2, <1>5 DEF Dump, Stages
<1>6. CASE Upload(j) \/ DropBlue(j) \/ RunLive(j) \/ ApplySchema(j)
  BY <1>2, <1>6 DEF Upload, DropBlue, RunLive, ApplySchema, Stages
<1>7. CASE Commit(j)
  <2>1. Local(j)
    BY <1>7 DEF Commit, Goto, Local, sweepVars
  <2>2. FencedJob(j)'
    BY <1>0, <1>7 DEF Commit, Goto, FencedJob, Running, Connected, Leased,
                      Stages, sweepVars
  <2> QED BY <2>1, <2>2, LocalStep
<1>8. CASE Publish(j) \/ MarkFailed(j)
  <2>1. Local(j)
    BY <1>8 DEF Publish, MarkFailed, Goto, Local, rowVars, sweepVars
  <2>2. FencedJob(j)'
    BY <1>0, <1>8 DEF Publish, MarkFailed, Goto, FencedJob, Running, Connected,
                      Leased, Stages, rowVars, sweepVars
  <2> QED BY <2>1, <2>2, LocalStep
<1> QED BY <1>1, <1>3, <1>4, <1>5, <1>6, <1>7, <1>8 DEF Work

LEMMA FencedLease ==
    ASSUME TypeOK, ScratchInv, Fenced, CrashOnly, NEW j \in Jobs,
           StageFails(j) \/ Timeout(j) \/ Beat(j) \/ Expire(j) \/ DeleteBackup(j)
    PROVE  Fenced'
<1> USE JobLeaseAssumption DEF TypeOK
<1>0. FencedJob(j)
  BY DEF Fenced
<1>1. CASE StageFails(j)
  <2>1. Local(j)
    BY <1>1 DEF StageFails, Goto, Local, rowVars, sweepVars
  <2>2. FencedJob(j)'
    BY <1>0, <1>1 DEF StageFails, Goto, FencedJob, Running, Leased, Stages,
                      rowVars, sweepVars
  <2> QED BY <2>1, <2>2, LocalStep
<1>2. CASE Timeout(j)
  BY <1>2 DEF Timeout, CrashOnly
<1>3. CASE Beat(j)
  <2>1. Holds(j)
    BY <1>0, <1>3 DEF Beat, Holds, FencedJob, Running, Connected
  <2>2. Local(j)
    BY <1>3, <2>1 DEF Beat, Local, sweepVars
  <2>3. FencedJob(j)'
    BY <1>0, <1>3, <2>1 DEF Beat, FencedJob, Running, Connected, sweepVars
  <2> QED BY <2>2, <2>3, LocalStep
<1>4. CASE Expire(j)
  <2>1. ~Running(j) \/ pc[j] \notin Leased \cup {"start"}
    BY <1>0, <1>4 DEF Expire, Fenced, FencedJob, Running, Connected, Beating, Holds
  <2>2. status[j] # "absent" /\ pc[j] # "idle"
    BY <1>0, <1>4 DEF Expire, Active, FencedJob
  <2>3. Local(j)
    BY <1>4 DEF Expire, Local, runVars, sweepVars
  <2>4. FencedJob(j)'
    BY <1>0, <1>4, <2>1, <2>2 DEF Expire, FencedJob, Running, runVars, sweepVars
  <2> QED BY <2>3, <2>4, LocalStep
<1>5. CASE DeleteBackup(j)
  <2>1. Local(j)
    BY <1>5 DEF DeleteBackup, Local, runVars, sweepVars
  <2>2. FencedJob(j)'
    BY <1>0, <1>5 DEF DeleteBackup, FencedJob, Running, runVars, sweepVars
  <2> QED BY <2>1, <2>2, LocalStep
<1> QED BY <1>1, <1>2, <1>3, <1>4, <1>5

LEMMA FencedProcess ==
    ASSUME TypeOK, Fenced, CrashOnly, NEW p \in Procs,
           \/ \E k \in Kinds : Admit(p, k)
           \/ \E j \in Jobs : Create(p, j) \/ FireCreate(p, j) \/ ReapMark(p, j)
           \/ AdmitAbort(p) \/ AdmitLockExpires(p) \/ FireCheck(p) \/ FireAbort(p)
           \/ ReapScan(p) \/ ReapAbort(p) \/ Crash(p) \/ Cut(p) \/ Reconnect(p)
    PROVE  Fenced'
<1> USE JobLeaseAssumption DEF TypeOK
<1>1. ASSUME UNCHANGED <<rowVars, runVars, proc>>, batch' \in {batch, {}}
      PROVE Fenced'
  BY <1>1 DEF Fenced, FencedJob, Running, rowVars, runVars
<1>2. ASSUME NEW k \in Kinds, Admit(p, k) PROVE Fenced'
  BY <1>1, <1>2 DEF Admit, sweepVars
<1>3. ASSUME NEW j \in Jobs, Spawn(p, j), UNCHANGED <<proc, sweepVars>>, proc[p] = "up"
      PROVE Fenced'
  <2>1. \A i \in Jobs \ {j} : FencedJob(i)'
    BY <1>3 DEF Spawn, Fenced, FencedJob, Running, sweepVars
  <2>2. FencedJob(j)'
    BY <1>3 DEF Spawn, Fenced, FencedJob, Running, Leased, Stages, sweepVars
  <2> QED BY <1>3, <2>1, <2>2 DEF Fenced
<1>4. ASSUME NEW j \in Jobs, Create(p, j) \/ FireCreate(p, j) PROVE Fenced'
  BY <1>3, <1>4 DEF Create, FireCreate
<1>5. ASSUME NEW j \in Jobs, ReapMark(p, j) PROVE Fenced'
  <2>1. FencedJob(j) /\ status[j] # "absent" /\ (Running(j) => pc[j] = "end")
    BY <1>5 DEF ReapMark, Fenced, FencedJob
  <2>2. \A i \in Jobs \ {j} : FencedJob(i)'
    BY <1>5 DEF ReapMark, Fenced, FencedJob, Running, runVars
  <2>3. FencedJob(j)'
    BY <1>5, <2>1 DEF ReapMark, FencedJob, Running, Leased, Stages, runVars
  <2> QED BY <1>5, <2>2, <2>3 DEF Fenced, ReapMark
<1>6. CASE AdmitAbort(p) \/ AdmitLockExpires(p) \/ FireCheck(p) \/ FireAbort(p)
  BY <1>1, <1>6 DEF AdmitAbort, AdmitLockExpires, FireCheck, FireAbort, sweepVars
<1>7. CASE ReapScan(p)
  <2>1. \A j \in Stale : status[j] # "absent" /\ (Running(j) => pc[j] = "end")
    BY DEF Stale, Active, Fenced, FencedJob, Leased, Stages, PCs
  <2> QED BY <1>7, <2>1 DEF ReapScan, Fenced, FencedJob, Running, rowVars, runVars
<1>8. CASE ReapAbort(p)
  BY <1>8 DEF ReapAbort, Fenced
<1>9. CASE Crash(p)
  <2>1. \A j \in Jobs : Running(j)' => Running(j)
    BY <1>9 DEF Crash, Running, runVars
  <2> QED BY <1>9, <2>1 DEF Crash, Fenced, FencedJob, rowVars, runVars
<1>10. CASE Cut(p) \/ Reconnect(p)
  BY <1>10 DEF Cut, Reconnect, CrashOnly, Fenced
<1> QED BY <1>2, <1>4, <1>5, <1>6, <1>7, <1>8, <1>9, <1>10

-----------------------------------------------------------------------------
(* Exclusive use of the two DGraph instances.                              *)

\* Live goroutines inherit the exclusion of the rows they hold.
LEMMA ScratchExclusive ==
    ASSUME AdmissionExclusive, Fenced, NEW i \in Jobs, NEW j \in Jobs, i # j
    PROVE  /\ ~(UsesScratch(i) /\ UsesScratch(j))
           /\ RewritesBlue(i) /\ (RewritesBlue(j) \/ ReadsBlue(j))
                => Scheduler /\ Kind[j] = "backup"
<1>1. \A k \in Jobs : UsesScratch(k) \/ RewritesBlue(k) \/ ReadsBlue(k) => status[k] \in Active
  BY DEF Fenced, FencedJob, UsesScratch, RewritesBlue, ReadsBlue, Leased, Stages, Active
<1> QED BY <1>1 DEF AdmissionExclusive, Blockers, UsesScratch, RewritesBlue, ReadsBlue

LEMMA ScratchStep ==
    ASSUME TypeOK, AdmissionExclusive, Fenced, ScratchInv, [Next]_vars
    PROVE  ScratchInv'
<1> USE JobLeaseAssumption DEF TypeOK
<1>1. ASSUME UNCHANGED <<on, pc, dataVars>>,
             \A j \in Jobs : Running(j)' => Running(j),
             \A j \in Jobs : status'[j] = "completed" => status[j] = "completed"
      PROVE ScratchInv'
  BY <1>1 DEF ScratchInv, NoBleed, dataVars
<1>2. CASE UNCHANGED vars
  BY <1>1, <1>2 DEF vars, runVars, rowVars, Running
<1>3. ASSUME NEW j \in Jobs, Work(j) PROVE ScratchInv'
  <2>0. on' = on /\ proc' = proc /\ \A i \in Jobs \ {j} : pc'[i] = pc[i] /\ status'[i] = status[i]
    BY <1>3 DEF Work, Claim, Fetch, WipeScratch, BumpLease, LoadScratch, Dump, Upload,
                DropBlue, RunLive, ApplySchema, Commit, Publish, MarkFailed, Does, Goto, rowVars
  <2>1. CASE Claim(j)
    BY <2>0, <2>1 DEF Claim, Goto, ScratchInv, NoBleed, Running, Kinds, rowVars, dataVars
  <2>2. CASE Fetch(j) \/ BumpLease(j)
    BY <2>0, <2>2 DEF Fetch, BumpLease, Does, Goto, ScratchInv, NoBleed, Running, Kinds, rowVars, dataVars
  <2>3. CASE WipeScratch(j) \/ LoadScratch(j)
    <3>1. UsesScratch(j)
      BY <2>3 DEF WipeScratch, LoadScratch, Does, UsesScratch, ScratchInv
    <3>2. \A i \in Jobs \ {j} : ~UsesScratch(i)
      BY <3>1, ScratchExclusive
    <3> QED BY <2>0, <2>3, <3>1, <3>2
            DEF WipeScratch, LoadScratch, Does, Goto, ScratchInv, NoBleed, Running,
                UsesScratch, rowVars
  <2>4. CASE Dump(j)
    <3>1. status[j] # "completed"
      BY <2>4 DEF Dump, Does, Fenced, FencedJob, Leased, Stages
    <3> QED BY <2>0, <2>4, <3>1 DEF Dump, Does, Goto, ScratchInv, NoBleed, Running, Kinds, rowVars
  <2>5. CASE Upload(j) \/ DropBlue(j) \/ RunLive(j) \/ ApplySchema(j)
    BY <2>0, <2>5 DEF Upload, DropBlue, RunLive, ApplySchema, Does, Goto, ScratchInv,
                      NoBleed, Running, rowVars, dataVars
  <2>6. CASE Commit(j)
    BY <2>0, <2>6 DEF Commit, Goto, ScratchInv, NoBleed, Running, dataVars
  <2>7. CASE Publish(j) \/ MarkFailed(j)
    BY <2>0, <2>7 DEF Publish, MarkFailed, Goto, ScratchInv, NoBleed, Running, rowVars, dataVars
  <2> QED BY <1>3, <2>1, <2>2, <2>3, <2>4, <2>5, <2>6, <2>7 DEF Work
<1>4. ASSUME NEW j \in Jobs, StageFails(j) PROVE ScratchInv'
  BY <1>4 DEF StageFails, Goto, ScratchInv, NoBleed, Running, rowVars, dataVars
<1>5. ASSUME NEW j \in Jobs, Timeout(j) \/ Beat(j) \/ Expire(j) \/ DeleteBackup(j)
      PROVE ScratchInv'
  BY <1>1, <1>5 DEF Timeout, Beat, Expire, DeleteBackup, Running, rowVars, runVars
<1>6. ASSUME NEW p \in Procs, NEW j \in Jobs, Create(p, j) \/ FireCreate(p, j)
      PROVE ScratchInv'
  <2>1. Spawn(p, j) /\ UNCHANGED <<proc, dataVars>> /\ pc[j] = "idle"
    BY <1>6 DEF Create, FireCreate, Spawn, Fenced, FencedJob
  <2> QED BY <2>1 DEF Spawn, ScratchInv, NoBleed, Running, dataVars
<1>7. ASSUME NEW p \in Procs, NEW j \in Jobs, ReapMark(p, j) PROVE ScratchInv'
  BY <1>1, <1>7 DEF ReapMark, Running, runVars, Active
<1>8. ASSUME NEW p \in Procs,
             \/ \E k \in Kinds : Admit(p, k)
             \/ AdmitAbort(p) \/ AdmitLockExpires(p) \/ FireCheck(p) \/ FireAbort(p)
             \/ ReapScan(p) \/ ReapAbort(p) \/ Crash(p) \/ Cut(p) \/ Reconnect(p)
      PROVE ScratchInv'
  <2>1. UNCHANGED <<on, pc, dataVars, status>>
    BY <1>8 DEF Admit, AdmitAbort, AdmitLockExpires, FireCheck, FireAbort, ReapScan,
                ReapAbort, Crash, Cut, Reconnect, rowVars, runVars
  <2>2. \A j \in Jobs : Running(j)' => Running(j)
    BY <1>8 DEF Admit, AdmitAbort, AdmitLockExpires, FireCheck, FireAbort, ReapScan,
                ReapAbort, Crash, Cut, Reconnect, Running, runVars
  <2> QED BY <1>1, <2>1, <2>2
<1> QED BY <1>2, <1>3, <1>4, <1>5, <1>6, <1>7, <1>8 DEF Next

LEMMA LeaseInvariant ==
    ASSUME CrashOnly, "slow" \notin Faults
    PROVE  Spec => [](Fenced /\ ScratchInv)
<1>1. Init => Fenced /\ ScratchInv
  BY DEF Init, Fenced, FencedJob, ScratchInv, NoBleed, Running, Leased, Stages
<1>2. TypeOK /\ AdmissionInv /\ Fenced /\ ScratchInv /\ [Next]_vars
        => Fenced' /\ ScratchInv'
  <2> SUFFICES ASSUME TypeOK, AdmissionInv, Fenced, ScratchInv, [Next]_vars
               PROVE  Fenced' /\ ScratchInv'
    OBVIOUS
  <2>1. ScratchInv'
    BY ScratchStep DEF AdmissionInv
  <2>2. UNCHANGED vars => Fenced'
    BY DEF vars, rowVars, runVars, sweepVars, Fenced, FencedJob, Running
  <2>3. Next => Fenced'
    BY FencedWork, FencedLease, FencedProcess DEF Next
  <2>4. Fenced'
    BY <2>2, <2>3
  <2> QED BY <2>1, <2>4
<1> QED BY <1>1, <1>2, TypeCorrect, AdmissionInvariant, PTL DEF Spec

\* With crashes alone, and no scheduler, one goroutine at a time works on
\* scratch and nothing meets a restore on blue.
THEOREM DGraphIsExclusive ==
    ASSUME CrashOnly, "slow" \notin Faults, ~Scheduler
    PROVE  Spec => []DGraphExclusive
<1>1. AdmissionExclusive /\ Fenced => DGraphExclusive
  BY ScratchExclusive DEF DGraphExclusive
<1>2. AdmissionInv => AdmissionExclusive
  BY DEF AdmissionInv
<1> QED BY <1>1, <1>2, AdmissionInvariant, LeaseInvariant, PTL

\* With crashes alone, what an export zips is its own namespace, scheduler or not.
THEOREM ExportsDoNotBleed ==
    ASSUME CrashOnly, "slow" \notin Faults
    PROVE  Spec => []NoBleed
<1>1. ScratchInv => NoBleed
  BY DEF ScratchInv
<1> QED BY <1>1, LeaseInvariant, PTL

\* With crashes alone, the outcome "failed" is not taken back.
THEOREM FailedStaysFailed ==
    ASSUME CrashOnly, "slow" \notin Faults
    PROVE  Spec => FailedIsFinal
<1>1. TypeOK /\ Fenced /\ [Next]_vars
        => [\A j \in Jobs : status[j] = "failed" => status'[j] \in {"failed", "deleted"}]_vars
  <2> SUFFICES ASSUME TypeOK, Fenced, Next, NEW j \in Jobs, status[j] = "failed"
               PROVE  status'[j] \in {"failed", "deleted"}
    OBVIOUS
  <2> USE DEF TypeOK
  <2>1. ~Running(j) \/ pc[j] \notin {"start", "commit"}
    BY DEF Fenced, FencedJob, Leased, Stages
  <2>2. ASSUME NEW i \in Jobs, Work(i) PROVE status'[j] = "failed"
    BY <2>1, <2>2 DEF Work, Claim, Fetch, WipeScratch, BumpLease, LoadScratch, Dump,
                      Upload, DropBlue, RunLive, ApplySchema, Commit, Publish,
                      MarkFailed, Does, Running, Connected, rowVars
  <2>3. ASSUME NEW i \in Jobs,
               StageFails(i) \/ Timeout(i) \/ Beat(i) \/ Expire(i) \/ DeleteBackup(i)
        PROVE status'[j] \in {"failed", "deleted"}
    BY <2>3 DEF StageFails, Timeout, Beat, Expire, DeleteBackup, rowVars
  <2>4. ASSUME NEW p \in Procs, NEW i \in Jobs,
               Create(p, i) \/ FireCreate(p, i) \/ ReapMark(p, i)
        PROVE status'[j] = "failed"
    BY <2>4 DEF Create, FireCreate, Spawn, ReapMark, Active
  <2>5. ASSUME NEW p \in Procs,
               \/ \E k \in Kinds : Admit(p, k)
               \/ AdmitAbort(p) \/ AdmitLockExpires(p) \/ FireCheck(p) \/ FireAbort(p)
               \/ ReapScan(p) \/ ReapAbort(p) \/ Crash(p) \/ Cut(p) \/ Reconnect(p)
        PROVE status'[j] = "failed"
    BY <2>5 DEF Admit, AdmitAbort, AdmitLockExpires, FireCheck, FireAbort, ReapScan,
                ReapAbort, Crash, Cut, Reconnect, rowVars
  <2> QED BY <2>2, <2>3, <2>4, <2>5 DEF Next
<1> QED BY <1>1, TypeCorrect, LeaseInvariant, PTL DEF Spec, FailedIsFinal

-----------------------------------------------------------------------------
(* The board of rows.                                                      *)

\* A row that was claimed is past pending.
ClaimedInv == \A j \in Jobs : /\ lockedBy[j] # None => status[j] \notin {"absent", "pending"}
                              /\ status[j] = "deleted" => Kind[j] = "backup"

LEMMA ClaimedStep ==
    ASSUME TypeOK, ClaimedInv, [Next]_vars
    PROVE  ClaimedInv'
<1> USE JobLeaseAssumption DEF TypeOK, ClaimedInv
<1>1. ASSUME UNCHANGED <<status, lockedBy>> PROVE ClaimedInv'
  BY <1>1
<1>2. CASE UNCHANGED vars
  BY <1>1, <1>2 DEF vars, rowVars
<1>3. ASSUME NEW j \in Jobs, Work(j) PROVE ClaimedInv'
  <2>1. CASE Claim(j)
    BY <2>1 DEF Claim, rowVars
  <2>2. CASE Commit(j) \/ MarkFailed(j)
    BY <2>2 DEF Commit, MarkFailed, Holds
  <2>3. ASSUME UNCHANGED rowVars PROVE ClaimedInv'
    BY <1>1, <2>3 DEF rowVars
  <2> QED BY <1>3, <2>1, <2>2, <2>3
          DEF Work, Fetch, WipeScratch, BumpLease, LoadScratch, Dump, Upload, DropBlue,
              RunLive, ApplySchema, Publish, Does
<1>4. ASSUME NEW j \in Jobs, StageFails(j) \/ Timeout(j) \/ Beat(j) \/ Expire(j)
      PROVE ClaimedInv'
  BY <1>1, <1>4 DEF StageFails, Timeout, Beat, Expire, rowVars
<1>5. ASSUME NEW j \in Jobs, DeleteBackup(j) PROVE ClaimedInv'
  BY <1>5 DEF DeleteBackup
<1>6. ASSUME NEW p \in Procs, NEW j \in Jobs,
             Create(p, j) \/ FireCreate(p, j) \/ ReapMark(p, j)
      PROVE ClaimedInv'
  BY <1>6 DEF Create, FireCreate, Spawn, ReapMark, Active
<1>7. ASSUME NEW p \in Procs,
             \/ \E k \in Kinds : Admit(p, k)
             \/ AdmitAbort(p) \/ AdmitLockExpires(p) \/ FireCheck(p) \/ FireAbort(p)
             \/ ReapScan(p) \/ ReapAbort(p) \/ Crash(p) \/ Cut(p) \/ Reconnect(p)
      PROVE ClaimedInv'
  BY <1>1, <1>7 DEF Admit, AdmitAbort, AdmitLockExpires, FireCheck, FireAbort, ReapScan,
                ReapAbort, Crash, Cut, Reconnect, rowVars
<1> QED BY <1>2, <1>3, <1>4, <1>5, <1>6, <1>7 DEF Next

LEMMA ClaimedInvariant == Spec => []ClaimedInv
<1>1. Init => ClaimedInv
  BY DEF Init, ClaimedInv
<1>2. TypeOK /\ ClaimedInv /\ [Next]_vars => ClaimedInv'
  BY ClaimedStep
<1> QED BY <1>1, <1>2, TypeCorrect, PTL DEF Spec

\* No fenced write finds its row failed, unless late writes are allowed.
LEMMA CommitMoves ==
    ASSUME TypeOK, ClaimedInv, CrashOnly => Fenced, NEW j \in Jobs, Commit(j)
    PROVE  status[j] = "completed" \/ Board!Complete(j)
<1> USE JobLeaseAssumption DEF TypeOK
<1>1. status[j] \in {"running", "completed", "failed"}
  BY DEF Commit, Holds, Connected, ClaimedInv, Statuses
<1>2. CrashOnly => status[j] = "running"
  BY DEF Commit, Fenced, FencedJob, Running, Connected, Leased, Stages
<1>3. ~CrashOnly => LateWrites
  BY DEF CrashOnly, LateWrites
<1>4. status' = [status EXCEPT ![j] = "completed"]
  BY DEF Commit
<1> QED BY <1>1, <1>2, <1>3, <1>4 DEF Board!Complete, Board!Move

LEMMA BoardStep ==
    ASSUME TypeOK, AdmissionInv, ClaimedInv, CrashOnly => Fenced, [Next]_vars
    PROVE  [Board!Next]_status
<1> USE JobLeaseAssumption DEF TypeOK
<1>1. CASE UNCHANGED status
  BY <1>1
<1>2. ASSUME NEW j \in Jobs,
             Board!Accept(j) \/ Board!Start(j) \/ Board!Complete(j) \/ Board!Fail(j) \/ Board!Delete(j)
      PROVE [Board!Next]_status
  BY <1>2 DEF Board!Next
<1>3. ASSUME NEW j \in Jobs, Work(j) PROVE [Board!Next]_status
  <2>1. CASE Claim(j)
    BY <2>1, <1>1, <1>2 DEF Claim, Board!Start, Board!Move, rowVars
  <2>2. CASE Commit(j)
    <3>1. CASE status[j] = "completed"
      BY <3>1, <2>2, <1>1 DEF Commit
    <3> QED BY <3>1, <2>2, <1>2, CommitMoves
  <2>3. CASE MarkFailed(j)
    <3>1. CASE Connected(j) /\ Holds(j) /\ status[j] # "failed"
      <4>1. status[j] \in {"running", "completed"}
        BY <3>1 DEF Holds, Connected, ClaimedInv, Statuses
      <4> QED BY <4>1, <3>1, <2>3, <1>2 DEF MarkFailed, Board!Fail, Board!Move
    <3>2. CASE ~(Connected(j) /\ Holds(j) /\ status[j] # "failed")
      BY <3>2, <2>3, <1>1 DEF MarkFailed
    <3> QED BY <3>1, <3>2
  <2>4. ASSUME UNCHANGED rowVars PROVE [Board!Next]_status
    BY <1>1, <2>4 DEF rowVars
  <2> QED BY <1>3, <2>1, <2>2, <2>3, <2>4
          DEF Work, Fetch, WipeScratch, BumpLease, LoadScratch, Dump, Upload, DropBlue,
              RunLive, ApplySchema, Publish, Does
<1>4. ASSUME NEW j \in Jobs, StageFails(j) \/ Timeout(j) \/ Beat(j) \/ Expire(j)
      PROVE [Board!Next]_status
  BY <1>1, <1>4 DEF StageFails, Timeout, Beat, Expire, rowVars
<1>5. ASSUME NEW j \in Jobs, DeleteBackup(j) PROVE [Board!Next]_status
  BY <1>2, <1>5 DEF DeleteBackup, Board!Delete, Board!Move
<1>6. ASSUME NEW p \in Procs, NEW j \in Jobs, Create(p, j) PROVE [Board!Next]_status
  <2>1. \A i \in Jobs : <<i, j>> \in Conflicts => status[i] \notin Active
    BY <1>6 DEF Create, Conflicts, AdmissionInv, Apart, Kinds
  <2> QED BY <2>1, <1>2, <1>6 DEF Create, Spawn, Board!Accept, Board!Move, Active, Board!Active
<1>7. ASSUME NEW p \in Procs, NEW j \in Jobs, FireCreate(p, j) PROVE [Board!Next]_status
  <2>1. \A i \in Jobs : <<i, j>> \notin Conflicts
    BY <1>7 DEF FireCreate, Conflicts, AdmissionInv
  <2> QED BY <2>1, <1>2, <1>7 DEF FireCreate, Spawn, Board!Accept, Board!Move
<1>8. ASSUME NEW p \in Procs, NEW j \in Jobs, ReapMark(p, j) PROVE [Board!Next]_status
  <2>1. CASE status[j] \in Active
    BY <2>1, <1>2, <1>8 DEF ReapMark, Active, Board!Fail, Board!Move
  <2>2. CASE status[j] \notin Active
    BY <2>2, <1>1, <1>8 DEF ReapMark
  <2> QED BY <2>1, <2>2
<1>9. ASSUME NEW p \in Procs,
             \/ \E k \in Kinds : Admit(p, k)
             \/ AdmitAbort(p) \/ AdmitLockExpires(p) \/ FireCheck(p) \/ FireAbort(p)
             \/ ReapScan(p) \/ ReapAbort(p) \/ Crash(p) \/ Cut(p) \/ Reconnect(p)
      PROVE [Board!Next]_status
  BY <1>1, <1>9 DEF Admit, AdmitAbort, AdmitLockExpires, FireCheck, FireAbort, ReapScan,
                ReapAbort, Crash, Cut, Reconnect, rowVars
<1>10. CASE UNCHANGED vars
  BY <1>1, <1>10 DEF vars, rowVars
<1> QED BY <1>3, <1>4, <1>5, <1>6, <1>7, <1>8, <1>9, <1>10 DEF Next

\* While the lock outlives every check-then-create, the replicas implement the
\* board: a client cannot tell the check and the create apart, nor a claim, a
\* reap or a crash from a move of one row.
THEOREM LeasesImplementBoard ==
    ASSUME "slow" \notin Faults
    PROVE  Spec => BoardSpec
<1>1. Init => Board!Init
  BY DEF Init, Board!Init
<1>2. TypeOK /\ AdmissionInv /\ ClaimedInv /\ (CrashOnly => Fenced) /\ [Next]_vars
        => [Board!Next]_status
  BY BoardStep
<1>3. Spec => [](CrashOnly => Fenced)
  <2>1. CASE CrashOnly
    BY <2>1, LeaseInvariant, PTL
  <2>2. CASE ~CrashOnly
    <3>1. CrashOnly => Fenced
      BY <2>2
    <3> QED BY <3>1, PTL
  <2> QED BY <2>1, <2>2
<1> QED BY <1>1, <1>2, <1>3, TypeCorrect, AdmissionInvariant, ClaimedInvariant, PTL
        DEF Spec, BoardSpec, Board!Spec

\* The table of blockers in the Trigger handlers is symmetric.
LEMMA BlockingIsMutual == Board!ConflictsAreMutual
<1>1. \A i, j \in Jobs : Kind[i] \in Blockers(Kind[j]) => Kind[j] \in Blockers(Kind[i])
  BY JobLeaseAssumption DEF Blockers, Kinds
<1> QED BY <1>1 DEF Board!ConflictsAreMutual, Conflicts

\* The board's invariant: the rows have statuses, and Exclusive.
BoardInv == status \in [Jobs -> Board!Statuses] /\ Board!Exclusive

\* A client of the board never sees two conflicting jobs in progress together:
\* what the 409 answers of the Trigger handlers are for.  From the board alone,
\* whatever implements it.
THEOREM BoardIsExclusive == BoardSpec => []Board!Exclusive
<1> USE DEF Board!Move, BoardInv, Board!Exclusive, Board!Statuses, Board!Active
<1>1. Board!Init => BoardInv
  BY DEF Board!Init
<1>2. BoardInv /\ [Board!Next]_status => BoardInv'
  <2> SUFFICES ASSUME BoardInv, [Board!Next]_status PROVE BoardInv'
    OBVIOUS
  <2>1. ASSUME NEW j \in Jobs, Board!Accept(j) PROVE BoardInv'
    BY <2>1, BlockingIsMutual DEF Board!Accept, Board!ConflictsAreMutual
  <2>2. ASSUME NEW j \in Jobs, Board!Start(j) PROVE BoardInv'
    BY <2>2 DEF Board!Start
  <2>3. ASSUME NEW j \in Jobs, Board!Complete(j) \/ Board!Fail(j) \/ Board!Delete(j) PROVE BoardInv'
    BY <2>3 DEF Board!Complete, Board!Fail, Board!Delete
  <2>4. CASE UNCHANGED status
    BY <2>4
  <2> QED BY <2>1, <2>2, <2>3, <2>4 DEF Board!Next
<1>3. BoardInv => Board!Exclusive
  OBVIOUS
<1> QED BY <1>1, <1>2, <1>3, PTL DEF BoardSpec, Board!Spec

\* Of all actions only MarkFailed fails a completed row, and a sweep whose rows
\* have moved on since it read them writes nothing: under every fault.
LEMMA CompletedStep ==
    ASSUME TypeOK, [Next]_vars, NEW i \in Jobs, status[i] = "completed", status'[i] # "completed"
    PROVE  status'[i] = "deleted" \/ pc[i] = "failing"
<1>1. CASE UNCHANGED rowVars
  BY <1>1 DEF rowVars
<1>2. ASSUME NEW j \in Jobs, Claim(j) \/ Commit(j) \/ MarkFailed(j) PROVE status'[i] = "deleted" \/ pc[i] = "failing"
  BY <1>2 DEF Claim, Commit, MarkFailed, TypeOK, rowVars
<1>3. ASSUME NEW j \in Jobs, Work(j) PROVE status'[i] = "deleted" \/ pc[i] = "failing"
  BY <1>1, <1>2, <1>3 DEF Work, Fetch, WipeScratch, BumpLease, LoadScratch, Dump, Upload, DropBlue,
              RunLive, ApplySchema, Publish, Does
<1>4. ASSUME NEW j \in Jobs, StageFails(j) \/ Timeout(j) \/ Beat(j) \/ Expire(j) \/ DeleteBackup(j)
      PROVE status'[i] = "deleted" \/ pc[i] = "failing"
  BY <1>4 DEF StageFails, Timeout, Beat, Expire, DeleteBackup, rowVars, TypeOK
<1>5. ASSUME NEW p \in Procs, NEW j \in Jobs, Create(p, j) \/ FireCreate(p, j) \/ ReapMark(p, j)
      PROVE status'[i] = "deleted" \/ pc[i] = "failing"
  BY <1>5 DEF Create, FireCreate, Spawn, ReapMark, Active, TypeOK
<1>6. ASSUME NEW p \in Procs,
             \/ \E k \in Kinds : Admit(p, k)
             \/ AdmitAbort(p) \/ AdmitLockExpires(p) \/ FireCheck(p) \/ FireAbort(p)
             \/ ReapScan(p) \/ ReapAbort(p) \/ Crash(p) \/ Cut(p) \/ Reconnect(p)
      PROVE status'[i] = "deleted" \/ pc[i] = "failing"
  BY <1>1, <1>6 DEF Admit, AdmitAbort, AdmitLockExpires, FireCheck, FireAbort, ReapScan,
                ReapAbort, Crash, Cut, Reconnect, rowVars
<1>7. CASE UNCHANGED vars
  BY <1>1, <1>7 DEF vars
<1> QED BY <1>3, <1>4, <1>5, <1>6, <1>7 DEF Next

\* The reaper never fails a job that has completed since its sweep read it.
THEOREM CompletedIsNotReaped == Spec => CompletedNotReaped
<1>1. TypeOK /\ [Next]_vars
        => [\A j \in Jobs : status[j] = "completed" /\ status'[j] # "completed"
              => status'[j] = "deleted" \/ pc[j] = "failing"]_vars
  BY CompletedStep
<1> QED BY <1>1, TypeCorrect, PTL DEF Spec, CompletedNotReaped
=============================================================================
