------------------------------ MODULE JobLease ------------------------------
(***************************************************************************)
(* The three long jobs of orbital (export, backup, restore) at any number  *)
(* of replicas: admission under a PostgreSQL advisory lock, the claim, the *)
(* heartbeat and its fence, the reaper, and the steps of each job on the   *)
(* two DGraph instances (internal/handler/joblease.go, reaper.go,          *)
(* export.go, backup.go, restore.go).                                      *)
(*                                                                         *)
(* A member of Procs is one incarnation of the orbital process: runnerID   *)
(* is drawn at start, so a restarted replica is another member.  A job's   *)
(* goroutine runs where its row was created.  Time is abstract: a row      *)
(* becomes overdue when nothing has refreshed it for the threshold that    *)
(* applies to it (StaleAfter once claimed, OrphanGrace before).            *)
(***************************************************************************)

CONSTANTS
    Procs,      \* process incarnations (values of runnerID)
    Jobs,       \* job rows that may ever be created
    Kind,       \* Kind[j]: which table row j belongs to
    Faults,     \* what may go wrong in this instance, see FaultKinds
    Scheduler,  \* TRUE when ORBITAL_BACKUP_SCHEDULE is set
    None        \* no process (a NULL locked_by, a free lock)

Kinds == {"export", "backup", "restore"}

\* crash: a process dies.  cut: a process is paused, or loses PostgreSQL, for
\* longer than StaleAfter.  timeout: a job outlives its context's deadline.
\* slow: an admission takes longer than the 5s its lock transaction may live.
FaultKinds == {"crash", "cut", "timeout", "slow"}

ASSUME JobLeaseAssumption ==
    /\ Kind \in [Jobs -> Kinds]
    /\ Faults \subseteq FaultKinds
    /\ Scheduler \in BOOLEAN
    /\ None \notin Procs

VARIABLES
    status, lockedBy, overdue,          \* the job rows in PostgreSQL
    on, pc, live,                       \* the goroutines that run the jobs
    proc,                               \* the processes
    admLock, req,                       \* admission: the lock, the handlers
    sched,                              \* holder of the scheduler lock
    reaper, batch,                      \* holder of the reaper lock, its rows
    scratch, zip                        \* scratch DGraph, the exported zips

rowVars   == <<status, lockedBy, overdue>>
runVars   == <<on, pc, live>>
admVars   == <<admLock, req, sched>>
sweepVars == <<reaper, batch>>
dataVars  == <<scratch, zip>>
vars == <<rowVars, runVars, proc, admVars, sweepVars, dataVars>>

Statuses == {"absent", "pending", "running", "completed", "failed", "deleted"}
Active   == {"pending", "running"}

\* The stages of a job after its claim: export and restore start at "fetch",
\* backup at "dump", and all end with "commit".
Stages == {"fetch", "wipe", "bump", "load", "dump", "upload", "drop", "live",
           "schema", "commit", "publish"}
\* Where a goroutine can be; keepLease runs in the Leased part.
Leased == Stages \cup {"failing"}
PCs    == Leased \cup {"idle", "start", "end"}

Init ==
    /\ status = [j \in Jobs |-> "absent"]
    /\ lockedBy = [j \in Jobs |-> None]
    /\ overdue = [j \in Jobs |-> FALSE]
    /\ on = [j \in Jobs |-> None]
    /\ pc = [j \in Jobs |-> "idle"]
    /\ live = [j \in Jobs |-> TRUE]
    /\ proc = [p \in Procs |-> "up"]
    /\ admLock = None
    /\ req = [p \in Procs |-> "idle"]
    /\ sched = None
    /\ reaper = None
    /\ batch = {}
    /\ scratch = {}
    /\ zip = [j \in Jobs |-> {}]

-----------------------------------------------------------------------------
(* Admission: Trigger of each handler, and the backup scheduler's fire.    *)

\* Each handler looks at its own table only.
BlockersOwnKind(k) == {k}
\* The kinds whose pending or running rows make Trigger of kind k answer 409.
Blockers(k) == [export  |-> {"export", "restore"},
                backup  |-> {"backup", "restore"},
                restore |-> {"backup", "export", "restore"}][k]

\* A bound: triggers come only while a row of their kind is left to create.
Wanted(k) == \E j \in Jobs : Kind[j] = k /\ status[j] = "absent"

Clear(k) ==
    /\ Wanted(k)
    /\ \A j \in Jobs : Kind[j] \in Blockers(k) => status[j] \notin Active

\* Create the row and start its goroutine on p: `go h.runX(job.ID)`.
Spawn(p, j) ==
    /\ status[j] = "absent"
    /\ status' = [status EXCEPT ![j] = "pending"]
    /\ on' = [on EXCEPT ![j] = p]
    /\ pc' = [pc EXCEPT ![j] = "start"]
    /\ UNCHANGED <<lockedBy, overdue, live>>

\* Take the admission lock and run the in-progress queries.  A trigger that
\* finds a blocker answers 409 and releases: no step.
Admit(p, k) ==
    /\ proc[p] = "up" /\ req[p] = "idle"
    /\ admLock = None
    /\ Clear(k)
    /\ admLock' = p
    /\ req' = [req EXCEPT ![p] = k]
    /\ UNCHANGED <<rowVars, runVars, proc, sched, sweepVars, dataVars>>

Release(p) == /\ req' = [req EXCEPT ![p] = "idle"]
              /\ admLock' = IF admLock = p THEN None ELSE admLock

\* The rest of Trigger: insert the row, start the goroutine, release.
Create(p, j) ==
    /\ proc[p] = "up" /\ req[p] = Kind[j]
    /\ Spawn(p, j)
    /\ Release(p)
    /\ UNCHANGED <<proc, sched, sweepVars, dataVars>>

\* Trigger fails after admission: a query or the insert errors, the guarded
\* apply answers 409, the client goes away.
AdmitAbort(p) ==
    /\ proc[p] # "dead" /\ req[p] # "idle"
    /\ Release(p)
    /\ UNCHANGED <<rowVars, runVars, proc, sched, sweepVars, dataVars>>

\* The lock's transaction was begun under a 5s context, which bounds the whole
\* transaction and not only the wait: when it ends, database/sql rolls back and
\* the lock is free, while the handler goes on.
AdmitLockExpires(p) ==
    /\ "slow" \in Faults
    /\ admLock = p
    /\ admLock' = None
    /\ UNCHANGED <<rowVars, runVars, proc, req, sched, sweepVars, dataVars>>

\* fire: its own try-lock, and a look at backups only.
FireCheck(p) ==
    /\ Scheduler
    /\ proc[p] = "up" /\ sched = None
    /\ Wanted("backup")
    /\ \A j \in Jobs : Kind[j] = "backup" => status[j] \notin Active
    /\ sched' = p
    /\ UNCHANGED <<rowVars, runVars, proc, admLock, req, sweepVars, dataVars>>

FireCreate(p, j) ==
    /\ proc[p] = "up" /\ sched = p /\ Kind[j] = "backup"
    /\ Spawn(p, j)
    /\ sched' = None
    /\ UNCHANGED <<proc, admLock, req, sweepVars, dataVars>>

FireAbort(p) ==
    /\ proc[p] # "dead" /\ sched = p
    /\ sched' = None
    /\ UNCHANGED <<rowVars, runVars, proc, admLock, req, sweepVars, dataVars>>

-----------------------------------------------------------------------------
(* The lease: claim, heartbeat, expiry, reaper.                            *)

\* The goroutine of j can take a step; a cut process still reaches DGraph.
Running(j)   == on[j] \in Procs /\ proc[on[j]] # "dead"
\* Its PostgreSQL calls succeed.
Connected(j) == on[j] \in Procs /\ proc[on[j]] = "up"
\* The fence of every write after the claim: WHERE id = j AND locked_by = me.
Holds(j) == status[j] # "deleted" /\ lockedBy[j] = on[j]
\* keepLease's ticker refreshes j before it becomes overdue.
Beating(j) == Connected(j) /\ live[j] /\ pc[j] \in Leased /\ Holds(j)

Goto(j, stage) == pc' = [pc EXCEPT ![j] = stage]

\* Without the status condition: a row reaped before its claim runs after all.
ClaimAny(j) ==
    /\ pc[j] = "start" /\ Running(j)
    /\ IF Connected(j) /\ live[j] /\ status[j] # "deleted"
       THEN /\ status' = [status EXCEPT ![j] = "running"]
            /\ lockedBy' = [lockedBy EXCEPT ![j] = on[j]]
            /\ overdue' = [overdue EXCEPT ![j] = FALSE]
            /\ Goto(j, IF Kind[j] = "backup" THEN "dump" ELSE "fetch")
       ELSE Goto(j, "end") /\ UNCHANGED rowVars
    /\ UNCHANGED <<on, live, proc, admVars, sweepVars, dataVars>>
\* UPDATE ... WHERE status = 'pending'; a goroutine that does not win ends.
Claim(j) ==
    /\ pc[j] = "start" /\ Running(j)
    /\ IF Connected(j) /\ live[j] /\ status[j] = "pending"
       THEN /\ status' = [status EXCEPT ![j] = "running"]
            /\ lockedBy' = [lockedBy EXCEPT ![j] = on[j]]
            /\ overdue' = [overdue EXCEPT ![j] = FALSE]
            /\ Goto(j, IF Kind[j] = "backup" THEN "dump" ELSE "fetch")
       ELSE Goto(j, "end") /\ UNCHANGED rowVars
    /\ UNCHANGED <<on, live, proc, admVars, sweepVars, dataVars>>

\* One tick of keepLease: refresh the heartbeat, or learn that the row is no
\* longer this runner's and cancel the job's context.
Beat(j) ==
    /\ pc[j] \in Leased /\ live[j] /\ Connected(j)
    /\ IF Holds(j)
       THEN overdue' = [overdue EXCEPT ![j] = FALSE] /\ UNCHANGED live
       ELSE live' = [live EXCEPT ![j] = FALSE] /\ UNCHANGED overdue
    /\ UNCHANGED <<status, lockedBy, on, pc, proc, admVars, sweepVars, dataVars>>

\* A threshold shorter than the heartbeat interval.
ExpireEarly(j) ==
    /\ status[j] \in Active /\ ~overdue[j]
    /\ overdue' = [overdue EXCEPT ![j] = TRUE]
    /\ UNCHANGED <<status, lockedBy, runVars, proc, admVars, sweepVars, dataVars>>
\* Nothing refreshed row j for the threshold.  A connected runner beats well
\* within StaleAfter, and claims well within OrphanGrace.
Expire(j) ==
    /\ status[j] \in Active /\ ~overdue[j]
    /\ ~Beating(j)
    /\ ~(pc[j] = "start" /\ Connected(j))
    /\ overdue' = [overdue EXCEPT ![j] = TRUE]
    /\ UNCHANGED <<status, lockedBy, runVars, proc, admVars, sweepVars, dataVars>>

\* The rows a sweep selects, its three queries taken as one: a stale
\* heartbeat, or none since OrphanGrace.
Stale == {j \in Jobs : status[j] \in Active /\ overdue[j]}

\* A sweep that forgets the rows nobody ever claimed.
ReapScanClaimedOnly(p) ==
    /\ proc[p] = "up" /\ reaper = None
    /\ {j \in Stale : lockedBy[j] # None} # {}
    /\ reaper' = p
    /\ batch' = {j \in Stale : lockedBy[j] # None}
    /\ UNCHANGED <<rowVars, runVars, proc, admVars, dataVars>>
\* ReapStaleJobs: take the reaper lock and query.
ReapScan(p) ==
    /\ proc[p] = "up" /\ reaper = None
    /\ Stale # {}
    /\ reaper' = p
    /\ batch' = Stale
    /\ UNCHANGED <<rowVars, runVars, proc, admVars, dataVars>>

\* Without the status filter of the update.
ReapMarkAny(p, j) ==
    /\ proc[p] = "up" /\ reaper = p /\ j \in batch
    /\ status' = [status EXCEPT ![j] = "failed"]
    /\ batch' = batch \ {j}
    /\ reaper' = IF batch' = {} THEN None ELSE p
    /\ UNCHANGED <<lockedBy, overdue, runVars, proc, admVars, dataVars>>
\* Writing the export-only status that is not a liveness state.
ReapMarkStale(p, j) ==
    /\ proc[p] = "up" /\ reaper = p /\ j \in batch
    /\ status' = [status EXCEPT ![j] = IF @ \in Active THEN "stale" ELSE @]
    /\ batch' = batch \ {j}
    /\ reaper' = IF batch' = {} THEN None ELSE p
    /\ UNCHANGED <<lockedBy, overdue, runVars, proc, admVars, dataVars>>
\* One update of the sweep: filtered on the status again, not on the heartbeat,
\* and leaving locked_by as it is.
ReapMark(p, j) ==
    /\ proc[p] = "up" /\ reaper = p /\ j \in batch
    /\ status' = [status EXCEPT ![j] = IF @ \in Active THEN "failed" ELSE @]
    /\ batch' = batch \ {j}
    /\ reaper' = IF batch' = {} THEN None ELSE p
    /\ UNCHANGED <<lockedBy, overdue, runVars, proc, admVars, dataVars>>

\* The sweep loses PostgreSQL: every update left errors and is skipped.
ReapAbort(p) ==
    /\ proc[p] = "cut" /\ reaper = p
    /\ reaper' = None /\ batch' = {}
    /\ UNCHANGED <<rowVars, runVars, proc, admVars, dataVars>>

-----------------------------------------------------------------------------
(* The work of a job, stage by stage.                                      *)

\* The stages whose call carries the job's context, so that a cancelled
\* context fails them; the other DGraph calls use http.Post and do not.
CtxStages == {"fetch", "bump", "drop", "live", "schema", "upload", "publish"}

\* Stage s of job j succeeds and the goroutine moves on to stage next.
Does(j, s, next) ==
    /\ pc[j] = s /\ Running(j)
    /\ s \in CtxStages => live[j]
    /\ Goto(j, next)
    /\ UNCHANGED <<rowVars, on, live, proc, admVars, sweepVars>>

\* Read the job row, then the namespace subgraph from blue (export); read the
\* job and backup rows, download, verify, extract (restore).
Fetch(j) == /\ Does(j, "fetch", IF Kind[j] = "export" THEN "wipe" ELSE "drop")
            /\ Connected(j) /\ UNCHANGED dataVars

\* A wipe that is skipped.
NoWipe(j)      == Does(j, "wipe", "bump") /\ UNCHANGED dataVars
\* drop_all on scratch.
WipeScratch(j) == Does(j, "wipe", "bump") /\ scratch' = {} /\ UNCHANGED zip
BumpLease(j)   == Does(j, "bump", "load") /\ UNCHANGED dataVars
\* Insert the job's nodes into scratch.
LoadScratch(j) == Does(j, "load", "dump") /\ scratch' = scratch \cup {j} /\ UNCHANGED zip
\* The native export of scratch, zipped (export); of blue (backup).
Dump(j) ==
    /\ Does(j, "dump", IF Kind[j] = "export" THEN "commit" ELSE "upload")
    /\ zip' = [zip EXCEPT ![j] = IF Kind[j] = "export" THEN scratch ELSE @]
    /\ UNCHANGED scratch
Upload(j)      == Does(j, "upload", "commit") /\ UNCHANGED dataVars
DropBlue(j)    == Does(j, "drop", "live") /\ UNCHANGED dataVars
RunLive(j)     == Does(j, "live", "schema") /\ UNCHANGED dataVars
ApplySchema(j) == Does(j, "schema", "commit") /\ UNCHANGED dataVars

\* A stage fails: its call errors, its context is done, or the fenced write of
\* "commit" updates no row.  A restore that cannot write its outcome just ends.
StageFails(j) ==
    /\ pc[j] \in Stages /\ Running(j)
    /\ Goto(j, IF Kind[j] = "restore" /\ pc[j] = "commit" THEN "end" ELSE "failing")
    /\ UNCHANGED <<rowVars, on, live, proc, admVars, sweepVars, dataVars>>

\* The terminal write, fenced on locked_by; a restore's ignores its context.
\* A download export keeps its zip and ends, the other goes on to publish: its
\* row is completed before it does.
Commit(j) ==
    /\ pc[j] = "commit" /\ Connected(j) /\ Holds(j)
    /\ Kind[j] # "restore" => live[j]
    /\ status' = [status EXCEPT ![j] = "completed"]
    /\ \/ Kind[j] = "export" /\ Goto(j, "publish")
       \/ Goto(j, "end")
    /\ UNCHANGED <<lockedBy, overdue, on, live, proc, admVars, sweepVars, dataVars>>

\* publishFn returns without an error.
Publish(j) ==
    /\ pc[j] = "publish" /\ Connected(j) /\ live[j]
    /\ Goto(j, "end")
    /\ UNCHANGED <<rowVars, on, live, proc, admVars, sweepVars, dataVars>>

\* markFailed and its two siblings: fenced, on a detached context, once.
MarkFailed(j) ==
    /\ pc[j] = "failing" /\ Running(j)
    /\ status' = IF Connected(j) /\ Holds(j)
                 THEN [status EXCEPT ![j] = "failed"] ELSE status
    /\ Goto(j, "end")
    /\ UNCHANGED <<lockedBy, overdue, on, live, proc, admVars, sweepVars, dataVars>>

\* The job's context reaches its deadline.
Timeout(j) ==
    /\ "timeout" \in Faults
    /\ pc[j] \notin {"idle", "end"} /\ Running(j) /\ live[j]
    /\ live' = [live EXCEPT ![j] = FALSE]
    /\ UNCHANGED <<rowVars, on, pc, proc, admVars, sweepVars, dataVars>>

\* DELETE /backup/jobs/{id}: refused while the backup is in progress.
DeleteBackup(j) ==
    /\ Kind[j] = "backup" /\ status[j] \in {"completed", "failed"}
    /\ status' = [status EXCEPT ![j] = "deleted"]
    /\ UNCHANGED <<lockedBy, overdue, runVars, proc, admVars, sweepVars, dataVars>>

-----------------------------------------------------------------------------
(* The processes.                                                          *)

\* p dies: its goroutines stop, PostgreSQL ends its transactions.  Some other
\* replica stays up.
Crash(p) ==
    /\ "crash" \in Faults
    /\ proc[p] # "dead" /\ \E q \in Procs \ {p} : proc[q] # "dead"
    /\ proc' = [proc EXCEPT ![p] = "dead"]
    /\ Release(p)
    /\ sched' = IF sched = p THEN None ELSE sched
    /\ reaper' = IF reaper = p THEN None ELSE reaper
    /\ batch' = IF reaper = p THEN {} ELSE batch
    /\ UNCHANGED <<rowVars, runVars, dataVars>>

Cut(p) ==
    /\ "cut" \in Faults
    /\ proc[p] = "up"
    /\ proc' = [proc EXCEPT ![p] = "cut"]
    /\ UNCHANGED <<rowVars, runVars, admVars, sweepVars, dataVars>>

Reconnect(p) ==
    /\ proc[p] = "cut"
    /\ proc' = [proc EXCEPT ![p] = "up"]
    /\ UNCHANGED <<rowVars, runVars, admVars, sweepVars, dataVars>>

\* What the goroutine of j does when nothing fails it.
Work(j) ==
    \/ Claim(j) \/ Fetch(j) \/ WipeScratch(j) \/ BumpLease(j) \/ LoadScratch(j)
    \/ Dump(j) \/ Upload(j) \/ DropBlue(j) \/ RunLive(j) \/ ApplySchema(j)
    \/ Commit(j) \/ Publish(j) \/ MarkFailed(j)

Next ==
    \/ \E j \in Jobs : \/ Work(j) \/ StageFails(j) \/ Timeout(j)
                       \/ Beat(j) \/ Expire(j) \/ DeleteBackup(j)
    \/ \E p \in Procs : \/ \E k \in Kinds : Admit(p, k)
                        \/ \E j \in Jobs : Create(p, j) \/ FireCreate(p, j)
                                           \/ ReapMark(p, j)
                        \/ AdmitAbort(p) \/ AdmitLockExpires(p)
                        \/ FireCheck(p) \/ FireAbort(p)
                        \/ ReapScan(p) \/ ReapAbort(p)
                        \/ Crash(p) \/ Cut(p) \/ Reconnect(p)

Spec == Init /\ [][Next]_vars

\* The scheduling the code relies on: goroutines run while their process does,
\* time passes, every replica's reaper ticks.  Requests and faults need not
\* happen.
Fairness ==
    /\ \A j \in Jobs : WF_vars(Work(j) \/ StageFails(j)) /\ WF_vars(Expire(j))
    /\ \A p \in Procs : /\ WF_vars(ReapScan(p)) /\ WF_vars(ReapAbort(p))
                        /\ WF_vars(\E j \in Jobs : ReapMark(p, j))

FairSpec == Spec /\ Fairness

-----------------------------------------------------------------------------
(* Properties.                                                             *)

TypeOK ==
    /\ status \in [Jobs -> Statuses]
    /\ lockedBy \in [Jobs -> Procs \cup {None}]
    /\ overdue \in [Jobs -> BOOLEAN]
    /\ on \in [Jobs -> Procs \cup {None}]
    /\ pc \in [Jobs -> PCs]
    /\ live \in [Jobs -> BOOLEAN]
    /\ proc \in [Procs -> {"up", "cut", "dead"}]
    /\ admLock \in Procs \cup {None}
    /\ req \in [Procs -> Kinds \cup {"idle"}]
    /\ sched \in Procs \cup {None}
    /\ reaper \in Procs \cup {None}
    /\ batch \in SUBSET Jobs
    /\ scratch \in SUBSET Jobs
    /\ zip \in [Jobs -> SUBSET Jobs]

\* No two rows that block each other are pending or running together, however
\* triggers on different replicas, reaping and terminal writes interleave
\* (the check-then-create of the three Trigger handlers).  The scheduler's
\* backups are outside: fire takes another lock and looks at backups only.
AdmissionExclusive ==
    \A i, j \in Jobs :
        /\ i # j
        /\ status[i] \in Active /\ status[j] \in Active
        /\ Kind[i] \in Blockers(Kind[j])
        => Scheduler /\ "backup" \in {Kind[i], Kind[j]}

UsesScratch(j)   == Running(j) /\ Kind[j] = "export" /\ pc[j] \in {"wipe", "bump", "load", "dump"}
RewritesBlue(j)  == Running(j) /\ Kind[j] = "restore" /\ pc[j] \in {"drop", "live", "schema"}
ReadsBlue(j)     == Running(j) /\ \/ Kind[j] = "export" /\ pc[j] = "fetch"
                                  \/ Kind[j] = "backup" /\ pc[j] = "dump"

\* One goroutine at a time works on scratch, and nothing reads or rewrites blue
\* while a restore is between its drop_all and its schema (what the lease is
\* for: joblease.go's package comment).
DGraphExclusive ==
    \A i, j \in Jobs : i # j =>
        /\ ~(UsesScratch(i) /\ UsesScratch(j))
        /\ ~(RewritesBlue(i) /\ (RewritesBlue(j) \/ ReadsBlue(j)))

\* The zip an export commits holds its own namespace and nothing another export
\* left in scratch ("wipe scratch so stale data ... cannot bleed into this one").
NoBleed ==
    \A j \in Jobs :
        Kind[j] = "export" /\ (pc[j] = "commit" \/ status[j] = "completed")
            => zip[j] = {j}

\* A row that failed is never anything but failed again, or deleted: the
\* runner of a reaped job changes nothing when it wakes up.
FailedIsFinal ==
    [][\A j \in Jobs : status[j] = "failed" => status'[j] \in {"failed", "deleted"}]_vars

\* A job that completed is not failed by the reaper, whatever its sweep read
\* before: only the job's own goroutine fails it, when its publish fails.
CompletedNotReaped ==
    [][\A j \in Jobs : status[j] = "completed" /\ status'[j] # "completed"
            => status'[j] = "deleted" \/ pc[j] = "failing"]_vars

\* Every job that was accepted reaches a terminal state, whichever process dies
\* and wherever: admission cannot stay blocked.
EveryJobEnds ==
    \A j \in Jobs : status[j] \in Active ~> status[j] \notin Active

\* The board of rows the clients see (JobBoard), whose Accept is atomic: every
\* step of the processes is one of its steps or leaves it unchanged.
Conflicts == {c \in Jobs \X Jobs :
    /\ c[1] # c[2]
    /\ Kind[c[1]] \in Blockers(Kind[c[2]])
    /\ ~(Scheduler /\ "backup" \in {Kind[c[1]], Kind[c[2]]})}
LateWrites == Faults \cap {"cut", "timeout"} # {}
Board == INSTANCE JobBoard WITH
    Jobs <- Jobs, Conflicts <- Conflicts, LateWrites <- LateWrites, status <- status
BoardSpec == Board!Spec
=============================================================================
