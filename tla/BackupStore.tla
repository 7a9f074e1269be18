---------------------------- MODULE BackupStore ----------------------------
(***************************************************************************)
(* Backups as rows of PostgreSQL and objects of a bucket: the backup's own *)
(* path to its object, retention after it, deletion by hand, and a restore *)
(* that reads an object back and replaces the graph (internal/handler/     *)
(* backup.go, restore.go).                                                 *)
(*                                                                         *)
(* JobLease models how the jobs of several replicas exclude each other; a  *)
(* trigger is one step here, a process that dies is a job that fails, and  *)
(* of the reaper only what it does to a runner that is still there is left *)
(* (Reap).  The name of an object is the second in which its zip was made; *)
(* the zip is made on the disk of the replica.  Data has the name of the   *)
(* backup that exported it: no two exports are equal byte for byte, so a   *)
(* checksum names one backup.                                              *)
(***************************************************************************)
EXTENDS Naturals, FiniteSets

CONSTANTS
    Backups, Restores,  \* rows of the two tables
    Deletes,            \* requests to delete a backup
    MinKeep,            \* ORBITAL_BACKUP_RETENTION_MIN_COUNT
    LastSecond,         \* bound: the clock stops there
    Faults,             \* "stage", "storage", "database", "reaper"
    None

ASSUME BackupStoreAssumption ==
    /\ MinKeep \in Nat \ {0} /\ LastSecond \in Nat \ {0}
    /\ Faults \subseteq {"stage", "storage", "database", "reaper"}
    /\ None \notin Backups
    /\ IsFiniteSet(Backups)

VARIABLES
    row, made, key,      \* backup rows: status, order of creation, object name
    second,              \* the clock
    store,               \* bucket: the backup whose zip an object is
    pc, prune,           \* backups: stage, rows to prune
    rrow, rpc, from, got,\* restores: row, stage, its backup, the zip downloaded
    dpc, target,         \* deletes
    blue, served,        \* the graph: whose data it is, whether its schema is on
    byHand               \* completed backups deleted by hand (of the properties
                         \* only: no program variable holds it)

rowVars     == <<row, made, key, second>>
backupVars  == <<pc, prune>>
restoreVars == <<rrow, rpc, from, got>>
deleteVars  == <<dpc, target>>
graphVars   == <<blue, served>>
vars == <<rowVars, store, backupVars, restoreVars, deleteVars, graphVars, byHand>>

Init ==
    /\ row = [b \in Backups |-> "absent"]
    /\ made = [b \in Backups |-> 0] /\ key = [b \in Backups |-> 0]
    /\ second = 1
    /\ store = [k \in 1..LastSecond |-> None]
    /\ pc = [b \in Backups |-> "idle"]
    /\ prune = [b \in Backups |-> {}]
    /\ rrow = [r \in Restores |-> "absent"] /\ rpc = [r \in Restores |-> "idle"]
    /\ from = [r \in Restores |-> None] /\ got = [r \in Restores |-> None]
    /\ dpc = [d \in Deletes |-> "idle"] /\ target = [d \in Deletes |-> None]
    /\ blue = {None} /\ served = TRUE
    /\ byHand = {}

Goto(b, stage)  == pc' = [pc EXCEPT ![b] = stage]
RGoto(r, stage) == rpc' = [rpc EXCEPT ![r] = stage]
DGoto(d, stage) == dpc' = [dpc EXCEPT ![d] = stage]

Newer(b) == {c \in Backups : made[c] > made[b]}
Completed == {b \in Backups : row[b] = "completed"}
Count == Cardinality({b \in Backups : row[b] # "absent"})

---------------------------------------------------------------------------
\* Admission.
ActiveBackups == {b \in Backups : row[b] = "active"}
NoRestore == \A r \in Restores : rrow[r] # "active"

Insert(b) ==
    /\ row[b] = "absent"
    /\ row' = [row EXCEPT ![b] = "active"]
    /\ made' = [made EXCEPT ![b] = Count + 1]
    /\ Goto(b, "zip")
    /\ UNCHANGED <<key, second, store, prune, restoreVars, deleteVars, graphVars, byHand>>

Trigger(b) == ActiveBackups = {} /\ NoRestore /\ Insert(b)

\* The scheduler looks at backups only, under a lock of its own: a backup may
\* be triggered between its look and its insert.
Fire(b) == Cardinality(ActiveBackups) <= 1 /\ Insert(b)

RestoreTrigger(r, b) ==
    /\ rrow[r] = "absent" /\ ActiveBackups = {} /\ NoRestore /\ row[b] = "completed"
    /\ rrow' = [rrow EXCEPT ![r] = "active"]
    /\ from' = [from EXCEPT ![r] = b]
    /\ RGoto(r, "fetch")
    /\ UNCHANGED <<rowVars, store, backupVars, got, deleteVars, graphVars, byHand>>

---------------------------------------------------------------------------
\* A backup, from the export to its row.
\* Export the graph; the zip gets a name, which the row does not have yet.
Zip(b) ==
    /\ pc[b] = "zip"
    /\ second' \in second..LastSecond
    /\ key' = [key EXCEPT ![b] = second']
    /\ Goto(b, "put")
    /\ UNCHANGED <<row, made, store, prune, restoreVars, deleteVars, graphVars, byHand>>

Put(b) ==
    /\ pc[b] = "put"
    /\ store' = [store EXCEPT ![key[b]] = b]
    /\ Goto(b, "commit")
    /\ UNCHANGED <<rowVars, prune, restoreVars, deleteVars, graphVars, byHand>>

\* The reaper fails the row of a runner whose lease went stale; it runs on.
Reap(b) ==
    /\ "reaper" \in Faults /\ row[b] = "active"
    /\ row' = [row EXCEPT ![b] = "failed"]
    /\ UNCHANGED <<made, key, second, store, backupVars, restoreVars, deleteVars, graphVars, byHand>>

\* Fenced: a row that was reaped or deleted stays as it is.
Commit(b) ==
    /\ pc[b] = "commit" /\ row[b] = "active"
    /\ row' = [row EXCEPT ![b] = "completed"]
    /\ Goto(b, "list")
    /\ UNCHANGED <<made, key, second, store, prune, restoreVars, deleteVars, graphVars, byHand>>

\* A failed backup is put back in the queue.
BackupRequeued(b) ==
    /\ pc[b] \in {"zip", "put", "commit"}
    /\ "stage" \in Faults \/ (pc[b] = "commit" /\ row[b] # "active")
    /\ row' = [row EXCEPT ![b] = "requeued"]
    /\ Goto(b, "end")
    /\ key' = [key EXCEPT ![b] = 0]
    /\ UNCHANGED <<made, second, store, prune, restoreVars, deleteVars, graphVars, byHand>>
\* A stage errors, or the fence stops the commit; the row never gets the key.
BackupFails(b) ==
    /\ pc[b] \in {"zip", "put", "commit"}
    /\ "stage" \in Faults \/ (pc[b] = "commit" /\ row[b] # "active")
    /\ row' = IF row[b] = "active" THEN [row EXCEPT ![b] = "failed"] ELSE row
    /\ Goto(b, "end")
    /\ key' = [key EXCEPT ![b] = 0]
    /\ UNCHANGED <<made, second, store, prune, restoreVars, deleteVars, graphVars, byHand>>

---------------------------------------------------------------------------
\* Retention, by the backup that has just completed.

\* The n rows made first are beyond the retention age.
ExpiredByAge(b, n) == row[b] = "completed" /\ made[b] <= n
Expired(b, n) == /\ row[b] = "completed" /\ made[b] <= n
                 /\ Cardinality(Newer(b) \cap Completed) >= MinKeep

ListOld(b) ==
    /\ pc[b] = "list"
    /\ \E n \in 0..Count : prune' = [prune EXCEPT ![b] = {c \in Backups : Expired(c, n)}]
    /\ Goto(b, IF prune'[b] = {} THEN "end" ELSE "object")
    /\ UNCHANGED <<rowVars, store, restoreVars, deleteVars, graphVars, byHand>>

\* The newest of the list comes first.
Pruned(b, c) == c \in prune[b] /\ Newer(c) \cap prune[b] = {}

Skip(b, c) == /\ prune' = [prune EXCEPT ![b] = @ \ {c}]
              /\ Goto(b, IF prune[b] = {c} THEN "end" ELSE "object")

\* A row goes even if its object could not.
PruneObjectAnyway(b, c) ==
    /\ pc[b] = "object" /\ Pruned(b, c)
    /\ store' \in {[store EXCEPT ![key[c]] = None]} \cup (IF "storage" \in Faults THEN {store} ELSE {})
    /\ Goto(b, "row")
    /\ UNCHANGED <<rowVars, prune, restoreVars, deleteVars, graphVars, byHand>>
\* The object goes first, and a row whose object cannot go stays.
PruneObject(b, c) ==
    /\ pc[b] = "object" /\ Pruned(b, c)
    /\ \/ store' = [store EXCEPT ![key[c]] = None] /\ Goto(b, "row") /\ UNCHANGED prune
       \/ "storage" \in Faults /\ Skip(b, c) /\ UNCHANGED store
    /\ UNCHANGED <<rowVars, restoreVars, deleteVars, graphVars, byHand>>

PruneRow(b, c) ==
    /\ pc[b] = "row" /\ Pruned(b, c)
    /\ row' \in {[row EXCEPT ![c] = "deleted"]} \cup (IF "database" \in Faults THEN {row} ELSE {})
    /\ Skip(b, c)
    /\ UNCHANGED <<made, key, second, store, restoreVars, deleteVars, graphVars, byHand>>

---------------------------------------------------------------------------
\* DELETE /backup/jobs/{id}: refused while the backup is in progress.
DeleteRead(d, b) ==
    /\ dpc[d] = "idle" /\ row[b] \in {"completed", "failed"}
    /\ target' = [target EXCEPT ![d] = b]
    /\ DGoto(d, IF row[b] = "completed" THEN "object" ELSE "row")
    /\ UNCHANGED <<rowVars, store, backupVars, restoreVars, graphVars, byHand>>

\* Here a row goes whether its object does or not.
DeleteObject(d) ==
    /\ dpc[d] = "object"
    /\ store' \in {[store EXCEPT ![key[target[d]]] = None]} \cup (IF "storage" \in Faults THEN {store} ELSE {})
    /\ DGoto(d, "row")
    /\ UNCHANGED <<rowVars, backupVars, restoreVars, target, graphVars, byHand>>

DeleteRow(d) ==
    /\ dpc[d] = "row"
    /\ row' \in {[row EXCEPT ![target[d]] = "deleted"]} \cup (IF "database" \in Faults THEN {row} ELSE {})
    /\ byHand' = IF row[target[d]] = "completed" /\ row' # row THEN byHand \cup {target[d]} ELSE byHand
    /\ DGoto(d, "end") /\ target' = [target EXCEPT ![d] = None]
    /\ UNCHANGED <<made, key, second, store, backupVars, restoreVars, graphVars>>

---------------------------------------------------------------------------
\* A restore.
RestoreEnds(r, outcome) ==
    /\ rrow' = [rrow EXCEPT ![r] = outcome]
    /\ RGoto(r, "end")
    /\ got' = [got EXCEPT ![r] = None] /\ from' = [from EXCEPT ![r] = None]
    /\ UNCHANGED <<rowVars, store, backupVars, deleteVars, graphVars, byHand>>

Step(r, at, next) == /\ rpc[r] = at /\ RGoto(r, next)
                     /\ UNCHANGED <<rowVars, store, backupVars, rrow, from, deleteVars, byHand>>

\* The backup's row must still be there, and an object under its key.
Fetch(r) == /\ Step(r, "fetch", "download") /\ row[from[r]] # "deleted"
            /\ UNCHANGED <<got, graphVars>>
Download(r) == /\ Step(r, "download", "verify")
               /\ store[key[from[r]]] # None
               /\ got' = [got EXCEPT ![r] = store[key[from[r]]]]
               /\ UNCHANGED graphVars

\* Whatever was downloaded is restored.
VerifyAny(r) == Step(r, "verify", "drop") /\ UNCHANGED <<got, graphVars>>
\* The checksum in the row is of the zip that this backup wrote.
Verify(r) == Step(r, "verify", "drop") /\ got[r] = from[r] /\ UNCHANGED <<got, graphVars>>

\* drop_all takes the GraphQL schema with it.
DropAll(r) == /\ Step(r, "drop", "load")
              /\ blue' = {} /\ served' = FALSE /\ UNCHANGED got
RunLive(r) == /\ Step(r, "load", "schema")
              /\ blue' = blue \cup {got[r]} /\ UNCHANGED <<got, served>>
ApplySchema(r) == /\ Step(r, "schema", "finish")
                  /\ served' = TRUE /\ UNCHANGED <<got, blue>>

Finish(r) == rpc[r] = "finish" /\ RestoreEnds(r, "completed")

\* A stage fails: what it needs is not there, or its call errors.
Wanting(r) == \/ rpc[r] = "fetch" /\ row[from[r]] = "deleted"
              \/ rpc[r] = "download" /\ store[key[from[r]]] = None
              \/ rpc[r] = "verify" /\ got[r] # from[r]
RestoreFails(r) ==
    /\ rpc[r] \notin {"idle", "end", "finish"}
    /\ Wanting(r) \/ "stage" \in Faults
    /\ RestoreEnds(r, "failed")

---------------------------------------------------------------------------
Next ==
    \/ \E b \in Backups :
          \/ Trigger(b) \/ Fire(b)
          \/ Zip(b) \/ Put(b) \/ Reap(b) \/ Commit(b) \/ BackupFails(b)
          \/ ListOld(b) \/ \E c \in Backups : PruneObject(b, c) \/ PruneRow(b, c)
    \/ \E d \in Deletes : (\E b \in Backups : DeleteRead(d, b)) \/ DeleteObject(d) \/ DeleteRow(d)
    \/ \E r \in Restores :
          \/ \E b \in Backups : RestoreTrigger(r, b)
          \/ Fetch(r) \/ Download(r) \/ Verify(r) \/ DropAll(r) \/ RunLive(r)
          \/ ApplySchema(r) \/ Finish(r) \/ RestoreFails(r)

Spec == Init /\ [][Next]_vars
---------------------------------------------------------------------------
TypeOK ==
    /\ row \in [Backups -> {"absent", "active", "completed", "failed", "deleted"}]
    /\ made \in [Backups -> Nat] /\ key \in [Backups -> 0..LastSecond]
    /\ second \in 1..LastSecond
    /\ store \in [1..LastSecond -> Backups \cup {None}]
    /\ pc \in [Backups -> {"idle", "zip", "put", "commit", "list", "object", "row", "end"}]
    /\ prune \in [Backups -> SUBSET Backups]
    /\ rrow \in [Restores -> {"absent", "active", "completed", "failed"}]
    /\ rpc \in [Restores -> {"idle", "fetch", "download", "verify", "drop", "load", "schema", "finish", "end"}]
    /\ from \in [Restores -> Backups \cup {None}] /\ got \in [Restores -> Backups \cup {None}]
    /\ dpc \in [Deletes -> {"idle", "object", "row", "end"}] /\ target \in [Deletes -> Backups \cup {None}]
    /\ blue \in SUBSET (Backups \cup {None}) /\ served \in BOOLEAN
    /\ byHand \in SUBSET Backups

\* A restore that completes leaves the graph with the data of the backup asked
\* for and nothing else, and with its schema: also when two zips were given one
\* name, or an object is replaced or removed while the restore runs.
RestoreIsExact ==
    [][\A r \in Restores : rrow'[r] = "completed" /\ rrow[r] # "completed" =>
          blue = {from[r]} /\ served]_vars

\* Retention, several of them at once and next to deletes and failures, takes a
\* backup only if MinKeep newer ones completed and are still there (unless they
\* were deleted by hand), and never a row whose object it leaves behind.
RetentionIsSafe ==
    [][\A b, c \in Backups : Pruned(b, c) =>
          /\ pc[b] = "object" /\ pc'[b] = "row"
                => Cardinality(Newer(c) \cap (Completed \cup byHand)) >= MinKeep
          /\ pc[b] = "row" /\ row'[c] # row[c] => store[key[c]] # c]_vars
=============================================================================
