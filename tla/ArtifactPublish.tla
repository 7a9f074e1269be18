-------------------------- MODULE ArtifactPublish --------------------------
(***************************************************************************)
(* The tail of an export: the zip on disk, the registry_artifacts row, the *)
(* push of a tagged manifest to the OCI repository of one data center, its *)
(* signature, and what is undone when a step fails (runExport in           *)
(* internal/handler/export.go, PublishExportedJob and DeleteArtifact in    *)
(* internal/handler/oci.go, Publish in internal/oci/publisher.go).         *)
(*                                                                         *)
(* How a job is admitted, claimed and reaped is JobLease; here one export  *)
(* at a time has a running row.  A manifest is named by its job: its       *)
(* annotations hold the job's id, so no two jobs share a digest.           *)
(***************************************************************************)
EXTENDS Naturals

CONSTANTS
    Jobs,         \* the exports of this data center
    Download,     \* those triggered with download=true (or without OCI)
    Overlapping,  \* TRUE: an export may run while another one publishes
    Faults,       \* see FaultKinds
    None          \* no manifest

\* timeout: a job outlives its context.  db: a PostgreSQL write fails.
\* registry: the registry refuses the tag or the delete of a manifest it took.
\* crash: the process dies.
FaultKinds == {"timeout", "db", "registry", "crash"}

ASSUME ArtifactPublishAssumption ==
    /\ Download \subseteq Jobs
    /\ Overlapping \in BOOLEAN
    /\ Faults \subseteq FaultKinds
    /\ None \notin Jobs

VARIABLES
    row, path,           \* the export row: its status, artifact_path set or not
    zip,                 \* the zip is on disk
    art, tag,            \* the artifact row: its status, its v<n>
    pc, live,            \* the job's goroutine and its context
    pushed, signed,      \* registry: manifests it holds, those with a signature
    tags, latest         \* registry: pairs <<n, manifest>> for v<n>; :latest

jobVars == <<row, path, zip, pc, live>>
artVars == <<art, tag>>
regVars == <<pushed, signed, tags, latest>>
vars    == <<jobVars, artVars, regVars>>

\* "open" stands for pending, bundling, pushing and signing: what setPhase
\* writes between them is progress for the UI.
ArtStatuses == {"absent", "open", "completed", "failed"}
RowStatuses == {"absent", "running", "completed", "failed"}
\* Where a goroutine is once its row is completed and its publish not over.
Publishing  == {"tag", "insert", "bundle", "push", "latest", "sign", "unsign",
                "record", "recordFailure"}
PCs == Publishing \cup {"idle", "export", "commit", "fail", "cleanup", "end", "dead"}

Init ==
    /\ row = [j \in Jobs |-> "absent"]
    /\ path = [j \in Jobs |-> FALSE]
    /\ zip = [j \in Jobs |-> FALSE]
    /\ art = [j \in Jobs |-> "absent"]
    /\ tag = [j \in Jobs |-> 0]
    /\ pc = [j \in Jobs |-> "idle"]
    /\ live = [j \in Jobs |-> TRUE]
    /\ pushed = {} /\ signed = {} /\ tags = {} /\ latest = None

Goto(j, next) == pc' = [pc EXCEPT ![j] = next]

\* A write that fails only when PostgreSQL does (a detached context).
Written(old, new) == new \/ ("db" \in Faults /\ old)
\* A write on the job's context.
WrittenInCtx(j, old, new) == \/ live[j] /\ new
                             \/ (~live[j] \/ "db" \in Faults) /\ old

-----------------------------------------------------------------------------
(* The export and its zip.                                                 *)

\* Trigger, claim: the row is running.  Nothing in Trigger looks at publishes.
Trigger(j) ==
    /\ row[j] = "absent"
    /\ \A i \in Jobs : row[i] # "running"
    /\ Overlapping \/ \A i \in Jobs : pc[i] \in {"idle", "end", "dead"}
    /\ row' = [row EXCEPT ![j] = "running"]
    /\ Goto(j, "export")
    /\ UNCHANGED <<path, zip, live, artVars, regVars>>

\* doExport up to writeZip.
WriteZip(j) ==
    /\ pc[j] = "export"
    /\ \/ zip' = [zip EXCEPT ![j] = TRUE] /\ Goto(j, "commit")
       \/ Goto(j, "fail") /\ UNCHANGED zip
    /\ UNCHANGED <<row, path, live, artVars, regVars>>

\* The terminal write: status and artifact_path together, on the job's context.
Commit(j) ==
    /\ pc[j] = "commit"
    /\ WrittenInCtx(j,
         UNCHANGED <<row, path>> /\ Goto(j, "fail"),
         /\ row' = [row EXCEPT ![j] = "completed"]
         /\ path' = [path EXCEPT ![j] = TRUE]
         /\ Goto(j, IF j \in Download THEN "end" ELSE "tag"))
    /\ UNCHANGED <<zip, live, artVars, regVars>>

\* markFailed.
MarkFailed(j) ==
    /\ pc[j] = "fail"
    /\ Written(UNCHANGED row, row' = [row EXCEPT ![j] = "failed"])
    /\ Goto(j, "cleanup")
    /\ UNCHANGED <<path, zip, live, artVars, regVars>>

\* runExport's deferred cleanup: only a zip whose path was committed is removed.
Cleanup(j) ==
    /\ pc[j] = "cleanup"
    /\ \/ /\ zip' = [zip EXCEPT ![j] = @ /\ ~path[j]]
          /\ Written(UNCHANGED path, path' = [path EXCEPT ![j] = FALSE])
       \/ "db" \in Faults /\ UNCHANGED <<zip, path>>
    /\ Goto(j, "end")
    /\ UNCHANGED <<row, live, artVars, regVars>>

\* DELETE /export/jobs/{id}/artifact: nothing checks that a publish reads it.
DeleteArtifact(j) ==
    /\ path[j]
    /\ zip' = [zip EXCEPT ![j] = FALSE]
    /\ Written(UNCHANGED path, path' = [path EXCEPT ![j] = FALSE])
    /\ UNCHANGED <<row, pc, live, artVars, regVars>>

-----------------------------------------------------------------------------
(* The publish.                                                            *)

Completed == {j \in Jobs : art[j] = "completed"}
\* The tag numbers of completed rows; 0 stands for "no artifact yet".
Taken == {tag[j] : j \in Completed} \cup {0}

\* Numbering over every row, whatever became of it.
NextTagAnyRow(j) ==
    /\ pc[j] = "tag"
    /\ \E n \in {tag[i] : i \in Jobs} :
         /\ \A i \in Jobs : tag[i] <= n
         /\ tag' = [tag EXCEPT ![j] = n + 1]
    /\ Goto(j, "insert")
    /\ UNCHANGED <<row, path, zip, live, art, regVars>>
\* nextTagForJob: one more than the highest tag of a completed row.
NextTag(j) ==
    /\ pc[j] = "tag"
    /\ \/ /\ live[j] /\ path[j] /\ zip[j]
          /\ \E n \in Taken : /\ \A m \in Taken : m <= n
                              /\ tag' = [tag EXCEPT ![j] = n + 1]
          /\ Goto(j, "insert")
       \/ /\ ~live[j] \/ "db" \in Faults \/ ~path[j] \/ ~zip[j]
          /\ Goto(j, "fail") /\ UNCHANGED tag
    /\ UNCHANGED <<row, path, zip, live, art, regVars>>

InsertRow(j) ==
    /\ pc[j] = "insert"
    /\ WrittenInCtx(j, UNCHANGED art /\ Goto(j, "fail"),
                       art' = [art EXCEPT ![j] = "open"] /\ Goto(j, "bundle"))
    /\ UNCHANGED <<row, path, zip, live, tag, regVars>>

\* Waiting for bundlers without a deadline.
BundleHangs(j) ==
    /\ pc[j] = "bundle" /\ live[j]
    /\ Goto(j, "push") \/ Goto(j, "recordFailure")
    /\ UNCHANGED <<row, path, zip, live, artVars, regVars>>
\* All bundlers answer, or the publish fails before anything is pushed.
Bundle(j) ==
    /\ pc[j] = "bundle"
    /\ (live[j] /\ Goto(j, "push")) \/ Goto(j, "recordFailure")
    /\ UNCHANGED <<row, path, zip, live, artVars, regVars>>

\* Unpack the zip and copy the manifest to the registry under its tag.
Push(j) ==
    /\ pc[j] = "push"
    /\ \/ /\ live[j] /\ zip[j]
          /\ pushed' = pushed \cup {j}
          /\ tags' = {t \in tags : t[1] # tag[j]} \cup {<<tag[j], j>>}
          /\ Goto(j, "latest")
       \/ Goto(j, "recordFailure") /\ UNCHANGED <<pushed, tags>>
    /\ UNCHANGED <<row, path, zip, live, artVars, signed, latest>>

\* Move :latest, before the signature; a failure is a warning.
TagLatest(j) ==
    /\ pc[j] = "latest"
    /\ \/ live[j] /\ latest' = j
       \/ (~live[j] \/ "registry" \in Faults) /\ UNCHANGED latest
    /\ Goto(j, "sign")
    /\ UNCHANGED <<row, path, zip, live, artVars, pushed, signed, tags>>

\* A signing error that is only logged.
SignIgnored(j) ==
    /\ pc[j] = "sign"
    /\ (signed' = signed \cup {j}) \/ UNCHANGED signed
    /\ Goto(j, "record")
    /\ UNCHANGED <<row, path, zip, live, artVars, pushed, tags, latest>>
\* cosign has a deadline of its own: it does not see the job's context.
Sign(j) ==
    /\ pc[j] = "sign"
    /\ \/ signed' = signed \cup {j} /\ Goto(j, "record")
       \/ Goto(j, "unsign") /\ UNCHANGED signed
    /\ UNCHANGED <<row, path, zip, live, artVars, pushed, tags, latest>>

\* A rollback that is skipped.
KeepUnsigned(j) ==
    /\ pc[j] = "unsign"
    /\ Goto(j, "recordFailure")
    /\ UNCHANGED <<row, path, zip, live, artVars, regVars>>
\* deleteManifest: by digest, and the tags that refer to it go with it.
Unsign(j) ==
    /\ pc[j] = "unsign"
    /\ \/ /\ live[j]
          /\ pushed' = pushed \ {j}
          /\ tags' = {t \in tags : t[2] # j}
          /\ latest' = IF latest = j THEN None ELSE latest
       \/ (~live[j] \/ "registry" \in Faults) /\ UNCHANGED <<pushed, tags, latest>>
    /\ Goto(j, "recordFailure")
    /\ UNCHANGED <<row, path, zip, live, artVars, signed>>

\* Recording the completion once pushed, without waiting for the signature.
RecordUnsigned(j) ==
    /\ pc[j] \in {"sign", "record"}
    /\ art' = [art EXCEPT ![j] = "completed"]
    /\ Goto(j, "cleanup")
    /\ UNCHANGED <<row, path, zip, live, tag, regVars>>
\* The artifact row is completed; a failure is logged, and the publish counts
\* as successful all the same.
Record(j) ==
    /\ pc[j] = "record"
    /\ WrittenInCtx(j, UNCHANGED art, art' = [art EXCEPT ![j] = "completed"])
    /\ Goto(j, "cleanup")
    /\ UNCHANGED <<row, path, zip, live, tag, regVars>>

\* A failure that is returned and not recorded.
ForgetFailure(j) ==
    /\ pc[j] = "recordFailure"
    /\ Goto(j, "fail")
    /\ UNCHANGED <<row, path, zip, live, artVars, regVars>>
\* A failed publish given the export row's unused status.
RecordStale(j) ==
    /\ pc[j] = "recordFailure"
    /\ art' = [art EXCEPT ![j] = IF @ = "open" THEN "stale" ELSE @]
    /\ Goto(j, "fail")
    /\ UNCHANGED <<row, path, zip, live, tag, regVars>>
\* The artifact row is failed, on the job's context, before the error returns.
RecordFailure(j) ==
    /\ pc[j] = "recordFailure"
    /\ WrittenInCtx(j, UNCHANGED art, art' = [art EXCEPT ![j] = "failed"])
    /\ Goto(j, "fail")
    /\ UNCHANGED <<row, path, zip, live, tag, regVars>>

Timeout(j) ==
    /\ "timeout" \in Faults
    /\ pc[j] \notin {"idle", "end", "dead"} /\ live[j]
    /\ live' = [live EXCEPT ![j] = FALSE]
    /\ UNCHANGED <<row, path, zip, pc, artVars, regVars>>

\* The goroutine dies with its process; a running row is failed by the reaper.
Crash(j) ==
    /\ "crash" \in Faults
    /\ pc[j] \notin {"idle", "end", "dead"}
    /\ Goto(j, "dead")
    /\ row' = [row EXCEPT ![j] = IF @ = "running" THEN "failed" ELSE @]
    /\ UNCHANGED <<path, zip, live, artVars, regVars>>

Step(j) ==
    \/ WriteZip(j) \/ Commit(j) \/ MarkFailed(j) \/ Cleanup(j)
    \/ NextTag(j) \/ InsertRow(j) \/ Bundle(j) \/ Push(j) \/ TagLatest(j)
    \/ Sign(j) \/ Unsign(j) \/ Record(j) \/ RecordFailure(j)

Next == \E j \in Jobs :
    Trigger(j) \/ Step(j) \/ DeleteArtifact(j) \/ Timeout(j) \/ Crash(j)

Spec == Init /\ [][Next]_vars

\* A job's goroutine runs until it ends or its process dies.
FairSpec == Spec /\ \A j \in Jobs : WF_vars(Step(j))

-----------------------------------------------------------------------------
(* Properties.                                                             *)

TypeOK ==
    /\ row \in [Jobs -> RowStatuses]
    /\ path \in [Jobs -> BOOLEAN]
    /\ zip \in [Jobs -> BOOLEAN]
    /\ art \in [Jobs -> ArtStatuses]
    /\ tag \in [Jobs -> Nat]
    /\ pc \in [Jobs -> PCs]
    /\ live \in [Jobs -> BOOLEAN]
    /\ pushed \in SUBSET Jobs
    /\ signed \in SUBSET Jobs
    /\ tags \in SUBSET (Nat \X Jobs)
    /\ latest \in Jobs \cup {None}

\* A version of the publish history is the artifact its tag resolves to, and
\* that artifact is signed: whatever other publishes did before or after it, a
\* client that asks for v<n> gets what the completed row says (ListArtifacts,
\* and the preview that pulls the last completed version).
HistoryResolves ==
    \A j \in Completed :
        /\ j \in pushed /\ j \in signed
        /\ \A i \in Jobs : <<tag[j], i>> \in tags <=> i = j

\* Version numbers of a repository are never given twice.
TagsUnique == \A i, j \in Completed : tag[i] = tag[j] => i = j

Ended(j) == pc[j] = "end"

\* When nothing is being published, :latest is a signed artifact.
LatestIsSigned ==
    (\A j \in Jobs : pc[j] \notin Publishing) /\ latest # None => latest \in signed

\* A publish that failed says so in its row of the publish history.
FailureIsRecorded ==
    \A j \in Jobs : row[j] = "failed" /\ Ended(j) => art[j] \in {"absent", "failed"}

\* An export that ended completed in publish mode is in the registry, signed.
CompletedIsPublished ==
    \A j \in Jobs : row[j] = "completed" /\ Ended(j) /\ j \notin Download
        => j \in pushed /\ j \in signed

\* Every export that starts ends, its publish included.
EveryPublishEnds == \A j \in Jobs : row[j] = "running" ~> pc[j] \in {"end", "dead"}

\* The publish history seen from outside: a log of versions that only grows.
log == [n \in Taken \ {0} |-> {j \in Completed : tag[j] = n}]
Versions == INSTANCE VersionLog WITH Jobs <- Jobs, log <- log
VersionsSpec == Versions!Spec
=============================================================================
