----------------------------- MODULE OrbImport -----------------------------
(***************************************************************************)
(* The edge service orb: one process that mirrors what orbital published   *)
(* into its local DGraph.  The poller looks for a newer version and may    *)
(* import it by itself; operators trigger an import by tag or upload a     *)
(* bundle.  Every import drops the local graph and loads another one,      *)
(* records itself in SQLite and offers the other layers to consumers       *)
(* (internal/orbserver/poller.go, import_handlers.go, state.go;            *)
(* internal/orb/importer.go; internal/oci/puller.go, verifier.go).         *)
(***************************************************************************)
EXTENDS Naturals, Sequences

CONSTANTS
    Poller,      \* the poller's own request
    Callers,     \* requests of operators and couriers
    Artifacts,   \* manifests that may be in the registry
    Bundles,     \* zips an operator may upload
    MaxVersion,  \* bound: tags v1 .. v<MaxVersion>
    MaxImports,  \* bound: imports recorded, and process restarts
    AutoImport,  \* ORB_AUTO_IMPORT
    TagsMove,    \* TRUE: a signed version may be pushed over (overlapping publishes)
    Racing,      \* TRUE: requests may meet between the check and setRunning
    Faults,      \* see FaultKinds
    None         \* no artifact; in graph: a part of one

Handlers == Callers \cup {Poller}

\* fetch: a pull or a verification errors.  dgraph: drop_all, the schema or
\* dgraph live errors.  consumer: a dispatch fails.  sqlite: a history write
\* fails.  restart: the process restarts between imports; crash: at any time.
FaultKinds == {"fetch", "dgraph", "consumer", "sqlite", "restart", "crash"}

ASSUME OrbImportAssumption ==
    /\ Poller \notin Callers
    /\ Artifacts \cap Bundles = {}
    /\ None \notin Artifacts \cup Bundles
    /\ MaxVersion \in Nat /\ MaxImports \in Nat
    /\ AutoImport \in BOOLEAN /\ Racing \in BOOLEAN /\ TagsMove \in BOOLEAN
    /\ Faults \subseteq FaultKinds

VARIABLES
    tags, signed, known,       \* the registry: pairs <<n, artifact>>; the
                               \* signed artifacts; those ever pushed
    status, current, available,\* importState, in memory
    pc, kind, want, got,       \* the import requests and their goroutines
    ok,                        \* FALSE once a dispatch of this import failed
    graph,                     \* the local DGraph: whose nodes it holds
    hist,                      \* the import records, oldest first
    restarts

regVars   == <<tags, signed, known>>
stateVars == <<status, current, available>>
reqVars   == <<pc, kind, want, got, ok>>
diskVars  == <<graph, hist>>
vars == <<regVars, stateVars, reqVars, diskVars, restarts>>

Contents == Artifacts \cup Bundles
\* registry: by tag, through the OCI registry.  artifact: a zip with all its
\* layers (importArtifact).  subgraph: a zip of the graph only (importSubgraph).
ImportKinds == {"registry", "artifact", "subgraph"}
Statuses    == {"idle", "running", "done", "partial", "failed"}
Working     == {"pull", "verify", "drop", "schema", "load", "record",
                "dispatch", "finalize", "done", "fail"}
PCs         == Working \cup {"idle", "admitted", "failed"}

\* What a tag says: its version number, 0 when it is not v<n> (a bundle's tag
\* is a time stamp; nothing imported yet), and the content it was given to.
Nothing == [version |-> 0, content |-> None]
Records == [version : 0..MaxVersion, content : Contents, status : {"done", "partial"}]

Init ==
    /\ tags = {} /\ signed = {} /\ known = {}
    /\ status = "idle" /\ current = Nothing /\ available = 0
    /\ pc = [h \in Handlers |-> "idle"]
    /\ kind = [h \in Handlers |-> "registry"]
    /\ want = [h \in Handlers |-> 0]
    /\ got = [h \in Handlers |-> None]
    /\ ok = [h \in Handlers |-> TRUE]
    /\ graph = {} /\ hist = <<>>
    /\ restarts = 0

-----------------------------------------------------------------------------
(* The registry, as orbital moves it (ArtifactPublish).                    *)

Tagged == {t[2] : t \in tags}

\* A manifest is pushed, once, under a version it takes over if it was in use.
RegistryPush(n, a) ==
    /\ a \notin known
    /\ known' = known \cup {a}
    /\ TagsMove \/ \A t \in tags : t[1] = n => t[2] \notin signed
    /\ tags' = {t \in tags : t[1] # n} \cup {<<n, a>>}
    /\ UNCHANGED signed
RegistrySign(a) == a \in Tagged /\ signed' = signed \cup {a} /\ UNCHANGED <<tags, known>>
\* The rollback of a manifest that could not be signed.
RegistryDelete(a) ==
    /\ a \in Tagged /\ a \notin signed
    /\ tags' = {t \in tags : t[2] # a}
    /\ UNCHANGED <<signed, known>>

RegistryStep ==
    \E a \in Artifacts : \/ \E n \in 1..MaxVersion : RegistryPush(n, a)
                         \/ RegistrySign(a) \/ RegistryDelete(a)
Registry == RegistryStep /\ UNCHANGED <<stateVars, reqVars, diskVars, restarts>>

-----------------------------------------------------------------------------
(* Admission of an import.                                                 *)

Goto(h, next) == pc' = [pc EXCEPT ![h] = next]

Free(h) == pc[h] \in {"idle", "failed"}
\* A gate that trusts the buttons of the page.
GateOpen == Racing \/ \A h \in Handlers : pc[h] # "admitted"
\* The gate of every import: snapshot().Status # "running".
Gate == /\ status # "running"
        /\ Racing \/ \A h \in Handlers : pc[h] # "admitted"

Admit(h, k, n, c) ==
    /\ Free(h)
    /\ Gate
    /\ Goto(h, "admitted")
    /\ kind' = [kind EXCEPT ![h] = k]
    /\ want' = [want EXCEPT ![h] = n]
    /\ got' = [got EXCEPT ![h] = c]
    /\ ok' = [ok EXCEPT ![h] = TRUE]

\* POST /import with a tag.
TriggerImport(h, n) ==
    /\ h \in Callers
    /\ Admit(h, "registry", n, None)
    /\ UNCHANGED <<regVars, stateVars, diskVars, restarts>>

\* POST /import/artifact or /import/subgraph: the check comes first, then the
\* whole body is read, and only then the state is set to running.
Upload(h, k, b) ==
    /\ h \in Callers
    /\ Admit(h, k, 0, b)
    /\ UNCHANGED <<regVars, stateVars, diskVars, restarts>>

\* highestVersionTag: 0 when the registry has no v<n>.
IsHighest(n) == n \in {0} \cup {t[1] : t \in tags} /\ \A t \in tags : t[1] <= n

\* poll, up to startImport; the poller keeps what it knew when listing fails.
\* A courier's tag is no version, so any version is newer than it.
Poll == \E n \in 0..MaxVersion :
    LET newer == n > current.version
    IN  /\ IsHighest(n)
        /\ available' = IF newer THEN n ELSE 0
        /\ IF newer /\ AutoImport /\ Free(Poller) /\ Gate
           THEN Admit(Poller, "registry", n, None)
           ELSE UNCHANGED reqVars
        /\ UNCHANGED <<regVars, status, current, diskVars, restarts>>

\* setRunning; the goroutine starts.
Begin(h) ==
    /\ pc[h] = "admitted"
    /\ status' = "running"
    /\ Goto(h, IF kind[h] = "registry" THEN "pull" ELSE "drop")
    /\ UNCHANGED <<regVars, current, available, kind, want, got, ok, diskVars, restarts>>

-----------------------------------------------------------------------------
(* The import goroutine.                                                   *)

\* A step of h's goroutine that changes nothing but its own state.
Moves(h, here, next) ==
    /\ pc[h] = here /\ Goto(h, next)
    /\ UNCHANGED <<regVars, stateVars, kind, want, restarts>>

\* oci.Pull resolves the tag and copies the manifest it names just then.
Pull(h) ==
    /\ \/ \E a \in Artifacts : /\ <<want[h], a>> \in tags
                               /\ got' = [got EXCEPT ![h] = a]
                               /\ Moves(h, "pull", "verify")
       \/ /\ "fetch" \in Faults \/ \A a \in Artifacts : <<want[h], a>> \notin tags
          /\ Moves(h, "pull", "fail") /\ UNCHANGED got
    /\ UNCHANGED <<ok, diskVars>>

\* A verification that warns and goes on.
VerifySkipped(h) == Moves(h, "verify", "drop") /\ UNCHANGED <<got, ok, diskVars>>
\* oci.Verify asks for the signatures of the digest that was pulled.
Verify(h) ==
    /\ \/ got[h] \in signed /\ Moves(h, "verify", "drop")
       \/ /\ got[h] \notin signed \/ "fetch" \in Faults
          /\ Moves(h, "verify", "fail")
    /\ UNCHANGED <<got, ok, diskVars>>

\* A load into the graph that is there.
DropNothing(h) == Moves(h, "drop", "schema") /\ UNCHANGED <<got, ok, diskVars>>
DropAll(h) ==
    /\ \/ graph' = {} /\ Moves(h, "drop", "schema")
       \/ "dgraph" \in Faults /\ UNCHANGED graph /\ Moves(h, "drop", "fail")
    /\ UNCHANGED <<got, ok, hist>>

ApplySchema(h) ==
    /\ \/ Moves(h, "schema", "load")
       \/ "dgraph" \in Faults /\ Moves(h, "schema", "fail")
    /\ UNCHANGED <<got, ok, diskVars>>

\* dgraph live; one that fails may have loaded part of the data.
LoadData(h) ==
    /\ \/ graph' = graph \cup {got[h]} /\ Moves(h, "load", "record")
       \/ /\ "dgraph" \in Faults
          /\ graph' \in {graph, graph \cup {None}}
          /\ Moves(h, "load", "fail")
    /\ UNCHANGED <<got, ok, hist>>

\* recordHistory: a new row, done; a failure is a warning.
RecordHistory(h) ==
    /\ \/ /\ Len(hist) < MaxImports
          /\ hist' = Append(hist, [version |-> want[h], content |-> got[h], status |-> "done"])
       \/ "sqlite" \in Faults /\ UNCHANGED hist
    /\ Moves(h, "record", IF kind[h] = "subgraph" THEN "done" ELSE "dispatch")
    /\ UNCHANGED <<got, ok, graph>>

\* Every extra layer goes to every consumer; importArtifact does not count the
\* failures.
Dispatch(h) ==
    /\ \/ UNCHANGED ok
       \/ "consumer" \in Faults /\ kind[h] = "registry" /\ ok' = [ok EXCEPT ![h] = FALSE]
    /\ Moves(h, "dispatch", "finalize")
    /\ UNCHANGED <<got, diskVars>>

\* The goroutine ends; what it held is gone.
Ends(h, how) ==
    /\ Goto(h, how)
    /\ kind' = [kind EXCEPT ![h] = "registry"]
    /\ got' = [got EXCEPT ![h] = None]
    /\ ok' = [ok EXCEPT ![h] = TRUE]

Outcome(h) == IF ok[h] THEN "done" ELSE "partial"

\* An outcome that stays in memory.
FinalizeNothing(h) == Moves(h, "finalize", "done") /\ UNCHANGED <<got, ok, diskVars>>
\* An outcome named after importState's failures.
FinalizeFailed(h) ==
    /\ hist' = IF hist = <<>> THEN hist
               ELSE [hist EXCEPT ![Len(hist)].status = IF ok[h] THEN "done" ELSE "failed"]
    /\ Moves(h, "finalize", "done")
    /\ UNCHANGED <<got, ok, graph>>
\* FinalizeLastHistory: the status of the newest row, whoever wrote it.  An
\* uploaded artifact without extra layers is not finalized.
Finalize(h) ==
    /\ \/ hist' = IF hist = <<>> THEN hist
                  ELSE [hist EXCEPT ![Len(hist)].status = Outcome(h)]
       \/ ("sqlite" \in Faults \/ kind[h] = "artifact") /\ UNCHANGED hist
    /\ Moves(h, "finalize", "done")
    /\ UNCHANGED <<got, ok, graph>>

SetDone(h) ==
    /\ pc[h] = "done" /\ Ends(h, "idle")
    /\ status' = Outcome(h)
    /\ current' = [version |-> want[h], content |-> got[h]]
    /\ available' = 0
    /\ UNCHANGED <<regVars, want, diskVars, restarts>>

\* A failure that is logged and leaves the state running.
SetFailedStuck(h) ==
    /\ pc[h] = "fail" /\ Ends(h, "failed")
    /\ UNCHANGED <<regVars, stateVars, want, diskVars, restarts>>
\* The version shown stays the last one that was imported successfully.
SetFailed(h) ==
    /\ pc[h] = "fail" /\ Ends(h, "failed")
    /\ status' = "failed"
    /\ UNCHANGED <<regVars, current, available, want, diskVars, restarts>>

Recorded(i) == [version |-> hist[i].version, content |-> hist[i].content]
Done        == {i \in DOMAIN hist : hist[i].status = "done"}
\* hydrateFromHistory: the newest record whose status is done.
Hydrated ==
    LET last == {i \in Done : \A k \in Done : k <= i}
    IN  IF last = {} THEN Nothing ELSE Recorded(CHOOSE i \in last : TRUE)

\* The process stops, in mid-import after a crash, and starts again.
Restart ==
    /\ restarts < MaxImports
    /\ \/ "crash" \in Faults
       \/ "restart" \in Faults /\ \A h \in Handlers : Free(h)
    /\ restarts' = restarts + 1
    /\ pc' = [h \in Handlers |-> "idle"]
    /\ kind' = [h \in Handlers |-> "registry"]
    /\ want' = [h \in Handlers |-> 0]
    /\ got' = [h \in Handlers |-> None]
    /\ ok' = [h \in Handlers |-> TRUE]
    /\ status' = "idle" /\ current' = Hydrated /\ available' = 0
    /\ UNCHANGED <<regVars, diskVars>>

Work(h) ==
    \/ Begin(h) \/ Pull(h) \/ Verify(h) \/ DropAll(h) \/ ApplySchema(h)
    \/ LoadData(h) \/ RecordHistory(h) \/ Dispatch(h) \/ Finalize(h)
    \/ SetDone(h) \/ SetFailed(h)

OrbNext ==
    \/ \E h \in Handlers : Work(h)
    \/ \E h \in Callers : \/ \E n \in 1..MaxVersion : TriggerImport(h, n)
                          \/ \E b \in Bundles, k \in {"artifact", "subgraph"} : Upload(h, k, b)
    \/ Poll \/ Restart

Next == OrbNext \/ Registry

Spec == Init /\ [][Next]_vars

\* The poller's ticker fires and an import that began goes on.
OrbFairness == WF_vars(Poll) /\ \A h \in Handlers : WF_vars(Work(h))
FairSpec == Spec /\ OrbFairness

-----------------------------------------------------------------------------
(* Properties.                                                             *)

TypeOK ==
    /\ tags \in SUBSET ((1..MaxVersion) \X Artifacts)
    /\ signed \in SUBSET Artifacts /\ known \in SUBSET Artifacts
    /\ status \in Statuses
    /\ current \in [version : 0..MaxVersion, content : Contents \cup {None}]
    /\ available \in 0..MaxVersion
    /\ pc \in [Handlers -> PCs]
    /\ kind \in [Handlers -> ImportKinds]
    /\ want \in [Handlers -> 0..MaxVersion]
    /\ got \in [Handlers -> Contents \cup {None}]
    /\ ok \in [Handlers -> BOOLEAN]
    /\ graph \in SUBSET (Contents \cup {None})
    /\ hist \in Seq(Records)
    /\ restarts \in 0..MaxImports

InProgress(h) == pc[h] \in Working

\* One import at a time works on the local DGraph (the state machine gate that
\* FinalizeLastHistory relies on).
OneImport == \A h, i \in Handlers : InProgress(h) /\ InProgress(i) => h = i

\* The signature is the trust boundary: whatever came through the registry and
\* is in the graph was signed, though its tag may have moved since the pull.
OnlySigned == graph \cap Artifacts \subseteq signed

\* When the status page shows a finished import, the graph holds that version,
\* whole, and nothing of another one.
ShownIsLoaded ==
    status \in {"done", "partial"} /\ (\A h \in Handlers : Free(h))
        => graph = {current.content}

\* The newest import record is the import on the status page, with its outcome.
HistoryIsShown ==
    status \in {"done", "partial"} /\ (\A h \in Handlers : Free(h))
        => /\ hist # <<>>
           /\ hist[Len(hist)] = [version |-> current.version,
                                 content |-> current.content, status |-> status]

\* With automatic imports, an edge ends up with the highest version of the
\* registry once that version is there for good, and signed.
HighestReady == \E t \in tags : IsHighest(t[1]) /\ t[2] \in signed
UpToDate     == \E t \in tags : /\ IsHighest(t[1])
                                /\ current = [version |-> t[1], content |-> t[2]]
                                /\ graph = {t[2]}
CatchesUp == <>[]HighestReady => <>[]UpToDate
=============================================================================
