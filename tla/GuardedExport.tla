--------------------------- MODULE GuardedExport ---------------------------
(***************************************************************************)
(* What an operator reviews before an export and what is shipped: the      *)
(* preview of a data center against its last published artifact, the       *)
(* export that must find the state the preview showed, and the comparison  *)
(* they rest on, which meets one graph in two wire shapes (internal/       *)
(* graphdiff, internal/handler/export_preview.go, export_compare.go and    *)
(* the admission and the reads of export.go).                              *)
(*                                                                         *)
(* JobLease has the scratch DGraph and the replicas, ArtifactPublish the   *)
(* registry: here an admission is one step, a publish is one step, and an  *)
(* artifact is the graph whose native export it holds.  An item keeps its  *)
(* type, which goes with its orbId; the hash of a snapshot is the snapshot.*)
(***************************************************************************)
EXTENDS Naturals, Sequences

CONSTANTS
    Items,              \* orbIds of the data center's namespace
    Elsewhere, Space,   \* a node of another namespace; the Namespace, with its
                        \* data center, which nobody deletes
    Vals, Flags,        \* values of an item's scalar; those that are booleans
    First, Batches,     \* graphs to begin with; what a restore loads at once
    Clients, Jobs,
    MaxWrites, MaxRestores, MaxArtifacts,   \* bounds
    Faults,                     \* "stage", "registry"
    None

Nodes == Items \cup {Elsewhere, Space}
Uids  == Nodes \X (0..MaxWrites + MaxRestores)

Versioned == [uid : Uids, val : Vals \cup {None}, ver : Nat \ {0}, refs : SUBSET Uids]
IsGraph(g) == DOMAIN g \subseteq Nodes /\ g \in [DOMAIN g -> Versioned]

\* A boolean of a native export; what stands for an edge out of the subgraph.
Quoted(v) == <<"quoted", v>>
Dangling(t) == <<"uid", t>>

ASSUME GuardedExportAssumption ==
    /\ Elsewhere \notin Items /\ Space \notin Items /\ Elsewhere # Space
    /\ None \notin Nodes \cup Vals /\ Flags \subseteq Vals
    /\ \A D \in SUBSET Nodes : None # D /\ None \notin [D -> Versioned]
    /\ (\A v \in Flags : Quoted(v) \notin Vals) /\ \A u \in Uids : Dangling(u) \notin Items
    /\ MaxWrites \in Nat /\ MaxRestores \in Nat /\ MaxArtifacts \in Nat
    /\ \A g \in First : IsGraph(g) /\ \A i \in DOMAIN g : g[i].uid = <<i, 0>>
    /\ Batches \subseteq SUBSET Nodes /\ Nodes \subseteq UNION Batches
    /\ Faults \subseteq {"stage", "registry"}

VARIABLES
    blue, served,   \* the graph: its nodes by orbId; whether its schema is on
    saved,          \* the backup: a graph, or None
    restoring,      \* whether a restore is under way
    artifacts,      \* published, oldest first
    pc,             \* operators
    seen, base, rows,   \* their preview: subgraph, artifact (0: none), changes
    stage, nodes,       \* export jobs; the subgraph of a job
    reviewed, half,     \* of the properties only: what the operator of a job
                        \* saw; jobs that read a graph without its schema
    writes, restores

graphVars   == <<blue, served, saved, restoring>>
previewVars == <<seen, base, rows>>
jobVars     == <<stage, nodes, reviewed, half>>
vars == <<graphVars, artifacts, pc, previewVars, jobVars, writes, restores>>

---------------------------------------------------------------------------
(* The comparison.  A node has a uid, at most one scalar, a version and     *)
(* edges, which name uids.                                                  *)

Node(uid, val, ver, refs) == [uid |-> uid, val |-> val, ver |-> ver, refs |-> refs]

\* A map of DQL and the fragments of a native export fold predicate by
\* predicate; a native export quotes booleans.
Wire(v, from) == IF from = "export" /\ v \in Flags THEN Quoted(v) ELSE v

Fragments(g, from) ==
    UNION {LET n == g[i] IN
             {<<n.uid, "version", n.ver>>}
             \cup {<<n.uid, "orbId", j>> : j \in {i} \cap Items}
             \cup {<<n.uid, "val", Wire(v, from)>> : v \in {n.val} \ {None}}
             \cup {<<n.uid, "ref", t>> : t \in n.refs} : i \in DOMAIN g}

\* Mutant: the two encodings are not reconciled.
CanonAsIs(x) == x

Canon(x) == IF \E f \in Flags : x = Quoted(f) THEN CHOOSE f \in Flags : x = Quoted(f) ELSE x

Is(frags, pred) == {f \in frags : f[2] = pred}

\* An edge is to an orbId; one that leaves the subgraph keeps its uid.
Target(frags, t) ==
    LET named == {f \in Is(frags, "orbId") : f[1] = t}
    IN  IF named = {} THEN Dangling(t) ELSE (CHOOSE f \in named : TRUE)[3]

\* Of a node without orbId, and of the version, nothing is kept; a predicate
\* without a value is not there.
Folded(frags, u) ==
    LET vals == {Canon(f[3]) : f \in {f \in Is(frags, "val") : f[1] = u}}
        refs == {Target(frags, f[3]) : f \in {f \in Is(frags, "ref") : f[1] = u}}
    IN  [k \in {k \in {"val", "refs"} : (IF k = "val" THEN vals ELSE refs) # {}} |->
            IF k = "val" THEN CHOOSE v \in vals : TRUE ELSE refs]

Snapshot(frags) ==
    [o \in {f[3] : f \in Is(frags, "orbId")} |->
        Folded(frags, (CHOOSE f \in Is(frags, "orbId") : f[3] = o)[1])]

NormalizeCurrent(g) == Snapshot(Fragments(g, "dql"))
NormalizeExport(g)  == Snapshot(Fragments(g, "export"))

Get(n, k) == IF k \in DOMAIN n THEN n[k] ELSE None
Empty == [k \in {} |-> None]
DiffFields(b, c) ==
    {[field |-> k, before |-> Get(b, k), after |-> Get(c, k)] :
        k \in {k \in DOMAIN b \cup DOMAIN c : Get(b, k) # Get(c, k)}}

Row(o, change, b, c) == [orb |-> o, change |-> change, fields |-> DiffFields(b, c)]
Compare(B, C) ==
    {Row(o, "added", Empty, C[o]) : o \in DOMAIN C \ DOMAIN B}
    \cup {Row(o, "removed", B[o], Empty) : o \in DOMAIN B \ DOMAIN C}
    \cup {Row(o, "modified", B[o], C[o]) :
            o \in {o \in DOMAIN B \cap DOMAIN C : DiffFields(B[o], C[o]) # {}}}

---------------------------------------------------------------------------
NoGraph == [i \in {} |-> None]
Named(g, t) == {i \in DOMAIN g : g[i].uid = t}

Init ==
    /\ blue \in First
    /\ served = TRUE /\ saved = None /\ restoring = FALSE
    /\ artifacts = <<>>
    /\ pc = [c \in Clients |-> "idle"]
    /\ seen = [c \in Clients |-> NoGraph] /\ base = [c \in Clients |-> 0]
    /\ rows = [c \in Clients |-> {}]
    /\ stage = [j \in Jobs |-> "absent"] /\ nodes = [j \in Jobs |-> None]
    /\ reviewed = [j \in Jobs |-> None] /\ half = {}
    /\ writes = 0 /\ restores = 0

---------------------------------------------------------------------------
\* Writes of others: GraphQL, so not without a schema.
Written == served /\ writes < MaxWrites /\ writes' = writes + 1
           /\ UNCHANGED <<served, saved, restoring, artifacts, pc, previewVars, jobVars, restores>>

\* The same value again is a new version.
Edit(i, v) == /\ i \in DOMAIN blue /\ Written
              /\ blue' = [blue EXCEPT ![i] = Node(@.uid, v, @.ver + 1, @.refs)]
Link(i, S) == /\ i \in DOMAIN blue /\ Written
              /\ blue' = [blue EXCEPT ![i] = Node(@.uid, @.val, @.ver + 1, {blue[k].uid : k \in S})]
\* DGraph never gives a uid twice.
Fresh(i) == <<i, writes' + restores'>>
Add(i) == /\ i \notin DOMAIN blue /\ Written
          /\ blue' = [k \in DOMAIN blue \cup {i} |-> IF k = i THEN Node(Fresh(i), None, 1, {}) ELSE blue[k]]
Remove(i) == /\ i \in DOMAIN blue /\ Written
             /\ blue' = [k \in DOMAIN blue \ {i} |-> [blue[k] EXCEPT !.refs = @ \ {blue[i].uid}]]

---------------------------------------------------------------------------
\* Backups and restores, as far as an export meets them.
InProgress(j) == stage[j] = "pending"

Backup == /\ saved = None
          /\ saved' = blue
          /\ UNCHANGED <<blue, served, restoring, artifacts, pc, previewVars, jobVars, writes, restores>>

\* drop_all takes the schema too.
RestoreDrop ==
    /\ ~restoring /\ saved # None /\ restores < MaxRestores
    /\ \A j \in Jobs : ~InProgress(j)
    /\ restoring' = TRUE /\ restores' = restores + 1
    /\ blue' = NoGraph /\ served' = FALSE
    /\ UNCHANGED <<saved, artifacts, pc, previewVars, jobVars, writes>>

\* Mutant: the versions of the backup are lost.
LoadedAnew(i) == LET Of(k) == <<k, writes + restores>>
                 IN  Node(Of(i), saved[i].val, 0, {Of(k) : k \in UNION {Named(saved, t) : t \in saved[i].refs}})

\* Loaded in batches; every node gets a new uid.
Loaded(i) == LET Of(k) == <<k, writes + restores>>
             IN  Node(Of(i), saved[i].val, saved[i].ver, {Of(k) : k \in UNION {Named(saved, t) : t \in saved[i].refs}})
RestoreLoad(B) ==
    /\ restoring
    /\ blue' = [i \in DOMAIN blue \cup (B \cap DOMAIN saved) |-> Loaded(i)]
    /\ UNCHANGED <<served, saved, restoring, artifacts, pc, previewVars, jobVars, writes, restores>>

\* The schema comes back with the last of the graph.
RestoreDone == /\ restoring /\ DOMAIN blue = DOMAIN saved
               /\ served' = TRUE /\ restoring' = FALSE
               /\ UNCHANGED <<blue, saved, artifacts, pc, previewVars, jobVars, writes, restores>>
\* A restore that fails leaves what it has loaded.
RestoreFails == /\ restoring /\ "stage" \in Faults
                /\ restoring' = FALSE
                /\ UNCHANGED <<blue, served, saved, artifacts, pc, previewVars, jobVars, writes, restores>>

---------------------------------------------------------------------------
\* POST /export/preview
Goto(c, at, next) == pc[c] = at /\ pc' = [pc EXCEPT ![c] = next]

\* Every request resolves its data center first, by GraphQL.
Resolve(c) ==
    /\ \/ \E at \in {"idle", "reviewed"} : Goto(c, at, "previewing")
       \/ Goto(c, "idle", "exporting")
       \/ Goto(c, "reviewed", "applying")
    /\ served /\ Space \in DOMAIN blue
    /\ UNCHANGED <<graphVars, artifacts, previewVars, jobVars, writes, restores>>

\* The namespace's nodes, and the Namespace node; DQL, with or without a schema.
Subgraph(g) == [i \in DOMAIN g \ {Elsewhere} |-> g[i]]
Readable == Space \in DOMAIN blue

\* Nothing of a preview stays at the server; the client drops it too.
Forget(c) == /\ seen' = [seen EXCEPT ![c] = NoGraph] /\ base' = [base EXCEPT ![c] = 0]
             /\ rows' = [rows EXCEPT ![c] = {}]

PreviewRead(c) ==
    /\ Goto(c, "previewing", "read") /\ Readable
    /\ seen' = [seen EXCEPT ![c] = Subgraph(blue)]
    /\ UNCHANGED <<graphVars, artifacts, base, rows, jobVars, writes, restores>>
PreviewFails(c) ==
    /\ Goto(c, "previewing", "idle") /\ ~Readable /\ Forget(c)
    /\ UNCHANGED <<graphVars, artifacts, jobVars, writes, restores>>

Baseline(k) == IF k = 0 THEN NormalizeExport(NoGraph) ELSE NormalizeExport(artifacts[k].graph)

\* Against the last published artifact, by its digest, if that can be pulled.
PreviewAnswer(c) ==
    /\ Goto(c, "read", "reviewed")
    /\ LET last == Len(artifacts) IN
          /\ base' = [base EXCEPT ![c] = last]
          /\ \/ rows' = [rows EXCEPT ![c] = Compare(Baseline(last), NormalizeCurrent(seen[c]))]
             \/ last # 0 /\ "registry" \in Faults /\ rows' = [rows EXCEPT ![c] = None]
    /\ UNCHANGED <<graphVars, artifacts, seen, jobVars, writes, restores>>

---------------------------------------------------------------------------
\* POST /export
Admissible == ~restoring /\ \A j \in Jobs : ~InProgress(j)

\* 409: something is in progress; the client keeps its preview.
Refused(c) ==
    /\ ~Admissible
    /\ Goto(c, "exporting", "idle") \/ Goto(c, "applying", "reviewed")
    /\ UNCHANGED <<graphVars, artifacts, previewVars, jobVars, writes, restores>>

Reads(j) == half' = IF served THEN half ELSE half \cup {j}

Create(j, g, saw) ==
    /\ stage[j] = "absent"
    /\ stage' = [stage EXCEPT ![j] = "pending"]
    /\ nodes' = [nodes EXCEPT ![j] = g] /\ reviewed' = [reviewed EXCEPT ![j] = saw]

\* Without a hash: the job will read the graph.
Trigger(c, j) ==
    /\ Goto(c, "exporting", "idle") /\ Admissible /\ Create(j, None, None)
    /\ UNCHANGED <<graphVars, artifacts, previewVars, half, writes, restores>>

\* What the graph says of the namespace, whatever its uids and versions.
Outside(g) == {i \in DOMAIN g \cap Items : \E t \in g[i].refs : Named(g, t) \cap Items = {}}
Meaning(g) ==
    {<<i, "exists", i>> : i \in DOMAIN g \cap Items}
    \cup {<<i, "val", g[i].val>> : i \in {i \in DOMAIN g \cap Items : g[i].val # None}}
    \cup UNION {{<<i, "ref", k>> : k \in (UNION {Named(g, t) : t \in g[i].refs}) \cap Items} : i \in DOMAIN g \cap Items}

\* With the hash of a preview, which must be that of the graph; what was read to
\* find out is what the job exports.
Unchanged(c) == Readable /\ NormalizeCurrent(Subgraph(blue)) = NormalizeCurrent(seen[c])
Apply(c, j) ==
    /\ Goto(c, "applying", "idle") /\ Admissible /\ Unchanged(c)
    /\ Create(j, Subgraph(blue), Meaning(seen[c])) /\ Reads(j) /\ Forget(c)
    /\ UNCHANGED <<graphVars, artifacts, writes, restores>>
\* 409: review again.
Conflict(c) ==
    /\ Goto(c, "applying", "idle") /\ Admissible /\ ~Unchanged(c)
    /\ Forget(c)
    /\ UNCHANGED <<graphVars, artifacts, jobVars, writes, restores>>

---------------------------------------------------------------------------
\* The job.
\* Mutant: the job reads the graph also when it was given what was verified.
StartRereads(j) ==
    /\ stage[j] = "pending" /\ served /\ Space \in DOMAIN blue
    /\ nodes' = [nodes EXCEPT ![j] = Subgraph(blue)] /\ Reads(j)
    /\ stage' = [stage EXCEPT ![j] = "completed"]
    /\ UNCHANGED <<graphVars, artifacts, pc, previewVars, reviewed, writes, restores>>

\* Mutant: the job does not resolve its data center by GraphQL.
StartUnresolved(j) ==
    /\ stage[j] = "pending" /\ Readable
    /\ \/ nodes[j] # None /\ UNCHANGED <<nodes, half>>
       \/ nodes[j] = None /\ nodes' = [nodes EXCEPT ![j] = Subgraph(blue)] /\ Reads(j)
    /\ stage' = [stage EXCEPT ![j] = "completed"]
    /\ UNCHANGED <<graphVars, artifacts, pc, previewVars, reviewed, writes, restores>>

Start(j) ==
    /\ stage[j] = "pending" /\ served /\ Space \in DOMAIN blue
    /\ \/ nodes[j] # None /\ UNCHANGED <<nodes, half>>
       \/ nodes[j] = None /\ nodes' = [nodes EXCEPT ![j] = Subgraph(blue)] /\ Reads(j)
    /\ stage' = [stage EXCEPT ![j] = "completed"]
    /\ UNCHANGED <<graphVars, artifacts, pc, previewVars, reviewed, writes, restores>>

\* The row of a job that ended plays no part; a new job may have its name.
End(j) ==
    /\ stage' = [stage EXCEPT ![j] = "absent"] /\ nodes' = [nodes EXCEPT ![j] = None]
    /\ reviewed' = [reviewed EXCEPT ![j] = None] /\ half' = half \ {j}
    /\ UNCHANGED <<graphVars, pc, previewVars, writes, restores>>

Publish(j) ==
    /\ stage[j] = "completed" /\ Len(artifacts) < MaxArtifacts /\ End(j)
    /\ artifacts' = Append(artifacts, [graph |-> nodes[j], reviewed |-> reviewed[j], half |-> j \in half])

JobFails(j) ==
    /\ \/ stage[j] = "pending" /\ ~(served /\ Space \in DOMAIN blue)
       \/ stage[j] = "pending" /\ "stage" \in Faults
       \/ stage[j] = "completed" /\ "registry" \in Faults
    /\ End(j) /\ UNCHANGED artifacts

---------------------------------------------------------------------------
Next ==
    \/ \E i \in Items :
          \/ \E v \in Vals \cup {None} : Edit(i, v)
          \/ \E S \in SUBSET (DOMAIN blue \ {i, Space}) : Link(i, S)
          \/ Add(i) \/ Remove(i)
    \/ Backup \/ RestoreDrop \/ (\E B \in Batches : RestoreLoad(B)) \/ RestoreDone \/ RestoreFails
    \/ \E c \in Clients :
          \/ Resolve(c) \/ PreviewRead(c) \/ PreviewFails(c) \/ PreviewAnswer(c)
          \/ Refused(c) \/ Conflict(c) \/ \E j \in Jobs : Trigger(c, j) \/ Apply(c, j)
    \/ \E j \in Jobs : Start(j) \/ Publish(j) \/ JobFails(j)

Spec == Init /\ [][Next]_vars
---------------------------------------------------------------------------
Stages == {"absent", "pending", "completed"}
TypeOK ==
    /\ IsGraph(blue) /\ served \in BOOLEAN
    /\ saved = None \/ IsGraph(saved)
    /\ restoring \in BOOLEAN
    /\ \A k \in DOMAIN artifacts : IsGraph(artifacts[k].graph)
    /\ pc \in [Clients -> {"idle", "previewing", "read", "reviewed", "exporting", "applying"}]
    /\ \A c \in Clients : IsGraph(seen[c])
    /\ base \in [Clients -> 0..Len(artifacts)]
    /\ stage \in [Jobs -> Stages] /\ half \subseteq Jobs
    /\ \A j \in Jobs : nodes[j] = None \/ IsGraph(nodes[j])
    /\ writes \in 0..MaxWrites /\ restores \in 0..MaxRestores

\* An artifact that was applied with a hash says what its operator was shown,
\* whatever was written or restored between the review and the export.
ShippedIsReviewed ==
    \A k \in DOMAIN artifacts :
        artifacts[k].reviewed # None => Meaning(artifacts[k].graph) = artifacts[k].reviewed

\* No artifact holds what an unfinished or failed restore left in the graph.
ShippedIsWhole == \A k \in DOMAIN artifacts : ~artifacts[k].half

\* What the changes say of one side.
Said(changes, side) ==
    {<<r.orb, "exists", r.orb>> : r \in {r \in changes : r.change = IF side = "before" THEN "removed" ELSE "added"}}
    \cup UNION {UNION {IF f[side] = None THEN {}
                      ELSE IF f.field = "val" THEN {<<r.orb, "val", f[side]>>}
                      ELSE {<<r.orb, "ref", k>> : k \in f[side]} : f \in r.fields} : r \in changes}

\* Changes lead from one graph to the other, and only items that differ have a
\* row; of an item with edges out of its namespace, which have uids, nothing is
\* said.
Exact(changes, g, h) ==
    LET Settled == Items \ (Outside(g) \cup Outside(h))
        Of(M) == {m \in M : m[1] \in Settled}
        G == Of(Meaning(g))
        H == Of(Meaning(h))
    IN  /\ Of(Said(changes, "before")) \subseteq G
        /\ (G \ Of(Said(changes, "before"))) \cup Of(Said(changes, "after")) = H
        /\ {r.orb : r \in changes} \cap Settled = {m[1] : m \in (G \ H) \cup (H \ G)}

\* A preview shows the differences between what was published and the graph, and
\* a comparison those of two artifacts: no change is missing, and new uids, saves
\* without a change and the two encodings of a boolean make none.
DiffsAreExact ==
    /\ \A c \in Clients : pc[c] = "reviewed" /\ rows[c] # None =>
          Exact(rows[c], IF base[c] = 0 THEN NoGraph ELSE artifacts[base[c]].graph, seen[c])
    /\ \A k, l \in DOMAIN artifacts :
          Exact(Compare(Baseline(k), Baseline(l)), artifacts[k].graph, artifacts[l].graph)
=============================================================================
