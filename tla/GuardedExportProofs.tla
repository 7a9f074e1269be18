------------------------ MODULE GuardedExportProofs ------------------------
(* Theorems about GuardedExport, for every namespace, every graph to begin    *)
(* with, and every number of operators, exports, writes and restores.         *)
EXTENDS GuardedExport, SequenceTheorems, TLAPS

-----------------------------------------------------------------------------
(* Types.  What TypeOK leaves to the shape of the values, and what a restore  *)
(* and an export that has read the graph have in hand.                        *)

Shape ==
    /\ \E S : artifacts \in Seq(S)
    /\ nodes = [j \in Jobs |-> nodes[j]] /\ reviewed = [j \in Jobs |-> reviewed[j]]
    /\ seen = [c \in Clients |-> seen[c]]
    /\ restoring => saved # None /\ ~served /\ DOMAIN blue \subseteq DOMAIN saved
    /\ \A j \in Jobs : stage[j] = "completed" => IsGraph(nodes[j])

IInv == TypeOK /\ Shape

LEMMA AppendEffect ==
    ASSUME NEW S, NEW s \in Seq(S), NEW e
    PROVE  /\ \E T : Append(s, e) \in Seq(T)
           /\ Len(Append(s, e)) = Len(s) + 1 /\ Len(s) \in Nat
           /\ DOMAIN s = 1..Len(s) /\ DOMAIN Append(s, e) = 1..Len(s) + 1
           /\ \A k \in 1..Len(s) : Append(s, e)[k] = s[k]
           /\ Append(s, e)[Len(s) + 1] = e
<1>1. s \in Seq(S \cup {e}) /\ e \in S \cup {e}
  <2>1. Len(s) \in Nat /\ s \in [1..Len(s) -> S]
    OBVIOUS
  <2>2. s \in [1..Len(s) -> S \cup {e}]
    BY <2>1
  <2>3. QED BY <2>1, <2>2, IsASeq
<1>2. Append(s, e) \in Seq(S \cup {e})
  BY <1>1, AppendProperties
<1>3. QED BY <1>1, <1>2, AppendProperties

LEMMA GraphIsNotNone ==
    ASSUME NEW g, IsGraph(g)
    PROVE  g # None
BY GuardedExportAssumption DEF IsGraph

LEMMA NoGraphIsGraph == IsGraph(NoGraph)
BY DEF IsGraph, NoGraph

LEMMA SubgraphIsGraph ==
    ASSUME NEW g, IsGraph(g)
    PROVE  IsGraph(Subgraph(g))
BY DEF IsGraph, Subgraph

\* A bound that a counter below it may still reach.
LEMMA OneMore ==
    ASSUME NEW n, NEW max \in Nat, n \in 0..max, n < max
    PROVE  n + 1 \in 0..max
OBVIOUS

LEMMA Counted ==
    ASSUME TypeOK
    PROVE  /\ writes + restores \in 0..MaxWrites + MaxRestores
           /\ writes < MaxWrites => writes + 1 + restores \in 0..MaxWrites + MaxRestores
BY GuardedExportAssumption DEF TypeOK

-----------------------------------------------------------------------------
(* What the actions leave of the graph.                                       *)

LEMMA VersionedFields ==
    ASSUME NEW n \in Versioned
    PROVE  n.ver + 1 \in Nat \ {0} /\ n.uid \in Uids /\ n.val \in Vals \cup {None} /\ n.refs \in SUBSET Uids
BY DEF Versioned

LEMMA LoadedIsTyped ==
    ASSUME TypeOK, IsGraph(saved), NEW i \in DOMAIN saved
    PROVE  Loaded(i) \in Versioned
<1> DEFINE Of(k) == <<k, writes + restores>>
           refs == {Of(k) : k \in UNION {Named(saved, t) : t \in saved[i].refs}}
<1>1. saved[i] \in Versioned /\ DOMAIN saved \subseteq Nodes
  BY DEF IsGraph
<1>2. \A k \in Nodes : Of(k) \in Uids
  BY Counted DEF Uids
<1>3. refs \in SUBSET Uids /\ Of(i) \in Uids
  BY <1>1, <1>2 DEF Named
<1>4. Loaded(i) = Node(Of(i), saved[i].val, saved[i].ver, refs)
  BY DEF Loaded
<1> HIDE DEF Of, refs
<1>5. QED BY <1>1, <1>3, <1>4 DEF Versioned, Node

\* Every write and every step of a restore leaves a graph.
GraphStep ==
    \/ \E i \in Items :
          \/ \E v \in Vals \cup {None} : Edit(i, v)
          \/ \E S \in SUBSET (DOMAIN blue \ {i, Space}) : Link(i, S)
          \/ Add(i) \/ Remove(i)
    \/ Backup \/ RestoreDrop \/ (\E B \in Batches : RestoreLoad(B)) \/ RestoreDone \/ RestoreFails

LEMMA GraphStepFrame ==
    ASSUME GraphStep
    PROVE  UNCHANGED <<artifacts, pc, previewVars, jobVars>>
BY DEF GraphStep, Edit, Link, Add, Remove, Written, Backup, RestoreDrop, RestoreLoad, RestoreDone, RestoreFails

LEMMA WriteTypes ==
    ASSUME IInv, NEW i \in Items,
           \/ \E v \in Vals \cup {None} : Edit(i, v)
           \/ \E S \in SUBSET (DOMAIN blue \ {i, Space}) : Link(i, S)
           \/ Add(i) \/ Remove(i)
    PROVE  /\ IsGraph(blue') /\ UNCHANGED <<served, saved, restoring, restores>> /\ served
           /\ writes' \in 0..MaxWrites
<1>0. IsGraph(blue) /\ writes \in 0..MaxWrites /\ restores \in 0..MaxRestores
  BY DEF IInv, TypeOK
<1>1. Written
  BY DEF Edit, Link, Add, Remove
<1>2. ASSUME NEW v \in Vals \cup {None}, Edit(i, v) PROVE IsGraph(blue')
  <2>1. i \in DOMAIN blue /\ blue[i] \in Versioned
    BY <1>0, <1>2 DEF Edit, IsGraph
  <2>2. Node(blue[i].uid, v, blue[i].ver + 1, blue[i].refs) \in Versioned
    BY <2>1, VersionedFields DEF Node, Versioned
  <2>3. blue' = [blue EXCEPT ![i] = Node(blue[i].uid, v, blue[i].ver + 1, blue[i].refs)]
    BY <1>2, <1>0 DEF Edit, IsGraph
  <2>4. QED BY <1>0, <2>1, <2>2, <2>3 DEF IsGraph
<1>3. ASSUME NEW S \in SUBSET (DOMAIN blue \ {i, Space}), Link(i, S) PROVE IsGraph(blue')
  <2>1. i \in DOMAIN blue /\ blue[i] \in Versioned /\ \A k \in S : blue[k].uid \in Uids
    BY <1>0, <1>3 DEF Link, IsGraph, Versioned
  <2>2. Node(blue[i].uid, blue[i].val, blue[i].ver + 1, {blue[k].uid : k \in S}) \in Versioned
    BY <2>1, VersionedFields DEF Node, Versioned
  <2>3. blue' = [blue EXCEPT ![i] = Node(blue[i].uid, blue[i].val, blue[i].ver + 1, {blue[k].uid : k \in S})]
    BY <1>3, <1>0 DEF Link, IsGraph
  <2>4. QED BY <1>0, <2>1, <2>2, <2>3 DEF IsGraph
<1>4. ASSUME Add(i) PROVE IsGraph(blue')
  <2>1. writes' + restores' \in 0..MaxWrites + MaxRestores
    BY <1>1, <1>0, Counted DEF Written, IInv
  <2>2. Node(Fresh(i), None, 1, {}) \in Versioned
    BY <2>1 DEF Fresh, Node, Versioned, Uids, Nodes
  <2>3. QED BY <1>4, <1>0, <2>2 DEF Add, IsGraph, Nodes
<1>5. ASSUME Remove(i) PROVE IsGraph(blue')
  <2>1. \A k \in DOMAIN blue : [blue[k] EXCEPT !.refs = @ \ {blue[i].uid}] \in Versioned
    BY <1>0 DEF IsGraph, Versioned
  <2>2. QED BY <1>5, <1>0, <2>1 DEF Remove, IsGraph
<1>6. writes' \in 0..MaxWrites /\ UNCHANGED <<served, saved, restoring, restores>> /\ served
  BY <1>0, <1>1, OneMore, GuardedExportAssumption DEF Written
<1>7. QED BY <1>2, <1>3, <1>4, <1>5, <1>6

LEMMA GraphStepTypes ==
    ASSUME IInv, GraphStep
    PROVE  /\ IsGraph(blue') /\ served' \in BOOLEAN /\ restoring' \in BOOLEAN
           /\ saved' = None \/ IsGraph(saved')
           /\ restoring' => saved' # None /\ ~served' /\ DOMAIN blue' \subseteq DOMAIN saved'
           /\ writes' \in 0..MaxWrites /\ restores' \in 0..MaxRestores
<1>0. /\ IsGraph(blue) /\ served \in BOOLEAN /\ restoring \in BOOLEAN /\ (saved = None \/ IsGraph(saved))
      /\ restoring => saved # None /\ ~served /\ DOMAIN blue \subseteq DOMAIN saved
      /\ writes \in 0..MaxWrites /\ restores \in 0..MaxRestores
  BY DEF IInv, TypeOK, Shape
<1>1. CASE \E i \in Items : \/ \E v \in Vals \cup {None} : Edit(i, v)
                            \/ \E S \in SUBSET (DOMAIN blue \ {i, Space}) : Link(i, S)
                            \/ Add(i) \/ Remove(i)
  <2>1. /\ IsGraph(blue') /\ UNCHANGED <<served, saved, restoring, restores>> /\ served
        /\ writes' \in 0..MaxWrites
    BY <1>1, WriteTypes
  <2>2. QED BY <1>0, <2>1
<1>2. CASE Backup
  BY <1>0, <1>2 DEF Backup
<1>3. CASE RestoreDrop
  <2>1. restores' \in 0..MaxRestores
    BY <1>0, <1>3, OneMore, GuardedExportAssumption DEF RestoreDrop
  <2>2. DOMAIN NoGraph = {}
    BY DEF NoGraph
  <2>3. QED BY <1>0, <1>3, <2>1, <2>2, NoGraphIsGraph DEF RestoreDrop
<1>4. ASSUME NEW B \in Batches, RestoreLoad(B)
      PROVE  IsGraph(blue') /\ DOMAIN blue' \subseteq DOMAIN saved
  <2>1. IsGraph(saved) /\ DOMAIN blue \subseteq DOMAIN saved
    BY <1>4, <1>0 DEF RestoreLoad
  <2>2. \A i \in DOMAIN saved : Loaded(i) \in Versioned
    BY <2>1, LoadedIsTyped DEF IInv
  <2>3. PICK D : blue' = [i \in D |-> Loaded(i)] /\ D \subseteq DOMAIN saved
    BY <1>4, <2>1 DEF RestoreLoad
  <2>4. QED BY <2>1, <2>2, <2>3 DEF IsGraph
<1>5. CASE \E B \in Batches : RestoreLoad(B)
  <2>1. UNCHANGED <<served, saved, restoring, writes, restores>>
    BY <1>5 DEF RestoreLoad
  <2>2. IsGraph(blue') /\ DOMAIN blue' \subseteq DOMAIN saved
    BY <1>4, <1>5
  <2>3. QED BY <1>0, <2>1, <2>2
<1>6. CASE RestoreDone
  BY <1>0, <1>6 DEF RestoreDone
<1>7. CASE RestoreFails
  BY <1>0, <1>7 DEF RestoreFails
<1>8. \/ \E i \in Items : \/ \E v \in Vals \cup {None} : Edit(i, v)
                           \/ \E S \in SUBSET (DOMAIN blue \ {i, Space}) : Link(i, S)
                           \/ Add(i) \/ Remove(i)
      \/ Backup \/ RestoreDrop \/ (\E B \in Batches : RestoreLoad(B)) \/ RestoreDone \/ RestoreFails
  BY Zenon DEF GraphStep
<1>9. QED BY <1>1, <1>2, <1>3, <1>5, <1>6, <1>7, <1>8, Zenon

-----------------------------------------------------------------------------
(* What a client does and what a job does.                                    *)

ClientStep(c) ==
    \/ Resolve(c) \/ PreviewRead(c) \/ PreviewFails(c) \/ PreviewAnswer(c)
    \/ Refused(c) \/ Conflict(c) \/ \E j \in Jobs : Trigger(c, j) \/ Apply(c, j)
JobStep(j) == Start(j) \/ Publish(j) \/ JobFails(j)

LEMMA NextSteps == Next => GraphStep \/ (\E c \in Clients : ClientStep(c)) \/ (\E j \in Jobs : JobStep(j))
BY Zenon DEF Next, GraphStep, ClientStep, JobStep

ClientTypes ==
    /\ pc \in [Clients -> {"idle", "previewing", "read", "reviewed", "exporting", "applying"}]
    /\ \A c \in Clients : IsGraph(seen[c])
    /\ seen = [c \in Clients |-> seen[c]]
    /\ base \in [Clients -> 0..Len(artifacts)]

LEMMA GotoTypes ==
    ASSUME pc \in [Clients -> {"idle", "previewing", "read", "reviewed", "exporting", "applying"}],
           NEW c \in Clients, NEW at,
           NEW next \in {"idle", "previewing", "read", "reviewed", "exporting", "applying"}, Goto(c, at, next)
    PROVE  pc' \in [Clients -> {"idle", "previewing", "read", "reviewed", "exporting", "applying"}]
BY DEF Goto

LEMMA SeenTypes ==
    ASSUME ClientTypes, NEW c \in Clients, NEW g, IsGraph(g), seen' = [seen EXCEPT ![c] = g]
    PROVE  (\A d \in Clients : IsGraph(seen'[d])) /\ seen' = [d \in Clients |-> seen'[d]]
<1>1. seen' = [d \in Clients |-> IF d = c THEN g ELSE seen[d]]
  BY DEF ClientTypes
<1>2. QED BY <1>1 DEF ClientTypes

LEMMA ForgetTypes ==
    ASSUME ClientTypes, NEW c \in Clients, Forget(c), artifacts' = artifacts, Len(artifacts) \in Nat
    PROVE  /\ \A d \in Clients : IsGraph(seen'[d])
           /\ seen' = [d \in Clients |-> seen'[d]]
           /\ base' \in [Clients -> 0..Len(artifacts')]
<1>1. base' \in [Clients -> 0..Len(artifacts')]
  BY DEF Forget, ClientTypes
<1>2. QED BY <1>1, SeenTypes, NoGraphIsGraph DEF Forget

LEMMA ClientStepTypes ==
    ASSUME IInv, NEW c \in Clients, ClientStep(c)
    PROVE  ClientTypes' /\ UNCHANGED <<graphVars, artifacts, writes, restores>>
<1>1. ClientTypes /\ IsGraph(blue) /\ Len(artifacts) \in Nat
  BY LenProperties DEF IInv, TypeOK, Shape, ClientTypes
<1>2. UNCHANGED <<graphVars, artifacts, writes, restores>>
  BY DEF ClientStep, Resolve, PreviewRead, PreviewFails, PreviewAnswer, Refused, Conflict, Trigger, Apply, previewVars
<1>3. pc' \in [Clients -> {"idle", "previewing", "read", "reviewed", "exporting", "applying"}]
  BY <1>1, GotoTypes DEF ClientTypes, ClientStep, Resolve, PreviewRead, PreviewFails, PreviewAnswer, Refused, Conflict, Trigger, Apply
<1>4. CASE UNCHANGED previewVars
  BY <1>1, <1>2, <1>3, <1>4 DEF ClientTypes, previewVars
<1>5. CASE PreviewRead(c)
  <2>1. IsGraph(Subgraph(blue)) /\ seen' = [seen EXCEPT ![c] = Subgraph(blue)] /\ base' = base
    BY <1>1, <1>5, SubgraphIsGraph DEF PreviewRead
  <2>2. (\A d \in Clients : IsGraph(seen'[d])) /\ seen' = [d \in Clients |-> seen'[d]]
    BY <1>1, <2>1, SeenTypes
  <2>3. QED BY <1>1, <1>2, <1>3, <2>1, <2>2 DEF ClientTypes
<1>6. CASE PreviewAnswer(c)
  <2>1. seen' = seen /\ base' = [base EXCEPT ![c] = Len(artifacts)]
    BY <1>6 DEF PreviewAnswer
  <2>2. Len(artifacts) \in 0..Len(artifacts)
    BY <1>1
  <2>3. QED BY <1>1, <1>2, <1>3, <2>1, <2>2 DEF ClientTypes
<1>7. CASE Forget(c)
  BY <1>1, <1>2, <1>3, <1>7, ForgetTypes DEF ClientTypes
<1>8. UNCHANGED previewVars \/ PreviewRead(c) \/ PreviewAnswer(c) \/ Forget(c)
  BY DEF ClientStep, Resolve, PreviewFails, Refused, Conflict, Trigger, Apply, previewVars
<1>9. QED BY <1>2, <1>4, <1>5, <1>6, <1>7, <1>8

JobTypes ==
    /\ stage \in [Jobs -> Stages] /\ half \subseteq Jobs
    /\ \A j \in Jobs : nodes[j] = None \/ IsGraph(nodes[j])
    /\ nodes = [j \in Jobs |-> nodes[j]] /\ reviewed = [j \in Jobs |-> reviewed[j]]
    /\ \A j \in Jobs : stage[j] = "completed" => IsGraph(nodes[j])

ArtifactTypes ==
    /\ \E S : artifacts \in Seq(S)
    /\ \A k \in DOMAIN artifacts : IsGraph(artifacts[k].graph)

\* What a step of a job, or its admission, does to the jobs.
LEMMA JobEffect ==
    ASSUME JobTypes, NEW j \in Jobs, NEW to \in Stages, NEW g, NEW m, g = None \/ IsGraph(g),
           to = "completed" => IsGraph(g), half' \subseteq Jobs,
           stage' = [stage EXCEPT ![j] = to], nodes' = [nodes EXCEPT ![j] = g], reviewed' = [reviewed EXCEPT ![j] = m]
    PROVE  JobTypes'
<1>1. stage' \in [Jobs -> Stages] /\ stage'[j] = to /\ \A i \in Jobs : i # j => stage'[i] = stage[i]
  BY DEF JobTypes
<1>2. nodes' = [i \in Jobs |-> IF i = j THEN g ELSE nodes[i]]
  BY DEF JobTypes
<1>3. reviewed' = [i \in Jobs |-> IF i = j THEN m ELSE reviewed[i]]
  BY DEF JobTypes
<1>4. QED BY <1>1, <1>2, <1>3 DEF JobTypes

LEMMA SameEntry ==
    ASSUME NEW S, NEW f, f = [i \in S |-> f[i]], NEW j \in S
    PROVE  f = [f EXCEPT ![j] = f[j]]
OBVIOUS

LEMMA ClientStepJobs ==
    ASSUME IInv, NEW c \in Clients, ClientStep(c)
    PROVE  JobTypes'
<1>1. JobTypes /\ IsGraph(blue)
  BY DEF IInv, TypeOK, Shape, JobTypes
<1>2. CASE UNCHANGED jobVars
  BY <1>1, <1>2 DEF JobTypes, jobVars
<1>3. ASSUME NEW j \in Jobs, Trigger(c, j) PROVE JobTypes'
  <2>1. Create(j, None, None) /\ half' = half
    BY <1>3 DEF Trigger
  <2>2. "pending" \in Stages /\ half' \subseteq Jobs
    BY <1>1, <2>1 DEF Stages, JobTypes
  <2>3. QED BY <1>1, <2>1, <2>2, JobEffect DEF Create
<1>4. ASSUME NEW j \in Jobs, Apply(c, j) PROVE JobTypes'
  <2>1. Create(j, Subgraph(blue), Meaning(seen[c])) /\ half' \in {half, half \cup {j}}
    BY <1>4 DEF Apply, Reads
  <2>2. "pending" \in Stages /\ half' \subseteq Jobs /\ IsGraph(Subgraph(blue))
    BY <1>1, <2>1, SubgraphIsGraph DEF Stages, JobTypes
  <2>3. QED BY <1>1, <2>1, <2>2, JobEffect DEF Create
<1>5. UNCHANGED jobVars \/ \E j \in Jobs : Trigger(c, j) \/ Apply(c, j)
  BY DEF ClientStep, Resolve, PreviewRead, PreviewFails, PreviewAnswer, Refused, Conflict
<1>6. QED BY <1>2, <1>3, <1>4, <1>5

LEMMA JobStepTypes ==
    ASSUME IInv, NEW j \in Jobs, JobStep(j)
    PROVE  /\ JobTypes' /\ ArtifactTypes' /\ UNCHANGED <<graphVars, pc, previewVars, writes, restores>>
           /\ Len(artifacts) \in Nat /\ Len(artifacts') \in Nat /\ Len(artifacts) <= Len(artifacts')
<1>1. JobTypes /\ ArtifactTypes /\ IsGraph(blue)
  BY DEF IInv, TypeOK, Shape, JobTypes, ArtifactTypes
<1>2. UNCHANGED <<graphVars, pc, previewVars, writes, restores>>
  BY DEF JobStep, Start, Publish, JobFails, End
<1>3. Len(artifacts) \in Nat
  BY <1>1, LenProperties DEF ArtifactTypes
<1>4. CASE Start(j)
  <2>1. PICK g : nodes' = [nodes EXCEPT ![j] = g] /\ IsGraph(g) /\ half' \subseteq Jobs
    <3>1. CASE nodes[j] # None /\ UNCHANGED <<nodes, half>>
      BY <1>1, <3>1, SameEntry DEF JobTypes
    <3>2. CASE nodes' = [nodes EXCEPT ![j] = Subgraph(blue)] /\ Reads(j)
      BY <1>1, <3>2, SubgraphIsGraph DEF Reads, JobTypes
    <3>3. QED BY <1>4, <3>1, <3>2 DEF Start
  <2>2. reviewed' = [reviewed EXCEPT ![j] = reviewed[j]]
    BY <1>1, <1>4, SameEntry DEF JobTypes, Start
  <2>3. stage' = [stage EXCEPT ![j] = "completed"] /\ "completed" \in Stages
    BY <1>4 DEF Start, Stages
  <2>4. JobTypes'
    BY <1>1, <2>1, <2>2, <2>3, JobEffect
  <2>5. QED BY <1>1, <1>2, <1>3, <1>4, <2>4 DEF Start, ArtifactTypes
<1>5. ASSUME End(j) PROVE JobTypes'
  <2>1. half' \subseteq Jobs /\ "absent" \in Stages
    BY <1>1, <1>5 DEF End, JobTypes, Stages
  <2>2. QED BY <1>1, <1>5, <2>1, JobEffect DEF End
<1>6. CASE Publish(j)
  <2> DEFINE e == [graph |-> nodes[j], reviewed |-> reviewed[j], half |-> j \in half]
  <2>1. artifacts' = Append(artifacts, e) /\ IsGraph(e.graph) /\ End(j)
    BY <1>1, <1>6 DEF Publish, JobTypes
  <2> HIDE DEF e
  <2>2. PICK S : artifacts \in Seq(S)
    BY <1>1 DEF ArtifactTypes
  <2>3. QED BY <1>1, <1>2, <1>3, <1>5, <2>1, <2>2, AppendEffect DEF ArtifactTypes
<1>7. CASE JobFails(j)
  BY <1>1, <1>2, <1>3, <1>5, <1>7 DEF JobFails, ArtifactTypes
<1>8. QED BY <1>4, <1>6, <1>7 DEF JobStep

LEMMA InitTypes == Init => IInv
<1> SUFFICES ASSUME Init PROVE IInv
  OBVIOUS
<1>1. IsGraph(blue) /\ writes \in 0..MaxWrites /\ restores \in 0..MaxRestores
  BY GuardedExportAssumption DEF Init
<1>2. artifacts = <<>> /\ Len(artifacts) = 0 /\ DOMAIN artifacts = {} /\ artifacts \in Seq({})
  BY DEF Init
<1>3. ClientTypes
  BY <1>2, NoGraphIsGraph DEF Init, ClientTypes
<1>4. JobTypes
  BY DEF Init, JobTypes, Stages
<1>5. QED BY <1>1, <1>2, <1>3, <1>4 DEF IInv, TypeOK, Shape, ClientTypes, JobTypes, Init

LEMMA StepTypes == IInv /\ [Next]_vars => IInv'
<1> SUFFICES ASSUME IInv, [Next]_vars PROVE IInv'
  OBVIOUS
<1>1. CASE GraphStep
  <2>1. UNCHANGED <<artifacts, pc, previewVars, jobVars>>
    BY <1>1, GraphStepFrame
  <2>2. QED BY <1>1, <2>1, GraphStepTypes DEF IInv, TypeOK, Shape, previewVars, jobVars
<1>2. ASSUME NEW c \in Clients, ClientStep(c) PROVE IInv'
  <2>1. ClientTypes' /\ UNCHANGED <<graphVars, artifacts, writes, restores>> /\ JobTypes'
    BY <1>2, ClientStepTypes, ClientStepJobs
  <2>2. QED BY <2>1 DEF IInv, TypeOK, Shape, ClientTypes, JobTypes, graphVars
<1>3. ASSUME NEW j \in Jobs, JobStep(j) PROVE IInv'
  <2>1. /\ JobTypes' /\ ArtifactTypes' /\ UNCHANGED <<graphVars, pc, previewVars, writes, restores>>
        /\ Len(artifacts) \in Nat /\ Len(artifacts') \in Nat /\ Len(artifacts) <= Len(artifacts')
    BY <1>3, JobStepTypes
  <2>2. base' \in [Clients -> 0..Len(artifacts')]
    BY <2>1 DEF IInv, TypeOK, previewVars
  <2>3. QED BY <2>1, <2>2 DEF IInv, TypeOK, Shape, ArtifactTypes, JobTypes, graphVars, previewVars
<1>4. CASE UNCHANGED vars
  BY <1>4 DEF vars, graphVars, previewVars, jobVars, IInv, TypeOK, Shape
<1>5. QED BY <1>1, <1>2, <1>3, <1>4, NextSteps

\* Graphs keep their shape, also half restored ones, and a completed export has one.
THEOREM Types == Spec => []TypeOK
<1>1. Spec => []IInv
  BY InitTypes, StepTypes, PTL DEF Spec
<1>2. IInv => TypeOK
  BY DEF IInv
<1>3. QED BY <1>1, <1>2, PTL

-----------------------------------------------------------------------------
(* An export that was given half of a graph waits for a data center that      *)
(* GraphQL does not resolve, and no restore may begin while it waits.         *)

HalfInv == \A j \in half : stage[j] = "pending" /\ ~served /\ ~restoring

LEMMA InitWhole == Init => HalfInv /\ ShippedIsWhole
BY DEF Init, HalfInv, ShippedIsWhole

LEMMA StepWhole == IInv /\ HalfInv /\ ShippedIsWhole /\ [Next]_vars => HalfInv' /\ ShippedIsWhole'
<1> SUFFICES ASSUME IInv, HalfInv, ShippedIsWhole, [Next]_vars PROVE HalfInv' /\ ShippedIsWhole'
  OBVIOUS
<1>0. stage \in [Jobs -> Stages] /\ half \subseteq Jobs
  BY DEF IInv, TypeOK
<1>1. CASE GraphStep
  <2>1. UNCHANGED <<artifacts, stage, half>>
    BY <1>1, GraphStepFrame DEF jobVars
  <2>2. CASE UNCHANGED <<served, restoring>>
    BY <2>1, <2>2 DEF HalfInv, ShippedIsWhole
  <2>3. CASE RestoreDrop
    BY <1>0, <2>1, <2>3 DEF RestoreDrop, InProgress, HalfInv, ShippedIsWhole
  <2>4. CASE restoring
    BY <2>1, <2>4 DEF HalfInv, ShippedIsWhole
  <2>5. UNCHANGED <<served, restoring>> \/ RestoreDrop \/ restoring
    BY <1>1 DEF GraphStep, Edit, Link, Add, Remove, Written, Backup, RestoreLoad, RestoreDone, RestoreFails
  <2>6. QED BY <2>2, <2>3, <2>4, <2>5
<1>2. ASSUME NEW c \in Clients, ClientStep(c) PROVE HalfInv' /\ ShippedIsWhole'
  <2>1. UNCHANGED <<served, restoring, artifacts>>
    BY <1>2, ClientStepTypes DEF graphVars
  <2>2. CASE UNCHANGED jobVars
    BY <2>1, <2>2 DEF jobVars, HalfInv, ShippedIsWhole
  <2>3. ASSUME NEW j \in Jobs, Trigger(c, j) \/ Apply(c, j) PROVE HalfInv'
    <3>1. ~restoring /\ stage' = [stage EXCEPT ![j] = "pending"]
      BY <2>3 DEF Trigger, Apply, Admissible, Create
    <3>2. half' = half \/ (half' = half \cup {j} /\ ~served)
      BY <2>3 DEF Trigger, Apply, Reads
    <3>3. QED BY <1>0, <2>1, <3>1, <3>2 DEF HalfInv
  <2>4. UNCHANGED jobVars \/ \E j \in Jobs : Trigger(c, j) \/ Apply(c, j)
    BY <1>2 DEF ClientStep, Resolve, PreviewRead, PreviewFails, PreviewAnswer, Refused, Conflict
  <2>5. ShippedIsWhole'
    BY <2>1 DEF ShippedIsWhole
  <2>6. QED BY <2>2, <2>3, <2>4, <2>5
<1>3. ASSUME NEW j \in Jobs, JobStep(j) PROVE HalfInv' /\ ShippedIsWhole'
  <2>0. UNCHANGED <<served, restoring>>
    BY <1>3, JobStepTypes DEF graphVars
  <2>1. CASE Start(j)
    <3>1. served /\ half' = half /\ artifacts' = artifacts
      BY <2>1 DEF Start, Reads
    <3>2. half = {}
      BY <3>1 DEF HalfInv
    <3>3. QED BY <3>1, <3>2 DEF HalfInv, ShippedIsWhole
  <2>2. ASSUME End(j) PROVE HalfInv'
    BY <1>0, <2>0, <2>2 DEF End, HalfInv
  <2>3. CASE Publish(j)
    <3> DEFINE e == [graph |-> nodes[j], reviewed |-> reviewed[j], half |-> j \in half]
    <3>1. artifacts' = Append(artifacts, e) /\ End(j) /\ ~e.half
      BY <2>3 DEF Publish, HalfInv
    <3> HIDE DEF e
    <3>2. PICK S : artifacts \in Seq(S)
      BY DEF IInv, Shape
    <3>3. QED BY <2>2, <3>1, <3>2, AppendEffect DEF ShippedIsWhole
  <2>4. CASE JobFails(j)
    BY <2>2, <2>4 DEF JobFails, ShippedIsWhole
  <2>5. QED BY <1>3, <2>1, <2>3, <2>4 DEF JobStep
<1>4. CASE UNCHANGED vars
  BY <1>4 DEF vars, graphVars, jobVars, HalfInv, ShippedIsWhole
<1>5. QED BY <1>1, <1>2, <1>3, <1>4, NextSteps

\* No artifact holds what an unfinished or failed restore left in the graph.
THEOREM WholeIsShipped == Spec => []ShippedIsWhole
<1>1. Init => IInv /\ HalfInv /\ ShippedIsWhole
  BY InitTypes, InitWhole
<1>2. IInv /\ HalfInv /\ ShippedIsWhole /\ [Next]_vars => (IInv /\ HalfInv /\ ShippedIsWhole)'
  BY StepTypes, StepWhole
<1>3. QED BY <1>1, <1>2, PTL DEF Spec

-----------------------------------------------------------------------------
(* What is exported is what was reviewed: graphs that normalise to the same   *)
(* snapshot say the same.  A uid is of one node, for ever.                    *)

Owned(g) == \A i \in DOMAIN g : g[i].uid[1] = i

LEMMA FragmentIs ==
    ASSUME NEW g, NEW from, NEW f
    PROVE  f \in Fragments(g, from) <=>
             \E i \in DOMAIN g :
                \/ f = <<g[i].uid, "version", g[i].ver>>
                \/ i \in Items /\ f = <<g[i].uid, "orbId", i>>
                \/ g[i].val # None /\ f = <<g[i].uid, "val", Wire(g[i].val, from)>>
                \/ \E t \in g[i].refs : f = <<g[i].uid, "ref", t>>
BY DEF Fragments

\* The fragments of one predicate, by the nodes they are of.
LEMMA PredicatesAre ==
    ASSUME NEW g, NEW from, NEW f
    PROVE  /\ f \in Is(Fragments(g, from), "orbId") <=> \E i \in DOMAIN g \cap Items : f = <<g[i].uid, "orbId", i>>
           /\ f \in Is(Fragments(g, from), "val") <=> \E i \in DOMAIN g : g[i].val # None /\ f = <<g[i].uid, "val", Wire(g[i].val, from)>>
           /\ f \in Is(Fragments(g, from), "ref") <=> \E i \in DOMAIN g : \E t \in g[i].refs : f = <<g[i].uid, "ref", t>>
<1>1. \A p : f \in Is(Fragments(g, from), p) <=> f \in Fragments(g, from) /\ f[2] = p
  BY DEF Is
<1>2. \A i \in DOMAIN g : f = <<g[i].uid, "version", g[i].ver>> => f[2] = "version"
  OBVIOUS
<1>3. \A i \in DOMAIN g : f = <<g[i].uid, "orbId", i>> => f[2] = "orbId"
  OBVIOUS
<1>4. \A i \in DOMAIN g : f = <<g[i].uid, "val", Wire(g[i].val, from)>> => f[2] = "val"
  OBVIOUS
<1>5. \A i \in DOMAIN g : \A t \in g[i].refs : f = <<g[i].uid, "ref", t>> => f[2] = "ref"
  OBVIOUS
<1>6. f \in Fragments(g, from) <=>
        \E i \in DOMAIN g :
           \/ f = <<g[i].uid, "version", g[i].ver>>
           \/ i \in Items /\ f = <<g[i].uid, "orbId", i>>
           \/ g[i].val # None /\ f = <<g[i].uid, "val", Wire(g[i].val, from)>>
           \/ \E t \in g[i].refs : f = <<g[i].uid, "ref", t>>
  BY FragmentIs
<1>7. f[2] # "version" \/ (f[2] # "orbId" /\ f[2] # "val" /\ f[2] # "ref")
  OBVIOUS
<1>8. (f[2] # "orbId" \/ f[2] # "val") /\ (f[2] # "orbId" \/ f[2] # "ref") /\ (f[2] # "val" \/ f[2] # "ref")
  OBVIOUS
<1>9. f \in Is(Fragments(g, from), "orbId") <=> \E i \in DOMAIN g \cap Items : f = <<g[i].uid, "orbId", i>>
  BY <1>1, <1>2, <1>3, <1>4, <1>5, <1>6, <1>7, <1>8, Zenon
<1>10. f \in Is(Fragments(g, from), "val") <=> \E i \in DOMAIN g : g[i].val # None /\ f = <<g[i].uid, "val", Wire(g[i].val, from)>>
  BY <1>1, <1>2, <1>3, <1>4, <1>5, <1>6, <1>7, <1>8, Zenon
<1>11. f \in Is(Fragments(g, from), "ref") <=> \E i \in DOMAIN g : \E t \in g[i].refs : f = <<g[i].uid, "ref", t>>
  BY <1>1, <1>2, <1>3, <1>4, <1>5, <1>6, <1>7, <1>8, Zenon
<1>12. QED BY <1>9, <1>10, <1>11

LEMMA TargetIs ==
    ASSUME NEW g, NEW from, IsGraph(g), Owned(g), NEW t \in Uids, NEW k \in Items
    PROVE  Target(Fragments(g, from), t) = k <=> (k \in DOMAIN g /\ g[k].uid = t)
<1> DEFINE F == Is(Fragments(g, from), "orbId")
           named == {f \in F : f[1] = t}
<1>0. \A f : f \in F <=> \E i \in DOMAIN g \cap Items : f = <<g[i].uid, "orbId", i>>
  BY PredicatesAre
<1> HIDE DEF F
<1>1. \A f : f \in named <=> \E i \in DOMAIN g \cap Items : f = <<g[i].uid, "orbId", i>> /\ g[i].uid = t
  BY <1>0
<1> USE DEF F
<1>2. Dangling(t) # k
  BY GuardedExportAssumption
<1>3. Target(Fragments(g, from), t) = IF named = {} THEN Dangling(t) ELSE (CHOOSE f \in named : TRUE)[3]
  BY Zenon DEF Target
<1> HIDE DEF F, named
<1>4. CASE named = {}
  BY <1>1, <1>2, <1>3, <1>4
<1>5. CASE named # {}
  <2>1. PICK i \in DOMAIN g \cap Items : (CHOOSE f \in named : TRUE) = <<g[i].uid, "orbId", i>> /\ g[i].uid = t
    BY <1>1, <1>5
  <2>2. \A l \in DOMAIN g : g[l].uid = t => l = i
    BY <2>1 DEF Owned
  <2>3. Target(Fragments(g, from), t) = <<g[i].uid, "orbId", i>>[3]
    BY <1>3, <1>5, <2>1
  <2>4. Target(Fragments(g, from), t) = i
    BY <2>3
  <2>5. QED BY <2>1, <2>2, <2>4
<1>6. QED BY <1>4, <1>5

\* A snapshot has the items of its graph, each folded from its own fragments.
LEMMA SnapshotIs ==
    ASSUME NEW g, NEW from, IsGraph(g), Owned(g)
    PROVE  /\ DOMAIN Snapshot(Fragments(g, from)) = DOMAIN g \cap Items
           /\ \A o \in DOMAIN g \cap Items : Snapshot(Fragments(g, from))[o] = Folded(Fragments(g, from), g[o].uid)
<1> DEFINE F == Fragments(g, from)
           ids == {f[3] : f \in Is(F, "orbId")}
           Of(o) == CHOOSE f \in Is(F, "orbId") : f[3] = o
<1>1. \A f : f \in Is(F, "orbId") <=> \E i \in DOMAIN g \cap Items : f = <<g[i].uid, "orbId", i>>
  BY PredicatesAre
<1>2. Snapshot(Fragments(g, from)) = [o \in ids |-> Folded(F, Of(o)[1])]
  BY Zenon DEF Snapshot
<1> HIDE DEF F
<1> DEFINE frag(i) == <<g[i].uid, "orbId", i>>
<1>a. \A i \in DOMAIN g \cap Items : frag(i) \in Is(F, "orbId")
  BY <1>1
<1>b. \A i \in DOMAIN g \cap Items : frag(i)[3] = i /\ frag(i)[1] = g[i].uid
  OBVIOUS
<1>c. \A f \in Is(F, "orbId") : \E i \in DOMAIN g \cap Items : f = frag(i)
  BY <1>1
<1> HIDE DEF frag
<1>3. ids = DOMAIN g \cap Items
  BY <1>a, <1>b, <1>c
<1>4. ASSUME NEW o \in DOMAIN g \cap Items PROVE Of(o)[1] = g[o].uid
  <2>1. Of(o) \in Is(F, "orbId") /\ Of(o)[3] = o
    BY <1>a, <1>b
  <2>2. QED BY <1>b, <1>c, <2>1
<1> HIDE DEF ids, Of
<1>5. QED BY <1>2, <1>3, <1>4 DEF F

\* The encoding of a boolean in a native export is undone.
LEMMA Reconciled ==
    ASSUME NEW from, NEW v \in Vals
    PROVE  Canon(Wire(v, from)) = v
<1>1. \A f, e \in Flags : Quoted(f) = Quoted(e) => f = e
  BY DEF Quoted
<1>2. CASE from = "export" /\ v \in Flags
  <2>1. Wire(v, from) = Quoted(v)
    BY <1>2 DEF Wire
  <2> QED BY <1>1, <1>2, <2>1 DEF Canon
<1>3. CASE ~(from = "export" /\ v \in Flags)
  <2>1. Wire(v, from) = v /\ ~\E f \in Flags : v = Quoted(f)
    BY <1>3, GuardedExportAssumption DEF Wire
  <2> QED BY <2>1 DEF Canon
<1> QED BY <1>2, <1>3

LEMMA FoldedIs ==
    ASSUME NEW g, NEW from, IsGraph(g), Owned(g), NEW o \in DOMAIN g \cap Items,
           NEW n, n = Folded(Fragments(g, from), g[o].uid)
    PROVE  /\ "val" \in DOMAIN n <=> g[o].val # None
           /\ "val" \in DOMAIN n => n["val"] = g[o].val
           /\ "refs" \in DOMAIN n <=> g[o].refs # {}
           /\ "refs" \in DOMAIN n => n["refs"] = {Target(Fragments(g, from), t) : t \in g[o].refs}
<1> DEFINE F == Fragments(g, from)
           u == g[o].uid
           V == {f \in Is(F, "val") : f[1] = u}
           R == {f \in Is(F, "ref") : f[1] = u}
           vals == {Canon(f[3]) : f \in V}
           refs == {Target(F, f[3]) : f \in R}
           keys == {k \in {"val", "refs"} : (IF k = "val" THEN vals ELSE refs) # {}}
<1>1. \A i \in DOMAIN g : g[i].uid = u => i = o
  BY DEF Owned
<1>2. \A f : f \in V <=> (g[o].val # None /\ f = <<u, "val", Wire(g[o].val, from)>>)
  BY <1>1, PredicatesAre
<1>3. \A f : f \in R <=> (\E t \in g[o].refs : f = <<u, "ref", t>>)
  BY <1>1, PredicatesAre
<1>4. g[o].val # None => Canon(Wire(g[o].val, from)) = g[o].val
  <2>1. g[o].val # None => g[o].val \in Vals
    BY DEF IsGraph, Versioned
  <2>2. QED BY <2>1, Reconciled
<1>5. Folded(F, u) = [k \in keys |-> IF k = "val" THEN CHOOSE v \in vals : TRUE ELSE refs]
  BY Zenon DEF Folded
<1> HIDE DEF V, R, F, u
<1>6. vals = IF g[o].val # None THEN {g[o].val} ELSE {}
  <2>1. CASE g[o].val = None
    BY <1>2, <2>1
  <2>2. CASE g[o].val # None
    <3>1. V = {<<u, "val", Wire(g[o].val, from)>>}
      BY <1>2, <2>2
    <3>2. <<u, "val", Wire(g[o].val, from)>>[3] = Wire(g[o].val, from)
      OBVIOUS
    <3>3. QED BY <3>1, <3>2, <1>4, <2>2
  <2>3. QED BY <2>1, <2>2
<1>7. refs = {Target(F, t) : t \in g[o].refs}
  <2>1. \A t : <<u, "ref", t>>[3] = t
    OBVIOUS
  <2>2. \A t \in g[o].refs : <<u, "ref", t>> \in R
    BY <1>3
  <2>3. \A f \in R : \E t \in g[o].refs : f[3] = t
    BY <1>3, <2>1
  <2>4. QED BY <2>1, <2>2, <2>3
<1> HIDE DEF vals, refs
<1>8. /\ "val" \in keys <=> g[o].val # None
      /\ "refs" \in keys <=> g[o].refs # {}
  BY <1>6, <1>7
<1>9. "val" \in keys => (CHOOSE v \in vals : TRUE) = g[o].val
  BY <1>6, <1>8
<1>10. n = [k \in keys |-> IF k = "val" THEN CHOOSE v \in vals : TRUE ELSE refs]
  BY <1>5 DEF F, u
<1> HIDE DEF keys
<1>11. QED BY <1>7, <1>8, <1>9, <1>10 DEF F

LEMMA MeaningIs ==
    ASSUME NEW g
    PROVE  \A m : m \in Meaning(g) <=>
             \E i \in DOMAIN g \cap Items :
                \/ m = <<i, "exists", i>>
                \/ g[i].val # None /\ m = <<i, "val", g[i].val>>
                \/ \E k \in DOMAIN g \cap Items : g[k].uid \in g[i].refs /\ m = <<i, "ref", k>>
<1> SUFFICES ASSUME NEW m
             PROVE  m \in Meaning(g) <=>
                      \E i \in DOMAIN g \cap Items :
                         \/ m = <<i, "exists", i>>
                         \/ g[i].val # None /\ m = <<i, "val", g[i].val>>
                         \/ \E k \in DOMAIN g \cap Items : g[k].uid \in g[i].refs /\ m = <<i, "ref", k>>
  OBVIOUS
<1> DEFINE I == DOMAIN g \cap Items
           linked(i) == (UNION {Named(g, t) : t \in g[i].refs}) \cap Items
<1>1. ASSUME NEW i PROVE linked(i) = {k \in I : g[k].uid \in g[i].refs}
  <2>1. \A t, k : k \in Named(g, t) <=> (k \in DOMAIN g /\ g[k].uid = t)
    BY DEF Named
  <2>2. \A k : k \in linked(i) <=> k \in Items /\ \E t \in g[i].refs : k \in Named(g, t)
    OBVIOUS
  <2>3. \A k : k \in linked(i) <=> (k \in I /\ g[k].uid \in g[i].refs)
    BY <2>1, <2>2
  <2> HIDE DEF linked, I
  <2>4. QED BY <2>3
<1>2. m \in Meaning(g) <=> \/ m \in {<<i, "exists", i>> : i \in I}
                           \/ m \in {<<i, "val", g[i].val>> : i \in {i \in I : g[i].val # None}}
                           \/ m \in UNION {{<<i, "ref", k>> : k \in linked(i)} : i \in I}
  BY DEF Meaning
<1> HIDE DEF I, linked
<1>3. m \in {<<i, "exists", i>> : i \in I} <=> \E i \in I : m = <<i, "exists", i>>
  OBVIOUS
<1>4. m \in {<<i, "val", g[i].val>> : i \in {i \in I : g[i].val # None}}
        <=> \E i \in I : g[i].val # None /\ m = <<i, "val", g[i].val>>
  OBVIOUS
<1>5. m \in UNION {{<<i, "ref", k>> : k \in linked(i)} : i \in I}
        <=> \E i \in I : \E k \in linked(i) : m = <<i, "ref", k>>
  OBVIOUS
<1>6. \A i : \A k : k \in linked(i) <=> (k \in I /\ g[k].uid \in g[i].refs)
  BY <1>1
<1>7. QED BY <1>2, <1>3, <1>4, <1>5, <1>6, Zenon DEF I

LEMMA SameSnapshot ==
    ASSUME NEW g, NEW h, IsGraph(g), IsGraph(h), Owned(g), Owned(h), NormalizeCurrent(g) = NormalizeCurrent(h)
    PROVE  Meaning(g) = Meaning(h)
<1>1. DOMAIN g \cap Items = DOMAIN h \cap Items
  BY SnapshotIs DEF NormalizeCurrent
<1>2. ASSUME NEW o \in DOMAIN g \cap Items
      PROVE  /\ g[o].val = h[o].val
             /\ {Target(Fragments(g, "dql"), t) : t \in g[o].refs} = {Target(Fragments(h, "dql"), t) : t \in h[o].refs}
  <2>1. Folded(Fragments(g, "dql"), g[o].uid) = Folded(Fragments(h, "dql"), h[o].uid) /\ o \in DOMAIN h \cap Items
    BY <1>1, SnapshotIs DEF NormalizeCurrent
  <2> DEFINE n == Folded(Fragments(g, "dql"), g[o].uid)
             ng == {Target(Fragments(g, "dql"), t) : t \in g[o].refs}
             nh == {Target(Fragments(h, "dql"), t) : t \in h[o].refs}
  <2>2. /\ "val" \in DOMAIN n <=> g[o].val # None
        /\ "val" \in DOMAIN n => n["val"] = g[o].val
        /\ "refs" \in DOMAIN n <=> g[o].refs # {}
        /\ "refs" \in DOMAIN n => n["refs"] = ng
    BY FoldedIs
  <2>3. /\ "val" \in DOMAIN n <=> h[o].val # None
        /\ "val" \in DOMAIN n => n["val"] = h[o].val
        /\ "refs" \in DOMAIN n <=> h[o].refs # {}
        /\ "refs" \in DOMAIN n => n["refs"] = nh
    BY <2>1, FoldedIs
  <2>4. (g[o].refs = {} => ng = {}) /\ (h[o].refs = {} => nh = {})
    OBVIOUS
  <2> HIDE DEF n, ng, nh
  <2>5. g[o].val = h[o].val /\ ng = nh
    BY <2>2, <2>3, <2>4
  <2>6. QED BY <2>5 DEF ng, nh
<1>3. ASSUME NEW x, IsGraph(x), Owned(x), NEW i \in DOMAIN x \cap Items, NEW k \in Items
      PROVE  k \in {Target(Fragments(x, "dql"), t) : t \in x[i].refs} <=> (k \in DOMAIN x /\ x[k].uid \in x[i].refs)
  <2>1. x[i].refs \subseteq Uids
    BY <1>3 DEF IsGraph, Versioned
  <2>2. QED BY <1>3, <2>1, TargetIs
<1>4. \A i, k \in DOMAIN g \cap Items : g[k].uid \in g[i].refs <=> h[k].uid \in h[i].refs
  BY <1>1, <1>2, <1>3
<1>5. \A m : m \in Meaning(g) <=> m \in Meaning(h)
  BY <1>1, <1>2, <1>4, MeaningIs
<1>6. QED BY <1>5 DEF Meaning

-----------------------------------------------------------------------------
(* What a comparison says.  Of a settled item, which has no edge out of its   *)
(* namespace, a snapshot holds the scalar and the items it is linked to.      *)

Linked(g, o) == {k \in DOMAIN g \cap Items : g[k].uid \in g[o].refs}
Settles(g, o) == o \in Items \ Outside(g)

\* An entry of a snapshot, predicate by predicate, whatever the encoding.
EntryOf(g, o, n) ==
    /\ DOMAIN n \subseteq {"val", "refs"}
    /\ Get(n, "val") = g[o].val
    /\ Get(n, "refs") = IF Linked(g, o) = {} THEN None ELSE Linked(g, o)

LEMMA LinkedAll ==
    ASSUME NEW g, NEW o \in DOMAIN g \cap Items, Settles(g, o)
    PROVE  \A t \in g[o].refs : \E k \in DOMAIN g \cap Items : g[k].uid = t
<1>1. \A t, k : k \in Named(g, t) <=> (k \in DOMAIN g /\ g[k].uid = t)
  BY DEF Named
<1>2. \A t \in g[o].refs : Named(g, t) \cap Items # {}
  BY DEF Settles, Outside
<1> QED BY <1>1, <1>2

LEMMA EntryIs ==
    ASSUME NEW g, NEW from, IsGraph(g), Owned(g), NEW o \in DOMAIN g \cap Items, Settles(g, o)
    PROVE  EntryOf(g, o, Snapshot(Fragments(g, from))[o])
<1> DEFINE n == Folded(Fragments(g, from), g[o].uid)
           named == {Target(Fragments(g, from), t) : t \in g[o].refs}
<1>1. /\ "val" \in DOMAIN n <=> g[o].val # None
      /\ "val" \in DOMAIN n => n["val"] = g[o].val
      /\ "refs" \in DOMAIN n <=> g[o].refs # {}
      /\ "refs" \in DOMAIN n => n["refs"] = named
  BY FoldedIs
<1>2. DOMAIN n \subseteq {"val", "refs"}
  BY DEF Folded
<1>3. \A t \in g[o].refs : t \in Uids /\ \E k \in DOMAIN g \cap Items : g[k].uid = t
  BY LinkedAll DEF IsGraph, Versioned
<1>4. \A t \in Uids, k \in Items : Target(Fragments(g, from), t) = k <=> (k \in DOMAIN g /\ g[k].uid = t)
  BY TargetIs
<1>5. named = Linked(g, o)
  <2>1. \A t \in g[o].refs : Target(Fragments(g, from), t) \in Linked(g, o)
    BY <1>3, <1>4 DEF Linked
  <2>2. \A k \in Linked(g, o) : \E t \in g[o].refs : Target(Fragments(g, from), t) = k
    BY <1>3, <1>4 DEF Linked
  <2> QED BY <2>1, <2>2
<1>6. g[o].refs # {} <=> Linked(g, o) # {}
  BY <1>3 DEF Linked
<1>7. Snapshot(Fragments(g, from))[o] = n
  BY SnapshotIs
<1> HIDE DEF n, named
<1> QED BY <1>1, <1>2, <1>5, <1>6, <1>7 DEF EntryOf, Get

ValOf(g, o) == IF o \in DOMAIN g THEN g[o].val ELSE None
LinksOf(g, o) == IF o \in DOMAIN g THEN Linked(g, o) ELSE {}
OrNone(S) == IF S = {} THEN None ELSE S

\* The entry of an item, present or not, and the fields that a comparison lists.
SideOf(B, o) == IF o \in DOMAIN B THEN B[o] ELSE Empty

LEMMA SideIs ==
    ASSUME NEW g, NEW from, IsGraph(g), Owned(g), NEW o \in Items, Settles(g, o)
    PROVE  LET n == SideOf(Snapshot(Fragments(g, from)), o) IN
             /\ DOMAIN n \subseteq {"val", "refs"}
             /\ Get(n, "val") = ValOf(g, o)
             /\ Get(n, "refs") = OrNone(LinksOf(g, o))
<1>1. DOMAIN Snapshot(Fragments(g, from)) = DOMAIN g \cap Items
  BY SnapshotIs
<1>2. CASE o \in DOMAIN g
  BY <1>1, <1>2, EntryIs DEF SideOf, EntryOf, ValOf, LinksOf, OrNone
<1>3. CASE o \notin DOMAIN g
  BY <1>1, <1>3 DEF SideOf, Empty, Get, ValOf, LinksOf, OrNone
<1> QED BY <1>2, <1>3

LEMMA FieldsAre ==
    ASSUME NEW b, NEW c, DOMAIN b \subseteq {"val", "refs"}, DOMAIN c \subseteq {"val", "refs"}, NEW f
    PROVE  f \in DiffFields(b, c) <=>
             \E k \in {"val", "refs"} :
                /\ Get(b, k) # Get(c, k)
                /\ f = [field |-> k, before |-> Get(b, k), after |-> Get(c, k)]
<1>1. \A k : k \notin DOMAIN b \cup DOMAIN c => Get(b, k) = Get(c, k)
  BY DEF Get
<1>2. f \in DiffFields(b, c) <=>
        \E k \in DOMAIN b \cup DOMAIN c :
           /\ Get(b, k) # Get(c, k)
           /\ f = [field |-> k, before |-> Get(b, k), after |-> Get(c, k)]
  BY DEF DiffFields
<1> QED BY <1>1, <1>2

RowOf(B, C, i, r) ==
    \/ i \in DOMAIN C \ DOMAIN B /\ r = Row(i, "added", Empty, C[i])
    \/ i \in DOMAIN B \ DOMAIN C /\ r = Row(i, "removed", B[i], Empty)
    \/ i \in DOMAIN B \cap DOMAIN C /\ DiffFields(B[i], C[i]) # {} /\ r = Row(i, "modified", B[i], C[i])

LEMMA RowsAre ==
    ASSUME NEW B, NEW C, NEW r
    PROVE  r \in Compare(B, C) <=> \E i : RowOf(B, C, i, r)
BY DEF Compare, RowOf

\* What the rows of a comparison say of one item.
LEMMA ItemRows ==
    ASSUME NEW B, NEW C, NEW o
    PROVE  /\ \A f : (\E r \in Compare(B, C) : r.orb = o /\ f \in r.fields)
                        <=> f \in DiffFields(SideOf(B, o), SideOf(C, o))
           /\ (\E r \in Compare(B, C) : r.orb = o /\ r.change = "removed") <=> o \in DOMAIN B \ DOMAIN C
           /\ (\E r \in Compare(B, C) : r.orb = o /\ r.change = "added") <=> o \in DOMAIN C \ DOMAIN B
           /\ (\E r \in Compare(B, C) : r.orb = o)
                 <=> \/ o \in DOMAIN B \ DOMAIN C \/ o \in DOMAIN C \ DOMAIN B
                     \/ DiffFields(SideOf(B, o), SideOf(C, o)) # {}
<1> DEFINE b == SideOf(B, o)
           c == SideOf(C, o)
           change == IF o \notin DOMAIN B THEN "added" ELSE IF o \notin DOMAIN C THEN "removed" ELSE "modified"
<1>1. \A i, x, y, z : /\ Row(i, x, y, z).orb = i /\ Row(i, x, y, z).change = x
                      /\ Row(i, x, y, z).fields = DiffFields(y, z)
  BY DEF Row
<1>2. DiffFields(Empty, Empty) = {}
  BY DEF DiffFields, Empty
<1>3. \A r : r \in Compare(B, C) /\ r.orb = o
               <=> /\ r = Row(o, change, b, c) /\ o \in DOMAIN B \cup DOMAIN C
                   /\ change = "modified" => DiffFields(b, c) # {}
  <2>1. \A r : r \in Compare(B, C) /\ r.orb = o <=> RowOf(B, C, o, r)
    <3>1. \A i, r : RowOf(B, C, i, r) => r.orb = i
      BY <1>1 DEF RowOf
    <3> QED BY <3>1, RowsAre
  <2>2. CASE o \in DOMAIN C \ DOMAIN B
    <3>1. b = Empty /\ c = C[o] /\ change = "added"
      BY <2>2 DEF SideOf
    <3> HIDE DEF b, c, change
    <3> QED BY <2>1, <2>2, <3>1 DEF RowOf
  <2>3. CASE o \in DOMAIN B \ DOMAIN C
    <3>1. b = B[o] /\ c = Empty /\ change = "removed"
      BY <2>3 DEF SideOf
    <3> HIDE DEF b, c, change
    <3> QED BY <2>1, <2>3, <3>1 DEF RowOf
  <2>4. CASE o \in DOMAIN B \cap DOMAIN C
    <3>1. b = B[o] /\ c = C[o] /\ change = "modified"
      BY <2>4 DEF SideOf
    <3> HIDE DEF b, c, change
    <3> QED BY <2>1, <2>4, <3>1 DEF RowOf
  <2>5. CASE o \notin DOMAIN B \cup DOMAIN C
    <3> HIDE DEF b, c, change
    <3> QED BY <2>1, <2>5 DEF RowOf
  <2> QED BY <2>2, <2>3, <2>4, <2>5
<1>4. o \notin DOMAIN B \cup DOMAIN C => DiffFields(b, c) = {}
  BY <1>2 DEF SideOf
<1>5. Row(o, change, b, c).change = change /\ Row(o, change, b, c).fields = DiffFields(b, c)
  BY <1>1
<1>6. /\ change = "added" <=> o \notin DOMAIN B
      /\ change = "removed" <=> o \in DOMAIN B \ DOMAIN C
      /\ change = "modified" <=> o \in DOMAIN B \cap DOMAIN C
  OBVIOUS
<1> HIDE DEF b, c, change
<1>7. \A f : (\E r \in Compare(B, C) : r.orb = o /\ f \in r.fields) <=> f \in DiffFields(b, c)
  BY <1>3, <1>4, <1>5
<1>8. (\E r \in Compare(B, C) : r.orb = o /\ r.change = "removed") <=> o \in DOMAIN B \ DOMAIN C
  BY <1>3, <1>5, <1>6
<1>9. (\E r \in Compare(B, C) : r.orb = o /\ r.change = "added") <=> o \in DOMAIN C \ DOMAIN B
  BY <1>3, <1>5, <1>6
<1>10. (\E r \in Compare(B, C) : r.orb = o)
          <=> \/ o \in DOMAIN B \ DOMAIN C \/ o \in DOMAIN C \ DOMAIN B \/ DiffFields(b, c) # {}
  BY <1>3, <1>4, <1>6
<1> QED BY <1>7, <1>8, <1>9, <1>10 DEF b, c

LEMMA SaidIs ==
    ASSUME NEW changes, NEW m
    PROVE  /\ m \in Said(changes, "before") <=>
                \/ \E r \in changes : r.change = "removed" /\ m = <<r.orb, "exists", r.orb>>
                \/ \E r \in changes : \E f \in r.fields :
                      /\ f.before # None
                      /\ \/ f.field = "val" /\ m = <<r.orb, "val", f.before>>
                         \/ f.field # "val" /\ \E k \in f.before : m = <<r.orb, "ref", k>>
           /\ m \in Said(changes, "after") <=>
                \/ \E r \in changes : r.change = "added" /\ m = <<r.orb, "exists", r.orb>>
                \/ \E r \in changes : \E f \in r.fields :
                      /\ f.after # None
                      /\ \/ f.field = "val" /\ m = <<r.orb, "val", f.after>>
                         \/ f.field # "val" /\ \E k \in f.after : m = <<r.orb, "ref", k>>
<1>1. ASSUME NEW side \in {"before", "after"}
      PROVE  m \in Said(changes, side) <=>
               \/ \E r \in changes : /\ r.change = IF side = "before" THEN "removed" ELSE "added"
                                     /\ m = <<r.orb, "exists", r.orb>>
               \/ \E r \in changes : \E f \in r.fields :
                     /\ f[side] # None
                     /\ \/ f.field = "val" /\ m = <<r.orb, "val", f[side]>>
                        \/ f.field # "val" /\ \E k \in f[side] : m = <<r.orb, "ref", k>>
  BY DEF Said
<1>2. \A f : f["before"] = f.before /\ f["after"] = f.after
  OBVIOUS
<1> QED BY <1>1, <1>2

\* What a graph says of an item, and what of it the other graph does not repeat.
Says(g, o, p, x) ==
    /\ o \in DOMAIN g
    /\ \/ p = "exists" /\ x = o
       \/ p = "val" /\ x # None /\ x = g[o].val
       \/ p = "ref" /\ x \in Linked(g, o)
SaysAlone(g, h, o, p, x) ==
    /\ Says(g, o, p, x)
    /\ p = "exists" => o \notin DOMAIN h
    /\ p = "val" => ValOf(g, o) # ValOf(h, o)
    /\ p = "ref" => LinksOf(g, o) # LinksOf(h, o)

LEMMA MeaningSays ==
    ASSUME NEW g
    PROVE  \A m : m \in Meaning(g) <=> \E o \in Items : \E p, x : m = <<o, p, x>> /\ Says(g, o, p, x)
<1> SUFFICES ASSUME NEW m
             PROVE  m \in Meaning(g) <=> \E o \in Items : \E p, x : m = <<o, p, x>> /\ Says(g, o, p, x)
  OBVIOUS
<1>1. m \in Meaning(g) <=>
        \E i \in DOMAIN g \cap Items :
           \/ m = <<i, "exists", i>>
           \/ g[i].val # None /\ m = <<i, "val", g[i].val>>
           \/ \E k \in DOMAIN g \cap Items : g[k].uid \in g[i].refs /\ m = <<i, "ref", k>>
  BY MeaningIs
<1>2. ASSUME NEW i \in DOMAIN g \cap Items
      PROVE  (\E p, x : m = <<i, p, x>> /\ Says(g, i, p, x)) <=>
               \/ m = <<i, "exists", i>>
               \/ g[i].val # None /\ m = <<i, "val", g[i].val>>
               \/ \E k \in DOMAIN g \cap Items : g[k].uid \in g[i].refs /\ m = <<i, "ref", k>>
  BY DEF Says, Linked
<1>3. \A o, p, x : Says(g, o, p, x) => o \in DOMAIN g
  BY DEF Says
<1> QED BY <1>1, <1>2, <1>3

\* A difference, from both sides.
LEMMA SettledFields ==
    ASSUME NEW g, NEW from, IsGraph(g), Owned(g), NEW h, NEW by, IsGraph(h), Owned(h),
           NEW o \in Items, Settles(g, o), Settles(h, o), NEW f
    PROVE  f \in DiffFields(SideOf(Snapshot(Fragments(g, from)), o), SideOf(Snapshot(Fragments(h, by)), o)) <=>
             \/ /\ ValOf(g, o) # ValOf(h, o)
                /\ f = [field |-> "val", before |-> ValOf(g, o), after |-> ValOf(h, o)]
             \/ /\ LinksOf(g, o) # LinksOf(h, o)
                /\ f = [field |-> "refs", before |-> OrNone(LinksOf(g, o)), after |-> OrNone(LinksOf(h, o))]
<1> DEFINE b == SideOf(Snapshot(Fragments(g, from)), o)
           c == SideOf(Snapshot(Fragments(h, by)), o)
<1>1. /\ DOMAIN b \subseteq {"val", "refs"} /\ Get(b, "val") = ValOf(g, o) /\ Get(b, "refs") = OrNone(LinksOf(g, o))
      /\ DOMAIN c \subseteq {"val", "refs"} /\ Get(c, "val") = ValOf(h, o) /\ Get(c, "refs") = OrNone(LinksOf(h, o))
  BY SideIs
<1> HIDE DEF b, c
<1>2. f \in DiffFields(b, c) <=>
        \E k \in {"val", "refs"} :
           Get(b, k) # Get(c, k) /\ f = [field |-> k, before |-> Get(b, k), after |-> Get(c, k)]
  BY <1>1, FieldsAre
<1>3. OrNone(LinksOf(g, o)) # OrNone(LinksOf(h, o)) <=> LinksOf(g, o) # LinksOf(h, o)
  <2>1. LinksOf(g, o) \in SUBSET Nodes /\ LinksOf(h, o) \in SUBSET Nodes
    BY DEF LinksOf, Linked, Nodes
  <2>2. None # LinksOf(g, o) /\ None # LinksOf(h, o)
    BY <2>1, GuardedExportAssumption
  <2> QED BY <2>2 DEF OrNone
<1> QED BY <1>1, <1>2, <1>3 DEF b, c

LEMMA CompareSays ==
    ASSUME NEW g, NEW from, IsGraph(g), Owned(g), NEW h, NEW by, IsGraph(h), Owned(h),
           NEW o \in Items, Settles(g, o), Settles(h, o), NEW p, NEW x
    PROVE  LET changes == Compare(Snapshot(Fragments(g, from)), Snapshot(Fragments(h, by))) IN
             /\ <<o, p, x>> \in Said(changes, "before") <=> SaysAlone(g, h, o, p, x)
             /\ <<o, p, x>> \in Said(changes, "after") <=> SaysAlone(h, g, o, p, x)
<1> DEFINE B == Snapshot(Fragments(g, from))
           C == Snapshot(Fragments(h, by))
           changes == Compare(B, C)
           listed(f) == f \in DiffFields(SideOf(B, o), SideOf(C, o))
           fv == [field |-> "val", before |-> ValOf(g, o), after |-> ValOf(h, o)]
           fr == [field |-> "refs", before |-> OrNone(LinksOf(g, o)), after |-> OrNone(LinksOf(h, o))]
<1>1. DOMAIN B = DOMAIN g \cap Items /\ DOMAIN C = DOMAIN h \cap Items
  BY SnapshotIs
<1>2. \A f : listed(f) <=> \/ ValOf(g, o) # ValOf(h, o) /\ f = fv
                           \/ LinksOf(g, o) # LinksOf(h, o) /\ f = fr
  BY SettledFields
<1> HIDE DEF B, C
<1>3. /\ \A f : (\E r \in changes : r.orb = o /\ f \in r.fields) <=> listed(f)
      /\ (\E r \in changes : r.orb = o /\ r.change = "removed") <=> o \in DOMAIN B \ DOMAIN C
      /\ (\E r \in changes : r.orb = o /\ r.change = "added") <=> o \in DOMAIN C \ DOMAIN B
  BY ItemRows
<1> HIDE DEF changes, listed
<1>4. /\ fv.field = "val" /\ fv.before = ValOf(g, o) /\ fv.after = ValOf(h, o)
      /\ fr.field = "refs" /\ fr.before = OrNone(LinksOf(g, o)) /\ fr.after = OrNone(LinksOf(h, o))
  OBVIOUS
<1> HIDE DEF fv, fr
<1>5. /\ OrNone(LinksOf(g, o)) # None => OrNone(LinksOf(g, o)) = LinksOf(g, o)
      /\ OrNone(LinksOf(h, o)) # None => OrNone(LinksOf(h, o)) = LinksOf(h, o)
      /\ \A k : k \in LinksOf(g, o) => OrNone(LinksOf(g, o)) # None /\ o \in DOMAIN g
      /\ \A k : k \in LinksOf(h, o) => OrNone(LinksOf(h, o)) # None /\ o \in DOMAIN h
  <2>1. LinksOf(g, o) \in SUBSET Nodes /\ LinksOf(h, o) \in SUBSET Nodes
    BY DEF LinksOf, Linked, Nodes
  <2>2. None # LinksOf(g, o) /\ None # LinksOf(h, o)
    BY <2>1, GuardedExportAssumption
  <2> QED BY <2>2 DEF OrNone, LinksOf
<1>6. <<o, p, x>> \in Said(changes, "before") <=> SaysAlone(g, h, o, p, x)
  <2>1. <<o, p, x>> \in Said(changes, "before") <=>
          \/ p = "exists" /\ x = o /\ \E r \in changes : r.orb = o /\ r.change = "removed"
          \/ \E f : /\ \E r \in changes : r.orb = o /\ f \in r.fields
                    /\ f.before # None
                    /\ \/ f.field = "val" /\ p = "val" /\ x = f.before
                       \/ f.field # "val" /\ p = "ref" /\ x \in f.before
    BY SaidIs
  <2>2. <<o, p, x>> \in Said(changes, "before") <=>
          \/ p = "exists" /\ x = o /\ o \in DOMAIN g \ DOMAIN h
          \/ ValOf(g, o) # ValOf(h, o) /\ ValOf(g, o) # None /\ p = "val" /\ x = ValOf(g, o)
          \/ LinksOf(g, o) # LinksOf(h, o) /\ p = "ref" /\ x \in LinksOf(g, o)
    BY <1>1, <1>2, <1>3, <1>4, <1>5, <2>1
  <2> QED BY <2>2 DEF SaysAlone, Says, ValOf, LinksOf
<1>7. <<o, p, x>> \in Said(changes, "after") <=> SaysAlone(h, g, o, p, x)
  <2>1. <<o, p, x>> \in Said(changes, "after") <=>
          \/ p = "exists" /\ x = o /\ \E r \in changes : r.orb = o /\ r.change = "added"
          \/ \E f : /\ \E r \in changes : r.orb = o /\ f \in r.fields
                    /\ f.after # None
                    /\ \/ f.field = "val" /\ p = "val" /\ x = f.after
                       \/ f.field # "val" /\ p = "ref" /\ x \in f.after
    BY SaidIs
  <2>2. <<o, p, x>> \in Said(changes, "after") <=>
          \/ p = "exists" /\ x = o /\ o \in DOMAIN h \ DOMAIN g
          \/ ValOf(g, o) # ValOf(h, o) /\ ValOf(h, o) # None /\ p = "val" /\ x = ValOf(h, o)
          \/ LinksOf(g, o) # LinksOf(h, o) /\ p = "ref" /\ x \in LinksOf(h, o)
    BY <1>1, <1>2, <1>3, <1>4, <1>5, <2>1
  <2> QED BY <2>2 DEF SaysAlone, Says, ValOf, LinksOf
<1> QED BY <1>6, <1>7 DEF changes, B, C

\* Item by item: what one graph says alone, taken away and put in its place,
\* makes it the other; and an item has a row if the two do not say the same.
LEMMA ItemIsExact ==
    ASSUME NEW g, NEW h, NEW o
    PROVE  /\ \A p, x : (Says(g, o, p, x) /\ ~SaysAlone(g, h, o, p, x)) \/ SaysAlone(h, g, o, p, x) <=> Says(h, o, p, x)
           /\ \/ o \in DOMAIN g \ DOMAIN h \/ o \in DOMAIN h \ DOMAIN g
              \/ ValOf(g, o) # ValOf(h, o) \/ LinksOf(g, o) # LinksOf(h, o)
              <=> \E p, x : ~(Says(g, o, p, x) <=> Says(h, o, p, x))
<1>1. ASSUME NEW p, NEW x
      PROVE  (Says(g, o, p, x) /\ ~SaysAlone(g, h, o, p, x)) \/ SaysAlone(h, g, o, p, x) <=> Says(h, o, p, x)
  BY DEF Says, SaysAlone, ValOf, LinksOf
<1>2. ASSUME NEW y, NEW z, o \in DOMAIN y \ DOMAIN z
      PROVE  Says(y, o, "exists", o) /\ ~Says(z, o, "exists", o)
  BY <1>2 DEF Says
<1>3. ASSUME NEW y, NEW z, NEW x, x # None, x = ValOf(y, o), x # ValOf(z, o)
      PROVE  Says(y, o, "val", x) /\ ~Says(z, o, "val", x)
  BY <1>3 DEF Says, ValOf
<1>4. ASSUME NEW y, NEW z, NEW x, x \in LinksOf(y, o), x \notin LinksOf(z, o)
      PROVE  Says(y, o, "ref", x) /\ ~Says(z, o, "ref", x)
  BY <1>4 DEF Says, LinksOf
<1>5. LinksOf(g, o) # LinksOf(h, o) => \E x : ~(x \in LinksOf(g, o) <=> x \in LinksOf(h, o))
  BY DEF LinksOf, Linked
<1>6. ASSUME \/ o \in DOMAIN g \ DOMAIN h \/ o \in DOMAIN h \ DOMAIN g
             \/ ValOf(g, o) # ValOf(h, o) \/ LinksOf(g, o) # LinksOf(h, o)
      PROVE  \E p, x : ~(Says(g, o, p, x) <=> Says(h, o, p, x))
  <2>1. CASE ValOf(g, o) # ValOf(h, o)
    BY <1>3, <2>1
  <2> QED BY <1>2, <1>4, <1>5, <1>6, <2>1
<1>7. ASSUME DOMAIN g \cap {o} = DOMAIN h \cap {o}, ValOf(g, o) = ValOf(h, o), LinksOf(g, o) = LinksOf(h, o), NEW p, NEW x
      PROVE  Says(g, o, p, x) <=> Says(h, o, p, x)
  BY <1>7 DEF Says, ValOf, LinksOf
<1> QED BY <1>1, <1>6, <1>7

LEMMA CompareIsExact ==
    ASSUME NEW g, NEW from, IsGraph(g), Owned(g), NEW h, NEW by, IsGraph(h), Owned(h)
    PROVE  Exact(Compare(Snapshot(Fragments(g, from)), Snapshot(Fragments(h, by))), g, h)
<1> DEFINE changes == Compare(Snapshot(Fragments(g, from)), Snapshot(Fragments(h, by)))
           Settled == Items \ (Outside(g) \cup Outside(h))
           Of(M) == {m \in M : m[1] \in Settled}
           G == Of(Meaning(g))
           H == Of(Meaning(h))
           Before == Of(Said(changes, "before"))
           After == Of(Said(changes, "after"))
<1>1. \A o : o \in Settled <=> o \in Items /\ Settles(g, o) /\ Settles(h, o)
  BY DEF Settles
<1>2. \A o, p, x : <<o, p, x>>[1] = o
  OBVIOUS
<1>3. ASSUME NEW o \in Settled, NEW p, NEW x
      PROVE  /\ <<o, p, x>> \in G <=> Says(g, o, p, x)
             /\ <<o, p, x>> \in H <=> Says(h, o, p, x)
  <2>1. \A y : <<o, p, x>> \in Meaning(y) <=> Says(y, o, p, x)
    BY MeaningSays
  <2> QED BY <1>2, <2>1
<1>4. ASSUME NEW o \in Settled, NEW p, NEW x
      PROVE  /\ <<o, p, x>> \in Before <=> SaysAlone(g, h, o, p, x)
             /\ <<o, p, x>> \in After <=> SaysAlone(h, g, o, p, x)
  BY <1>1, <1>2, CompareSays
<1>5. \A m \in G \cup H \cup Before \cup After : \E o \in Settled : \E p, x : m = <<o, p, x>>
  <2>1. \A m \in Meaning(g) \cup Meaning(h) : \E o, p, x : m = <<o, p, x>>
    BY MeaningSays
  <2>2. \A m \in Said(changes, "before") \cup Said(changes, "after") : \E o, p, x : m = <<o, p, x>>
    BY SaidIs
  <2> QED BY <1>2, <2>1, <2>2
<1>6. \A o \in Settled : (\E r \in changes : r.orb = o) <=> \E p, x : ~(Says(g, o, p, x) <=> Says(h, o, p, x))
  <2> TAKE o \in Settled
  <2> DEFINE B == Snapshot(Fragments(g, from))
             C == Snapshot(Fragments(h, by))
             d == DiffFields(SideOf(B, o), SideOf(C, o))
  <2>1. DOMAIN B = DOMAIN g \cap Items /\ DOMAIN C = DOMAIN h \cap Items
    BY SnapshotIs
  <2>2. (\E r \in changes : r.orb = o) <=> \/ o \in DOMAIN B \ DOMAIN C \/ o \in DOMAIN C \ DOMAIN B \/ d # {}
    BY ItemRows
  <2>3. d # {} <=> ValOf(g, o) # ValOf(h, o) \/ LinksOf(g, o) # LinksOf(h, o)
    <3> DEFINE fv == [field |-> "val", before |-> ValOf(g, o), after |-> ValOf(h, o)]
               fr == [field |-> "refs", before |-> OrNone(LinksOf(g, o)), after |-> OrNone(LinksOf(h, o))]
    <3>1. \A f : f \in d <=> \/ ValOf(g, o) # ValOf(h, o) /\ f = fv
                             \/ LinksOf(g, o) # LinksOf(h, o) /\ f = fr
      BY <1>1, SettledFields
    <3> HIDE DEF d, fv, fr
    <3> QED BY <3>1
  <2> HIDE DEF B, C, d, changes
  <2> QED BY <1>1, <2>1, <2>2, <2>3, ItemIsExact
<1>7. \A m : m \in {r.orb : r \in changes} <=> \E r \in changes : r.orb = m
  OBVIOUS
<1> HIDE DEF changes, Settled, G, H, Before, After
<1>8. Before \subseteq G
  BY <1>3, <1>4, <1>5 DEF SaysAlone
<1>9. (G \ Before) \cup After = H
  BY <1>3, <1>4, <1>5, ItemIsExact
<1>10. {r.orb : r \in changes} \cap Settled = {m[1] : m \in (G \ H) \cup (H \ G)}
  <2> DEFINE D == (G \ H) \cup (H \ G)
  <2>1. \A o \in Settled : \A p, x : <<o, p, x>> \in D <=> ~(Says(g, o, p, x) <=> Says(h, o, p, x))
    BY <1>3
  <2>2. \A m \in D : \E o \in Settled : \E p, x : m = <<o, p, x>>
    BY <1>5
  <2> HIDE DEF D
  <2>3. \A m \in D : m[1] \in Settled /\ \E p, x : ~(Says(g, m[1], p, x) <=> Says(h, m[1], p, x))
    BY <1>2, <2>1, <2>2
  <2>4. ASSUME NEW o \in Settled, NEW p, NEW x, ~(Says(g, o, p, x) <=> Says(h, o, p, x))
        PROVE  \E m \in D : m[1] = o
    BY <1>2, <2>1, <2>4
  <2> QED BY <1>6, <1>7, <2>3, <2>4 DEF D
<1> QED BY <1>8, <1>9, <1>10 DEF Exact, changes, Settled, G, H, Before, After

-----------------------------------------------------------------------------
OwnedInv ==
    /\ Owned(blue) /\ (saved # None => Owned(saved))
    /\ \A c \in Clients : Owned(seen[c])

LEMMA OwnedSubgraph ==
    ASSUME NEW g, Owned(g)
    PROVE  Owned(Subgraph(g))
BY DEF Owned, Subgraph

LEMMA OwnedNoGraph == Owned(NoGraph)
BY DEF Owned, NoGraph

LEMMA WriteOwned ==
    ASSUME IInv, Owned(blue), NEW i \in Items,
           \/ \E v \in Vals \cup {None} : Edit(i, v)
           \/ \E S \in SUBSET (DOMAIN blue \ {i, Space}) : Link(i, S)
           \/ Add(i) \/ Remove(i)
    PROVE  Owned(blue')
<1>0. blue \in [DOMAIN blue -> Versioned]
  BY DEF IInv, TypeOK, IsGraph
<1>1. CASE \E n : i \in DOMAIN blue /\ n.uid = blue[i].uid /\ blue' = [blue EXCEPT ![i] = n]
  BY <1>0, <1>1 DEF Owned
<1>2. ASSUME NEW v \in Vals \cup {None}, Edit(i, v) PROVE Owned(blue')
  <2> DEFINE n == Node(blue[i].uid, v, blue[i].ver + 1, blue[i].refs)
  <2>1. i \in DOMAIN blue /\ n.uid = blue[i].uid /\ blue' = [blue EXCEPT ![i] = n]
    BY <1>2 DEF Edit, Node
  <2> HIDE DEF n
  <2>2. QED BY <1>1, <2>1
<1>3. ASSUME NEW S \in SUBSET (DOMAIN blue \ {i, Space}), Link(i, S) PROVE Owned(blue')
  <2> DEFINE n == Node(blue[i].uid, blue[i].val, blue[i].ver + 1, {blue[k].uid : k \in S})
  <2>1. i \in DOMAIN blue /\ n.uid = blue[i].uid /\ blue' = [blue EXCEPT ![i] = n]
    BY <1>3 DEF Link, Node
  <2> HIDE DEF n
  <2>2. QED BY <1>1, <2>1
<1>4. CASE Add(i)
  BY <1>4 DEF Add, Fresh, Node, Owned
<1>5. CASE Remove(i)
  <2>1. \A k \in DOMAIN blue : [blue[k] EXCEPT !.refs = @ \ {blue[i].uid}].uid = blue[k].uid
    BY <1>0 DEF Versioned
  <2>2. blue' = [k \in DOMAIN blue \ {i} |-> [blue[k] EXCEPT !.refs = @ \ {blue[i].uid}]]
    BY <1>5 DEF Remove
  <2>3. QED BY <2>1, <2>2 DEF Owned
<1>6. QED BY <1>2, <1>3, <1>4, <1>5

LEMMA GraphStepOwned ==
    ASSUME IInv, OwnedInv, GraphStep
    PROVE  OwnedInv'
<1>1. UNCHANGED <<seen>>
  BY GraphStepFrame DEF previewVars
<1>2. CASE \E i \in Items : \/ \E v \in Vals \cup {None} : Edit(i, v)
                            \/ \E S \in SUBSET (DOMAIN blue \ {i, Space}) : Link(i, S)
                            \/ Add(i) \/ Remove(i)
  <2>1. Owned(blue') /\ saved' = saved
    BY <1>2, WriteOwned, WriteTypes DEF OwnedInv
  <2>2. QED BY <1>1, <2>1 DEF OwnedInv
<1>3. CASE Backup
  BY <1>1, <1>3 DEF Backup, OwnedInv
<1>4. CASE RestoreDrop
  BY <1>1, <1>4, OwnedNoGraph DEF RestoreDrop, OwnedInv
<1>5. CASE \E B \in Batches : RestoreLoad(B)
  <2>1. PICK D : blue' = [i \in D |-> Loaded(i)] /\ saved' = saved
    BY <1>5 DEF RestoreLoad
  <2>2. \A i : Loaded(i).uid[1] = i
    BY DEF Loaded, Node
  <2>3. QED BY <1>1, <2>1, <2>2 DEF OwnedInv, Owned
<1>6. CASE RestoreDone \/ RestoreFails
  BY <1>1, <1>6 DEF RestoreDone, RestoreFails, OwnedInv
<1>7. \/ \E i \in Items : \/ \E v \in Vals \cup {None} : Edit(i, v)
                           \/ \E S \in SUBSET (DOMAIN blue \ {i, Space}) : Link(i, S)
                           \/ Add(i) \/ Remove(i)
      \/ Backup \/ RestoreDrop \/ (\E B \in Batches : RestoreLoad(B)) \/ RestoreDone \/ RestoreFails
  BY Zenon DEF GraphStep
<1>8. QED BY <1>2, <1>3, <1>4, <1>5, <1>6, <1>7, Zenon

\* What a job was given is what its operator saw, and nothing replaces it.
ReviewInv ==
    \A j \in Jobs : reviewed[j] # None => IsGraph(nodes[j]) /\ Meaning(nodes[j]) = reviewed[j]

LEMMA InitReviewed == Init => OwnedInv /\ ReviewInv /\ ShippedIsReviewed
<1> SUFFICES ASSUME Init PROVE OwnedInv /\ ReviewInv /\ ShippedIsReviewed
  OBVIOUS
<1>1. Owned(blue) /\ saved = None
  BY GuardedExportAssumption DEF Init, Owned
<1>2. QED BY <1>1, OwnedNoGraph DEF Init, OwnedInv, ReviewInv, ShippedIsReviewed

LEMMA ClientStepReviewed ==
    ASSUME IInv, OwnedInv, ReviewInv, ShippedIsReviewed, NEW c \in Clients, ClientStep(c)
    PROVE  OwnedInv' /\ ReviewInv' /\ ShippedIsReviewed'
<1>0. /\ IsGraph(blue) /\ \A d \in Clients : IsGraph(seen[d])
      /\ nodes = [j \in Jobs |-> nodes[j]] /\ reviewed = [j \in Jobs |-> reviewed[j]]
      /\ seen = [d \in Clients |-> seen[d]]
  BY DEF IInv, TypeOK, Shape
<1>1. UNCHANGED <<graphVars, artifacts>>
  BY ClientStepTypes
<1>2. ShippedIsReviewed'
  BY <1>1 DEF ShippedIsReviewed
<1>3. OwnedInv'
  <2>1. seen' = seen \/ \E g : Owned(g) /\ seen' = [seen EXCEPT ![c] = g]
    BY OwnedNoGraph, OwnedSubgraph DEF OwnedInv, ClientStep, Resolve, PreviewRead, PreviewFails, PreviewAnswer,
       Refused, Conflict, Trigger, Apply, Forget, previewVars
  <2>2. \A d \in Clients : Owned(seen'[d])
    BY <1>0, <2>1 DEF OwnedInv
  <2>3. QED BY <1>1, <2>2 DEF OwnedInv, graphVars
<1>4. CASE UNCHANGED jobVars
  BY <1>2, <1>3, <1>4 DEF jobVars, ReviewInv
<1>5. ASSUME NEW j \in Jobs, NEW g, NEW m, Create(j, g, m), m # None => IsGraph(g) /\ Meaning(g) = m
      PROVE  ReviewInv'
  <2>1. /\ nodes' = [i \in Jobs |-> IF i = j THEN g ELSE nodes[i]]
        /\ reviewed' = [i \in Jobs |-> IF i = j THEN m ELSE reviewed[i]]
    BY <1>0, <1>5 DEF Create
  <2>2. QED BY <1>5, <2>1 DEF ReviewInv
<1>6. ASSUME NEW j \in Jobs, Trigger(c, j) PROVE ReviewInv'
  BY <1>5, <1>6 DEF Trigger
<1>7. ASSUME NEW j \in Jobs, Apply(c, j) PROVE ReviewInv'
  <2>1. /\ IsGraph(Subgraph(blue)) /\ Owned(Subgraph(blue)) /\ IsGraph(seen[c]) /\ Owned(seen[c])
    BY <1>0, SubgraphIsGraph, OwnedSubgraph DEF OwnedInv
  <2>2. NormalizeCurrent(Subgraph(blue)) = NormalizeCurrent(seen[c]) /\ Create(j, Subgraph(blue), Meaning(seen[c]))
    BY <1>7 DEF Apply, Unchanged
  <2>3. Meaning(Subgraph(blue)) = Meaning(seen[c])
    BY <2>1, <2>2, SameSnapshot
  <2>4. QED BY <1>5, <2>1, <2>2, <2>3
<1>8. UNCHANGED jobVars \/ \E j \in Jobs : Trigger(c, j) \/ Apply(c, j)
  BY DEF ClientStep, Resolve, PreviewRead, PreviewFails, PreviewAnswer, Refused, Conflict
<1>9. QED BY <1>2, <1>3, <1>4, <1>6, <1>7, <1>8

LEMMA JobStepReviewed ==
    ASSUME IInv, OwnedInv, ReviewInv, ShippedIsReviewed, NEW j \in Jobs, JobStep(j)
    PROVE  OwnedInv' /\ ReviewInv' /\ ShippedIsReviewed'
<1>0. nodes = [i \in Jobs |-> nodes[i]] /\ reviewed = [i \in Jobs |-> reviewed[i]]
  BY DEF IInv, Shape
<1>1. OwnedInv'
  BY JobStepTypes DEF OwnedInv, graphVars, previewVars
<1>2. CASE Start(j)
  <2>1. nodes' = nodes \/ (nodes[j] = None /\ nodes' = [nodes EXCEPT ![j] = Subgraph(blue)])
    BY <1>2 DEF Start
  <2>2. nodes[j] = None => reviewed[j] = None
    BY GraphIsNotNone DEF ReviewInv
  <2>3. UNCHANGED <<reviewed, artifacts>>
    BY <1>2 DEF Start
  <2>4. \A i \in Jobs : reviewed[i] # None => nodes'[i] = nodes[i]
    BY <1>0, <2>1, <2>2
  <2>5. QED BY <1>1, <2>3, <2>4 DEF ReviewInv, ShippedIsReviewed
<1>3. ASSUME End(j) PROVE ReviewInv'
  <2>1. /\ nodes' = [i \in Jobs |-> IF i = j THEN None ELSE nodes[i]]
        /\ reviewed' = [i \in Jobs |-> IF i = j THEN None ELSE reviewed[i]]
    BY <1>0, <1>3 DEF End
  <2>2. QED BY <2>1 DEF ReviewInv
<1>4. CASE Publish(j)
  <2> DEFINE e == [graph |-> nodes[j], reviewed |-> reviewed[j], half |-> j \in half]
  <2>1. artifacts' = Append(artifacts, e) /\ End(j) /\ (e.reviewed # None => Meaning(e.graph) = e.reviewed)
    BY <1>4 DEF Publish, ReviewInv
  <2> HIDE DEF e
  <2>2. PICK S : artifacts \in Seq(S)
    BY DEF IInv, Shape
  <2>3. ShippedIsReviewed'
    BY <2>1, <2>2, AppendEffect DEF ShippedIsReviewed
  <2>4. QED BY <1>1, <1>3, <2>1, <2>3
<1>5. CASE JobFails(j)
  BY <1>1, <1>3, <1>5 DEF JobFails, ShippedIsReviewed
<1>6. QED BY <1>2, <1>4, <1>5 DEF JobStep

LEMMA StepReviewed ==
    IInv /\ OwnedInv /\ ReviewInv /\ ShippedIsReviewed /\ [Next]_vars
        => OwnedInv' /\ ReviewInv' /\ ShippedIsReviewed'
<1> SUFFICES ASSUME IInv, OwnedInv, ReviewInv, ShippedIsReviewed, [Next]_vars
             PROVE  OwnedInv' /\ ReviewInv' /\ ShippedIsReviewed'
  OBVIOUS
<1>1. CASE GraphStep
  <2>1. UNCHANGED <<artifacts, nodes, reviewed>>
    BY <1>1, GraphStepFrame DEF jobVars
  <2>2. QED BY <1>1, <2>1, GraphStepOwned DEF ReviewInv, ShippedIsReviewed
<1>2. CASE UNCHANGED vars
  BY <1>2 DEF vars, graphVars, previewVars, jobVars, OwnedInv, ReviewInv, ShippedIsReviewed
<1>3. ASSUME NEW c \in Clients, ClientStep(c) PROVE OwnedInv' /\ ReviewInv' /\ ShippedIsReviewed'
  BY <1>3, ClientStepReviewed
<1>4. ASSUME NEW j \in Jobs, JobStep(j) PROVE OwnedInv' /\ ReviewInv' /\ ShippedIsReviewed'
  BY <1>4, JobStepReviewed
<1>5. QED BY <1>1, <1>2, <1>3, <1>4, NextSteps

\* An artifact that was applied with the hash of a preview says what its operator
\* was shown, whatever was written or restored in between.
THEOREM ReviewedIsShipped == Spec => []ShippedIsReviewed
<1>1. Init => IInv /\ OwnedInv /\ ReviewInv /\ ShippedIsReviewed
  BY InitTypes, InitReviewed
<1>2. IInv /\ OwnedInv /\ ReviewInv /\ ShippedIsReviewed /\ [Next]_vars
        => (IInv /\ OwnedInv /\ ReviewInv /\ ShippedIsReviewed)'
  BY StepTypes, StepReviewed
<1>3. QED BY <1>1, <1>2, PTL DEF Spec

-----------------------------------------------------------------------------
(* Previews and comparisons are exact: every graph that meets a comparison    *)
(* is one in which a uid is of one node, and the rows a client holds are      *)
(* still those of the artifact and the subgraph they were made from.          *)

Answered(c) == Compare(Baseline(base[c]), NormalizeCurrent(seen[c]))
AnswerInv ==
    /\ rows = [c \in Clients |-> rows[c]]
    /\ \A c \in Clients : pc[c] \in {"reviewed", "applying"} /\ rows[c] # None => rows[c] = Answered(c)
GivenInv ==
    /\ \A j \in Jobs : nodes[j] # None => Owned(nodes[j])
    /\ \A k \in DOMAIN artifacts : Owned(artifacts[k].graph)

LEMMA ClientStepGiven ==
    ASSUME IInv, OwnedInv, GivenInv, NEW c \in Clients, ClientStep(c)
    PROVE  GivenInv'
<1>1. artifacts' = artifacts /\ nodes = [j \in Jobs |-> nodes[j]]
  BY ClientStepTypes DEF IInv, Shape
<1>2. nodes' = nodes \/ \E j \in Jobs : \E g \in {None, Subgraph(blue)} : nodes' = [nodes EXCEPT ![j] = g]
  BY DEF ClientStep, Resolve, PreviewRead, PreviewFails, PreviewAnswer, Refused, Conflict, Trigger, Apply, Create, jobVars
<1>3. Owned(Subgraph(blue))
  BY OwnedSubgraph DEF OwnedInv
<1> QED BY <1>1, <1>2, <1>3 DEF GivenInv

LEMMA JobStepGiven ==
    ASSUME IInv, OwnedInv, GivenInv, NEW j \in Jobs, JobStep(j)
    PROVE  GivenInv'
<1>1. nodes = [i \in Jobs |-> nodes[i]] /\ Owned(Subgraph(blue))
  BY OwnedSubgraph DEF IInv, Shape, OwnedInv
<1>2. nodes' = nodes \/ \E g \in {None, Subgraph(blue)} : nodes' = [nodes EXCEPT ![j] = g]
  BY DEF JobStep, Start, Publish, JobFails, End
<1>3. \A i \in Jobs : nodes'[i] # None => Owned(nodes'[i])
  BY <1>1, <1>2 DEF GivenInv
<1>4. CASE artifacts' = artifacts
  BY <1>3, <1>4 DEF GivenInv
<1>5. CASE Publish(j)
  <2> DEFINE e == [graph |-> nodes[j], reviewed |-> reviewed[j], half |-> j \in half]
  <2>1. artifacts' = Append(artifacts, e) /\ stage[j] = "completed"
    BY <1>5 DEF Publish
  <2>2. Owned(e.graph)
    BY <2>1, GraphIsNotNone DEF GivenInv, IInv, Shape
  <2> HIDE DEF e
  <2>3. PICK S : artifacts \in Seq(S)
    BY DEF IInv, Shape
  <2> QED BY <1>3, <2>1, <2>2, <2>3, AppendEffect DEF GivenInv
<1> QED BY <1>4, <1>5 DEF JobStep, Start, JobFails

\* What a client holds is made from artifacts that stay as they are.
LEMMA AnsweredStays ==
    ASSUME IInv, NEW c \in Clients, NEW S, artifacts \in Seq(S), NEW e,
           artifacts' = artifacts \/ artifacts' = Append(artifacts, e),
           base'[c] = base[c], seen'[c] = seen[c]
    PROVE  Answered(c)' = Answered(c)
<1>1. base[c] \in 0..Len(artifacts)
  BY DEF IInv, TypeOK
<1>2. base[c] # 0 => artifacts'[base[c]] = artifacts[base[c]]
  BY <1>1, AppendEffect
<1>3. Baseline(base[c])' = Baseline(base[c])
  BY <1>2 DEF Baseline
<1> QED BY <1>3 DEF Answered

LEMMA ClientStepAnswered ==
    ASSUME IInv, AnswerInv, NEW c \in Clients, ClientStep(c)
    PROVE  AnswerInv'
<1>1. /\ artifacts' = artifacts /\ \E S : artifacts \in Seq(S)
      /\ pc \in [Clients -> {"idle", "previewing", "read", "reviewed", "exporting", "applying"}]
      /\ seen = [d \in Clients |-> seen[d]] /\ base \in [Clients -> 0..Len(artifacts)]
      /\ rows = [d \in Clients |-> rows[d]]
  BY ClientStepTypes DEF IInv, TypeOK, Shape, AnswerInv
<1>2. \E s, b, r, to : /\ seen' = [seen EXCEPT ![c] = s] /\ base' = [base EXCEPT ![c] = b]
                       /\ rows' = [rows EXCEPT ![c] = r] /\ pc' = [pc EXCEPT ![c] = to]
  <2>1. /\ seen = [seen EXCEPT ![c] = seen[c]] /\ base = [base EXCEPT ![c] = base[c]]
        /\ rows = [rows EXCEPT ![c] = rows[c]]
    BY <1>1
  <2>2. CASE UNCHANGED previewVars
    BY <2>1, <2>2 DEF ClientStep, Resolve, PreviewRead, PreviewFails, PreviewAnswer, Refused, Conflict, Trigger, Apply,
       Goto, Forget, previewVars
  <2>3. CASE PreviewRead(c)
    BY <2>1, <2>3 DEF PreviewRead, Goto
  <2>4. CASE PreviewAnswer(c)
    <3>1. \E r : rows' = [rows EXCEPT ![c] = r]
      BY <2>4 DEF PreviewAnswer
    <3> QED BY <2>1, <2>4, <3>1 DEF PreviewAnswer, Goto
  <2>5. CASE Forget(c)
    BY <2>5 DEF ClientStep, Resolve, PreviewRead, PreviewFails, PreviewAnswer, Refused, Conflict, Trigger, Apply,
       Goto, Forget
  <2> QED BY <2>2, <2>3, <2>4, <2>5
       DEF ClientStep, Resolve, PreviewFails, Refused, Conflict, Trigger, Apply, previewVars
<1>3. \A d \in Clients : d # c => /\ pc'[d] = pc[d] /\ seen'[d] = seen[d] /\ base'[d] = base[d] /\ rows'[d] = rows[d]
  BY <1>1, <1>2
<1>4. rows' = [d \in Clients |-> rows'[d]]
  BY <1>1, <1>2
<1>5. ASSUME NEW d \in Clients, base'[d] = base[d], seen'[d] = seen[d]
      PROVE  Answered(d)' = Answered(d)
  BY <1>1, <1>5, AnsweredStays
<1>6. ASSUME pc'[c] \in {"reviewed", "applying"}, rows'[c] # None PROVE rows'[c] = Answered(c)'
  <2>1. CASE PreviewAnswer(c)
    <3>1. /\ seen' = seen /\ base'[c] = Len(artifacts)
          /\ rows' = [rows EXCEPT ![c] = Compare(Baseline(Len(artifacts)), NormalizeCurrent(seen[c]))]
             \/ rows' = [rows EXCEPT ![c] = None]
      BY <1>1, <2>1 DEF PreviewAnswer
    <3>2. rows'[c] = Compare(Baseline(Len(artifacts)), NormalizeCurrent(seen[c]))
      BY <1>1, <1>6, <3>1
    <3>3. Baseline(Len(artifacts))' = Baseline(Len(artifacts))
      BY <1>1 DEF Baseline
    <3>4. Baseline(base[c])' = Baseline(Len(artifacts))
      BY <1>1, <3>1 DEF Baseline
    <3> QED BY <3>1, <3>2, <3>4 DEF Answered
  <2>2. CASE Resolve(c) \/ Refused(c)
    <3>1. pc[c] \in {"reviewed", "applying"} /\ UNCHANGED previewVars
      BY <1>1, <1>6, <2>2 DEF Resolve, Refused, Goto
    <3> QED BY <1>5, <1>6, <3>1 DEF AnswerInv, previewVars
  <2>3. CASE PreviewRead(c) \/ PreviewFails(c) \/ Conflict(c) \/ \E j \in Jobs : Trigger(c, j) \/ Apply(c, j)
    BY <1>1, <1>6, <2>3 DEF PreviewRead, PreviewFails, Conflict, Trigger, Apply, Goto
  <2> QED BY <2>1, <2>2, <2>3 DEF ClientStep
<1>7. ASSUME NEW d \in Clients, d # c, pc'[d] \in {"reviewed", "applying"}, rows'[d] # None
      PROVE  rows'[d] = Answered(d)'
  BY <1>3, <1>5, <1>7 DEF AnswerInv
<1> QED BY <1>4, <1>6, <1>7 DEF AnswerInv

LEMMA StepExact ==
    ASSUME IInv, OwnedInv, GivenInv, AnswerInv, [Next]_vars
    PROVE  GivenInv' /\ AnswerInv'
<1>1. PICK S : artifacts \in Seq(S)
  BY DEF IInv, Shape
<1>2. ASSUME NEW e, artifacts' = artifacts \/ artifacts' = Append(artifacts, e), UNCHANGED <<pc, previewVars>>
      PROVE  AnswerInv'
  <2>1. \A c \in Clients : Answered(c)' = Answered(c)
    BY <1>1, <1>2, AnsweredStays DEF previewVars
  <2> QED BY <1>2, <2>1 DEF AnswerInv, previewVars
<1>3. CASE GraphStep
  <2>1. UNCHANGED <<artifacts, nodes, pc, previewVars>>
    BY <1>3, GraphStepFrame DEF jobVars
  <2> QED BY <1>2, <2>1 DEF GivenInv
<1>4. CASE UNCHANGED vars
  <2>1. UNCHANGED <<artifacts, nodes, pc, previewVars>>
    BY <1>4 DEF vars, jobVars
  <2> QED BY <1>2, <2>1 DEF GivenInv
<1>5. ASSUME NEW c \in Clients, ClientStep(c) PROVE GivenInv' /\ AnswerInv'
  BY <1>5, ClientStepGiven, ClientStepAnswered
<1>6. ASSUME NEW j \in Jobs, JobStep(j) PROVE GivenInv' /\ AnswerInv'
  <2>1. UNCHANGED <<pc, previewVars>>
    BY <1>6, JobStepTypes
  <2>2. artifacts' = artifacts \/ \E e : artifacts' = Append(artifacts, e)
    BY <1>6 DEF JobStep, Start, Publish, JobFails
  <2> QED BY <1>2, <1>6, <2>1, <2>2, JobStepGiven
<1> QED BY <1>3, <1>4, <1>5, <1>6, NextSteps

LEMMA ExactlyShown ==
    ASSUME IInv, OwnedInv, GivenInv, AnswerInv
    PROVE  DiffsAreExact
<1> DEFINE Published(k) == IF k = 0 THEN NoGraph ELSE artifacts[k].graph
<1>1. PICK S : artifacts \in Seq(S)
  BY DEF IInv, Shape
<1>2. DOMAIN artifacts = 1..Len(artifacts) /\ Len(artifacts) \in Nat
  BY <1>1, LenProperties
<1>3. ASSUME NEW k \in 0..Len(artifacts)
      PROVE  /\ IsGraph(Published(k)) /\ Owned(Published(k))
             /\ Baseline(k) = Snapshot(Fragments(Published(k), "export"))
  <2>1. k # 0 => k \in DOMAIN artifacts
    BY <1>2, <1>3
  <2> QED BY <2>1, NoGraphIsGraph, OwnedNoGraph DEF IInv, TypeOK, GivenInv, Baseline, NormalizeExport
<1>4. ASSUME NEW c \in Clients, pc[c] = "reviewed", rows[c] # None
      PROVE  Exact(rows[c], Published(base[c]), seen[c])
  <2>1. base[c] \in 0..Len(artifacts) /\ IsGraph(seen[c]) /\ Owned(seen[c])
    BY DEF IInv, TypeOK, OwnedInv
  <2>2. rows[c] = Compare(Snapshot(Fragments(Published(base[c]), "export")), Snapshot(Fragments(seen[c], "dql")))
    BY <1>3, <1>4, <2>1 DEF AnswerInv, Answered, NormalizeCurrent
  <2> HIDE DEF Published
  <2> QED BY <1>3, <2>1, <2>2, CompareIsExact
<1>5. ASSUME NEW k \in DOMAIN artifacts, NEW l \in DOMAIN artifacts
      PROVE  Exact(Compare(Baseline(k), Baseline(l)), artifacts[k].graph, artifacts[l].graph)
  <2>1. k \in 0..Len(artifacts) /\ l \in 0..Len(artifacts) /\ k # 0 /\ l # 0
    BY <1>2
  <2>2. Published(k) = artifacts[k].graph /\ Published(l) = artifacts[l].graph
    BY <2>1
  <2> HIDE DEF Published
  <2>3. Exact(Compare(Baseline(k), Baseline(l)), Published(k), Published(l))
    BY <1>3, <2>1, CompareIsExact
  <2> QED BY <2>2, <2>3
<1> QED BY <1>4, <1>5 DEF DiffsAreExact

\* A preview shows the differences between the last artifact and the graph, and a
\* comparison those of two artifacts, for any graph: none is missing, and neither
\* new uids nor saves nor the encoding of booleans make one.
THEOREM DifferencesAreShown == Spec => []DiffsAreExact
<1> DEFINE Inv == IInv /\ OwnedInv /\ ReviewInv /\ ShippedIsReviewed /\ GivenInv /\ AnswerInv
<1>1. Init => Inv
  <2>1. Init => GivenInv /\ AnswerInv
    BY DEF Init, GivenInv, AnswerInv
  <2> QED BY <2>1, InitTypes, InitReviewed
<1>2. Inv /\ [Next]_vars => Inv'
  BY StepTypes, StepReviewed, StepExact
<1>3. Inv => DiffsAreExact
  BY ExactlyShown
<1> QED BY <1>1, <1>2, <1>3, PTL DEF Spec
=============================================================================
