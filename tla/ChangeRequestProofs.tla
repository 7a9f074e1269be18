------------------------- MODULE ChangeRequestProofs -------------------------
(***************************************************************************)
(* Theorems about ChangeRequest, for any number of requests, users, nodes  *)
(* and changesets, whatever writes fail: a request marked merged took      *)
(* effect, a merge that stopped half-way can be tried again, and a merge   *)
(* writes what was reviewed, when amendments overlap with nothing else.    *)
(***************************************************************************)
EXTENDS ChangeRequest, FiniteSetTheorems, TLAPS

-----------------------------------------------------------------------------
(* Types.                                                                  *)

\* What each stage is about: its operation, and the items that are left.
Staged(w) ==
    /\ pc[w] \notin {"idle", "done"} => job[w].op \in Ops
    /\ pc[w] = "record" => job[w].op \in {"approve", "reject"}
    /\ pc[w] = "anchor" => job[w].op = "approve"
    /\ pc[w] \in {"capture", "store"} => job[w].op = "amend"
    /\ pc[w] \in {"plan", "targets", "apply", "rebase", "restamp"} => job[w].op = "merge"
    /\ pc[w] = "save" => job[w].op \in {"reject", "close", "merge"}
    /\ pc[w] \in {"targets", "apply"} => job[w].todo \subseteq DOMAIN job[w].row.payload

TypeInv == TypeOK /\ \A w \in Requests : Staged(w)

Item == [node : Nodes, op : {"upsert", "delete"}, val : Vals, pinned : BOOLEAN]

LEMMA ProposalType ==
    ASSUME NEW p \in Proposals
    PROVE  /\ p \in Seq(Item) /\ DOMAIN p \subseteq Nat
           /\ \A i \in DOMAIN p : p[i] \in Item
<1>1. p \in Seq(Item)
  BY ChangeRequestAssumption DEF Item
<1> QED BY <1>1

LEMMA ScopeType ==
    ASSUME NEW p \in Proposals
    PROVE  ScopeOf(p) \in SUBSET Nodes /\ Declared(p) \in SUBSET Nodes
<1>1. Declared(p) \in SUBSET Nodes
  BY ProposalType DEF Declared, Item
<1>2. \A n \in Nodes : Pages[n] \in SUBSET Nodes
  BY ChangeRequestAssumption
<1> QED BY <1>1, <1>2 DEF ScopeOf

LEMMA VersionsType ==
    ASSUME ver \in Versions, NEW scope
    PROVE  VersionsOf(scope) \in Versions
  BY DEF VersionsOf, Versions

LEMMA WantType ==
    ASSUME NEW p, NEW v \in Versions
    PROVE  WantOf(p, v) \in Versions
  BY DEF WantOf, Versions

LEMMA BaseType ==
    ASSUME val \in Content, NEW p
    PROVE  BaseValues(p) \in Content
  BY DEF BaseValues, Content

LEMMA ZeroType == Zero \in Versions /\ Nothing \in Content
  BY DEF Zero, Nothing, Versions, Content

LEMMA OpenedType ==
    ASSUME ver \in Versions, val \in Content, NEW p \in Proposals
    PROVE  Opened(p) \in Row
<1>1. /\ VersionsOf(ScopeOf(p)) \in Versions /\ ScopeOf(p) \in SUBSET Nodes
      /\ BaseValues(p) \in Content
  BY VersionsType, ScopeType, BaseType
<1>2. WantOf(p, VersionsOf(ScopeOf(p))) \in Versions
  BY <1>1, WantType
<1>3. PresentIn(VersionsOf(ScopeOf(p))) \in SUBSET Nodes
  BY DEF PresentIn
<1> QED BY <1>1, <1>2, <1>3 DEF Opened, Row

LEMMA NoJobType ==
    ASSUME Proposals # {}
    PROVE  NoJob \in Job
<1>1. NoRow \in Row
  BY ZeroType DEF NoRow, Row
<1>2. [u \in Users |-> Undecided] \in [Users -> Decision]
  BY ZeroType DEF Undecided, Decision
<1> QED BY <1>1, <1>2, ZeroType, ChangeRequestAssumption DEF NoJob, Job

\* One request moves, to a stage for which it has what the stage needs.
LEMMA RequestMoves ==
    ASSUME TypeInv, NEW w \in Requests, NEW j \in Job, NEW stage \in Stages,
           pc' = [pc EXCEPT ![w] = stage], job' = [job EXCEPT ![w] = j],
           Staged(w)'
    PROVE  /\ pc' \in [Requests -> Stages] /\ job' \in [Requests -> Job]
           /\ \A x \in Requests : Staged(x)'
<1>1. pc \in [Requests -> Stages] /\ job \in [Requests -> Job]
  BY DEF TypeInv, TypeOK
<1>2. \A x \in Requests : x # w => pc'[x] = pc[x] /\ job'[x] = job[x]
  BY <1>1
<1>3. ASSUME NEW x \in Requests PROVE Staged(x)'
  <2>1. CASE x = w
    BY <2>1
  <2>2. CASE x # w
    BY <1>2, <2>2 DEF TypeInv, Staged
  <2> QED BY <2>1, <2>2
<1> QED BY <1>1, <1>3

LEMMA AnswerType ==
    ASSUME TypeInv, NEW w \in Requests, Answer(w)
    PROVE  /\ pc' \in [Requests -> Stages] /\ job' \in [Requests -> Job]
           /\ foreign' \in [Requests -> SUBSET Nodes]
           /\ \A x \in Requests : Staged(x)'
<1>1. cr.payload \in Proposals /\ pc \in [Requests -> Stages] /\ job \in [Requests -> Job]
      /\ foreign \in [Requests -> SUBSET Nodes]
  BY DEF TypeInv, TypeOK, Row
<1>2. NoJob \in Job
  BY <1>1, NoJobType
<1>3. pc'[w] = "done"
  BY <1>1 DEF Answer, Goto
<1>4. Staged(w)'
  BY <1>3 DEF Staged
<1>5. foreign' \in [Requests -> SUBSET Nodes]
  BY <1>1 DEF Answer
<1> QED BY <1>2, <1>4, <1>5, RequestMoves DEF Answer, Goto, Stages

LEMMA RefuseType ==
    ASSUME TypeInv, NEW w \in Requests, Refuse(w)
    PROVE  TypeInv'
  BY AnswerType DEF Refuse, TypeInv, TypeOK, graph

LEMMA LoadType ==
    ASSUME TypeInv, NEW w \in Requests, Load(w)
    PROVE  TypeInv'
<1>1. PICK op \in Ops, u \in Users, p \in Proposals :
        job' = [job EXCEPT ![w] = [NoJob EXCEPT !.op = op, !.who = u, !.votes = appr,
                                                !.row = [cr EXCEPT !.payload = p]]]
  BY DEF Load
<1> DEFINE j == [NoJob EXCEPT !.op = op, !.who = u, !.votes = appr, !.row = [cr EXCEPT !.payload = p]]
<1>2. NoJob \in Job
  BY NoJobType
<1>3. [cr EXCEPT !.payload = p] \in Row
  BY DEF TypeInv, TypeOK, Row
<1>4. j \in Job /\ j.op = op
  BY <1>2, <1>3 DEF TypeInv, TypeOK, Job
<1>5. pc'[w] = "state" /\ job'[w] = j
  BY <1>1 DEF Load, Goto, TypeInv, TypeOK
<1>6. Staged(w)'
  BY <1>4, <1>5 DEF Staged
<1>7. "state" \in Stages /\ pc' = [pc EXCEPT ![w] = "state"] /\ job' = [job EXCEPT ![w] = j]
  BY <1>1 DEF Load, Goto, Stages
<1>8. /\ pc' \in [Requests -> Stages] /\ job' \in [Requests -> Job]
      /\ \A x \in Requests : Staged(x)'
  BY <1>4, <1>6, <1>7, RequestMoves
<1> QED BY <1>8 DEF Load, TypeInv, TypeOK, graph, ghost

LEMMA StateType ==
    ASSUME TypeInv, NEW w \in Requests, State(w)
    PROVE  TypeInv'
<1> DEFINE v == VersionsOf(job[w].row.scope)
           seen == IF job[w].op = "approve" THEN val ELSE Nothing
           j == [job[w] EXCEPT !.base = v, !.seen = seen]
<1>1. CASE ~Permitted(w, v)
  BY <1>1, RefuseType DEF State
<1>2. CASE Permitted(w, v)
  <2>1. /\ job' = [job EXCEPT ![w].base = v, ![w].seen = seen]
        /\ pc' = [pc EXCEPT ![w] = First[job[w].op]]
        /\ UNCHANGED <<graph, cr, appr, writes, ghost>>
    BY <1>2 DEF State, Goto
  <2>2. job \in [Requests -> Job] /\ v \in Versions /\ seen \in Content
    BY VersionsType, ZeroType DEF TypeInv, TypeOK
  <2>3. j \in Job /\ j.op = job[w].op /\ j.row = job[w].row
    BY <2>2, ZenonT(40) DEF Job
  <2>4. job' = [job EXCEPT ![w] = j]
    BY <2>1, <2>2 DEF Job
  <2>5. job[w].op \in {"approve", "reject", "close", "amend", "merge"}
    BY <1>2 DEF Permitted
  <2>6. job[w].op \in Ops
    BY DEF TypeInv, Staged, State
  <2>7. First[job[w].op] \in Stages
    BY <2>5 DEF First, Stages
  <2>8. Staged(w)'
    <3>1. job'[w].op = job[w].op /\ pc'[w] = First[job[w].op]
      BY <2>1, <2>2, <2>3, <2>4 DEF TypeInv, TypeOK
    <3> QED BY <2>5, <2>6, <3>1 DEF Staged, First
  <2>9. /\ pc' \in [Requests -> Stages] /\ job' \in [Requests -> Job]
        /\ \A x \in Requests : Staged(x)'
    BY <2>1, <2>3, <2>4, <2>7, <2>8, RequestMoves
  <2> QED BY <2>1, <2>9 DEF TypeInv, TypeOK, graph, ghost
<1> QED BY <1>1, <1>2

LEMMA RecordType ==
    ASSUME TypeInv, NEW w \in Requests, Record(w)
    PROVE  TypeInv'
<1> DEFINE stage == IF job[w].op = "approve" THEN "anchor" ELSE "save"
<1>1. job \in [Requests -> Job] /\ job[w] \in Job
  BY DEF TypeInv, TypeOK
<1>2. job[w].op \in {"approve", "reject"} /\ job[w].op \in Ops
  BY DEF TypeInv, Staged, Record
<1>3. pc'[w] = stage /\ stage \in Stages /\ job' = job /\ job = [job EXCEPT ![w] = job[w]]
  BY <1>1 DEF Record, Goto, TypeInv, TypeOK, Stages
<1>4. Staged(w)'
  BY <1>2, <1>3 DEF Staged
<1>5. /\ pc' \in [Requests -> Stages] /\ job' \in [Requests -> Job]
      /\ \A x \in Requests : Staged(x)'
  BY <1>1, <1>3, <1>4, RequestMoves DEF Record, Goto
<1>6. appr' \in [Users -> Decision]
  <2>1. [decision |-> IF job[w].op = "approve" THEN "approved" ELSE "rejected",
         hash |-> job[w].base, revision |-> job[w].row.revision] \in Decision
    BY <1>1 DEF Job, Row, Decision
  <2> QED BY <2>1 DEF Record, TypeInv, TypeOK
<1>7. endorsed' \subseteq Users \X Proposals \X Content
  <2>1. <<job[w].who, job[w].row.payload, job[w].seen>> \in Users \X Proposals \X Content
    BY <1>1 DEF Job, Row
  <2> QED BY <2>1 DEF Record, TypeInv, TypeOK
<1> QED BY <1>5, <1>6, <1>7 DEF Record, TypeInv, TypeOK, graph

LEMMA AnchorType ==
    ASSUME TypeInv, NEW w \in Requests, Anchor(w)
    PROVE  TypeInv'
<1>1. job[w] \in Job /\ cr \in Row /\ val \in Content
  BY DEF TypeInv, TypeOK
<1>2. cr' \in Row
  <2>1. job[w].base \in Versions /\ BaseValues(job[w].row.payload) \in Content
    BY <1>1, BaseType DEF Job
  <2> QED BY <1>1, <2>1 DEF Anchor, Row
<1>3. unwatched' \subseteq Nodes
  BY DEF Anchor, TypeInv, TypeOK
<1> QED BY <1>2, <1>3, AnswerType DEF Anchor, TypeInv, TypeOK, graph

LEMMA SaveType ==
    ASSUME TypeInv, NEW w \in Requests, Save(w)
    PROVE  TypeInv'
<1>1. Ended[job[w].op] \in {"rejected", "closed", "merged"}
  BY DEF Save, TypeInv, Staged, Ended
<1>2. cr' \in Row
  BY <1>1 DEF Save, TypeInv, TypeOK, Row
<1> QED BY <1>2, AnswerType DEF Save, TypeInv, TypeOK, graph

LEMMA CaptureType ==
    ASSUME TypeInv, NEW w \in Requests, Capture(w)
    PROVE  TypeInv'
<1> DEFINE p == job[w].row.payload
           v == VersionsOf(ScopeOf(p))
           row == [job[w].row EXCEPT !.want = WantOf(p, v), !.scope = ScopeOf(p)]
           j == [job[w] EXCEPT !.base = v, !.row = row]
<1>1. CASE ~Valid(p)
  BY <1>1, RefuseType DEF Capture
<1>2. CASE Valid(p)
  <2>1. /\ job' = [job EXCEPT ![w].base = v, ![w].row.want = WantOf(p, v), ![w].row.scope = ScopeOf(p)]
        /\ pc' = [pc EXCEPT ![w] = "store"]
        /\ UNCHANGED <<graph, cr, appr, writes, ghost>>
    BY <1>2 DEF Capture, Goto
  <2>2. job \in [Requests -> Job] /\ p \in Proposals /\ job[w].row \in Row
    BY DEF TypeInv, TypeOK, Job, Row
  <2>3. v \in Versions /\ ScopeOf(p) \in SUBSET Nodes
    BY <2>2, VersionsType, ScopeType DEF TypeInv, TypeOK
  <2>4. WantOf(p, v) \in Versions
    BY <2>3, WantType
  <2>5. row \in Row
    BY <2>2, <2>3, <2>4 DEF Row
  <2>6. j \in Job /\ j.op = job[w].op
    BY <2>2, <2>3, <2>5, ZenonT(40) DEF Job
  <2>7. job' = [job EXCEPT ![w] = j]
    <3>1. job[w] \in Job /\ DOMAIN job = Requests
      BY <2>2
    <3>2. job' = [job EXCEPT ![w] = [[[@ EXCEPT !.base = v] EXCEPT !.row.want = WantOf(p, v)]
                                       EXCEPT !.row.scope = ScopeOf(p)]]
      BY <2>1, <3>1
    <3>3. [[[job[w] EXCEPT !.base = v] EXCEPT !.row.want = WantOf(p, v)]
                                       EXCEPT !.row.scope = ScopeOf(p)] = j
      BY <3>1, <2>2 DEF Job, Row
    <3> QED BY <3>1, <3>2, <3>3
  <2>8. job[w].op \in Ops /\ job[w].op = "amend"
    BY DEF Capture, TypeInv, Staged
  <2>9. Staged(w)'
    <3>1. job'[w].op = "amend" /\ pc'[w] = "store"
      BY <2>1, <2>2, <2>6, <2>7, <2>8 DEF TypeInv, TypeOK
    <3> QED BY <2>8, <3>1 DEF Staged
  <2>10. /\ pc' \in [Requests -> Stages] /\ job' \in [Requests -> Job]
         /\ \A x \in Requests : Staged(x)'
    BY <2>1, <2>6, <2>7, <2>9, RequestMoves DEF Stages
  <2> QED BY <2>1, <2>10 DEF TypeInv, TypeOK, graph, ghost
<1> QED BY <1>1, <1>2

LEMMA StoreType ==
    ASSUME TypeInv, NEW w \in Requests, Store(w)
    PROVE  TypeInv'
<1>1. job[w] \in Job /\ cr \in Row /\ val \in Content
  BY DEF TypeInv, TypeOK
<1>2. PresentIn(job[w].base) \in SUBSET Nodes /\ BaseValues(job[w].row.payload) \in Content
      /\ job[w].row \in Row /\ job[w].base \in Versions
  BY <1>1, BaseType DEF PresentIn, Job
<1>3. cr' \in Row
  <2> DEFINE values == IF BaseValues(job[w].row.payload) # Nothing
                       THEN BaseValues(job[w].row.payload) ELSE cr.values
             present == PresentIn(job[w].base)
  <2>1. cr' = [cr EXCEPT !.payload = job[w].row.payload, !.revision = job[w].row.revision + 1,
                         !.want = job[w].row.want, !.scope = job[w].row.scope,
                         !.hash = job[w].base, !.present = present, !.values = values]
    BY <1>1 DEF Store, Row
  <2>2. values \in Content /\ present \in SUBSET Nodes
    BY <1>1, <1>2 DEF Row
  <2>3. /\ job[w].row.payload \in Proposals /\ job[w].row.want \in Versions
        /\ job[w].row.scope \in SUBSET Nodes /\ job[w].row.revision + 1 \in Nat
    BY <1>2 DEF Row
  <2> HIDE DEF values, present
  <2>4. cr' = [status |-> cr.status, revision |-> job[w].row.revision + 1,
               payload |-> job[w].row.payload, want |-> job[w].row.want,
               scope |-> job[w].row.scope, hash |-> job[w].base, present |-> present,
               values |-> values]
    BY <1>1, <2>1 DEF Row
  <2> QED BY <1>1, <1>2, <2>2, <2>3, <2>4 DEF Row
<1> QED BY <1>3, AnswerType DEF Store, TypeInv, TypeOK, graph

LEMMA PlanType ==
    ASSUME TypeInv, NEW w \in Requests, Plan(w)
    PROVE  TypeInv'
<1> DEFINE p == job[w].row.payload
           todo == {i \in DOMAIN p : HasAncestor(job[w].row) => ~Drops(job[w].row, p[i])}
           j == [job[w] EXCEPT !.todo = todo]
<1>1. CASE Refuse(w)
  BY <1>1, RefuseType
<1>2. CASE /\ job' = [job EXCEPT ![w].todo = todo]
           /\ pc' = [pc EXCEPT ![w] = "targets"]
           /\ UNCHANGED <<graph, cr, appr, writes, ghost>>
  <2>1. job \in [Requests -> Job] /\ p \in Proposals
    BY DEF TypeInv, TypeOK, Job, Row
  <2>2. todo \in SUBSET Nat
    BY <2>1, ProposalType
  <2>3. j \in Job /\ j.op = job[w].op /\ j.row = job[w].row /\ j.todo = todo
    BY <2>1, <2>2 DEF Job
  <2>4. job' = [job EXCEPT ![w] = j]
    BY <1>2, <2>1 DEF Job
  <2>5. job[w].op \in Ops /\ job[w].op = "merge"
    BY DEF Plan, TypeInv, Staged
  <2>6. Staged(w)'
    <3>1. job'[w] = j /\ pc'[w] = "targets"
      BY <1>2, <2>1, <2>4 DEF TypeInv, TypeOK
    <3> QED BY <2>3, <2>5, <3>1 DEF Staged
  <2>7. /\ pc' \in [Requests -> Stages] /\ job' \in [Requests -> Job]
        /\ \A x \in Requests : Staged(x)'
    BY <1>2, <2>3, <2>4, <2>6, RequestMoves DEF Stages
  <2> QED BY <1>2, <2>7 DEF TypeInv, TypeOK, graph, ghost
<1> QED BY <1>1, <1>2 DEF Plan, Goto

LEMMA TargetsType ==
    ASSUME TypeInv, NEW w \in Requests, Targets(w)
    PROVE  TypeInv'
<1> DEFINE j == [job[w] EXCEPT !.target = ver]
           stage == IF job[w].todo = {} THEN "save" ELSE "apply"
<1>1. job \in [Requests -> Job] /\ ver \in Versions
  BY DEF TypeInv, TypeOK
<1>2. j \in Job /\ j.op = job[w].op /\ j.row = job[w].row /\ j.todo = job[w].todo
  BY <1>1 DEF Job
<1>3. job' = [job EXCEPT ![w] = j]
  BY <1>1 DEF Targets, Job
<1>4. job[w].op \in Ops /\ job[w].op = "merge" /\ job[w].todo \subseteq DOMAIN job[w].row.payload
  BY DEF Targets, TypeInv, Staged
<1>5. Staged(w)'
  <2>1. job'[w] = j /\ pc'[w] = stage
    BY <1>1, <1>3 DEF Targets, Goto, TypeInv, TypeOK
  <2> QED BY <1>2, <1>4, <2>1 DEF Staged
<1>6. /\ pc' \in [Requests -> Stages] /\ job' \in [Requests -> Job]
      /\ \A x \in Requests : Staged(x)'
  BY <1>2, <1>3, <1>5, RequestMoves DEF Targets, Goto, Stages
<1> QED BY <1>6 DEF Targets, TypeInv, TypeOK, graph, ghost

\* A write of the graph, by whoever.
LEMMA WroteType ==
    ASSUME TypeOK, NEW who, NEW n \in Nodes, NEW version \in Nat, NEW content \in Vals \cup {None},
           Wrote(who, n, version, content)
    PROVE  /\ ver' \in Versions /\ val' \in Content
           /\ foreign' \in [Requests -> SUBSET Nodes]
           /\ unwatched' \subseteq Nodes /\ reused' \subseteq Nodes
  BY DEF TypeOK, Wrote, Versions, Content

LEMMA ApplyType ==
    ASSUME TypeInv, NEW w \in Requests, Apply(w)
    PROVE  TypeInv'
<1>1. PICK i \in job[w].todo, outcome \in {"written", "refused"} \cup Faults :
        /\ IF outcome = "refused"
           THEN UNCHANGED <<graph, foreign, unwatched, reused>>
           ELSE Written(w, job[w].row.payload[i])
        /\ job' = [job EXCEPT ![w].todo = Left(w, i, outcome # "written"),
                              ![w].applied = IF outcome # "written" THEN @ ELSE @ \cup {job[w].row.payload[i].node},
                              ![w].failed = outcome # "written", ![w].lost = outcome = "lost"]
        /\ Goto(w, IF outcome # "written" THEN "rebase"
                   ELSE IF Left(w, i, outcome # "written") = {} THEN "save" ELSE "apply")
  BY DEF Apply
<1> DEFINE item == job[w].row.payload[i]
           failed == outcome # "written"
           lost == outcome = "lost"
           left == Left(w, i, failed)
           applied == IF failed THEN job[w].applied ELSE job[w].applied \cup {item.node}
           stage == IF failed THEN "rebase" ELSE IF left = {} THEN "save" ELSE "apply"
           j == [job[w] EXCEPT !.todo = left, !.applied = applied, !.failed = failed, !.lost = lost]
<1>2. /\ job \in [Requests -> Job] /\ job[w] \in Job /\ DOMAIN job = Requests
      /\ job[w].row.payload \in Proposals /\ job[w].todo \subseteq DOMAIN job[w].row.payload
      /\ job[w].op \in Ops /\ job[w].op = "merge"
  BY DEF Apply, TypeInv, TypeOK, Staged, Job, Row
<1>3. item \in Item
  BY <1>1, <1>2, ProposalType
<1>4. left \in SUBSET Nat /\ left \subseteq DOMAIN job[w].row.payload
  BY <1>2 DEF Left, Job
<1>5. applied \in SUBSET Nodes /\ failed \in BOOLEAN /\ lost \in BOOLEAN
  BY <1>2, <1>3 DEF Job, Item
<1>6. job' = [job EXCEPT ![w] = j]
  BY <1>1, <1>2 DEF Job
<1> HIDE DEF left, applied, failed, lost
<1>7. j \in Job /\ j.op = job[w].op /\ j.row = job[w].row /\ j.todo = left
  BY <1>2, <1>4, <1>5 DEF Job
<1>8. pc' = [pc EXCEPT ![w] = stage] /\ stage \in Stages
  BY <1>1 DEF Goto, Stages, left, failed
<1>9. Staged(w)'
  <2>1. job'[w] = j /\ pc'[w] = stage
    BY <1>2, <1>6, <1>8 DEF TypeInv, TypeOK
  <2> QED BY <1>2, <1>4, <1>7, <2>1 DEF Staged
<1>10. /\ pc' \in [Requests -> Stages] /\ job' \in [Requests -> Job]
       /\ \A x \in Requests : Staged(x)'
  BY <1>6, <1>7, <1>8, <1>9, RequestMoves
<1>11. /\ ver' \in Versions /\ val' \in Content
       /\ foreign' \in [Requests -> SUBSET Nodes]
       /\ unwatched' \subseteq Nodes /\ reused' \subseteq Nodes
  <2>1. CASE UNCHANGED <<graph, foreign, unwatched, reused>>
    BY <2>1 DEF TypeInv, TypeOK, graph
  <2>2. CASE Written(w, item)
    <3>1. /\ item.node \in Nodes /\ item.val \in Vals \cup {None} /\ None \in Vals \cup {None}
          /\ job[w].target[item.node] + 1 \in Nat /\ 0 \in Nat /\ TypeOK
      BY <1>2, <1>3 DEF Item, Job, Versions, TypeInv
    <3> HIDE DEF item
    <3>2. CASE Wrote(w, item.node, job[w].target[item.node] + 1, item.val)
      BY <3>1, <3>2, WroteType
    <3>3. CASE Wrote(w, item.node, 0, None)
      BY <3>1, <3>3, WroteType
    <3>4. CASE UNCHANGED <<graph, foreign, unwatched, reused>>
      BY <2>1, <3>4
    <3> QED BY <2>2, <3>2, <3>3, <3>4 DEF Written
  <2> QED BY <1>1, <2>1, <2>2
<1> QED BY <1>10, <1>11 DEF Apply, TypeInv, TypeOK

LEMMA RebaseType ==
    ASSUME TypeInv, NEW w \in Requests, Rebase(w)
    PROVE  TypeInv'
<1> DEFINE after == VersionsOf(job[w].row.scope)
           j == [job[w] EXCEPT !.after = after]
<1>1. CASE Answer(w) /\ UNCHANGED <<cr, unwatched>>
  BY <1>1, AnswerType DEF Rebase, TypeInv, TypeOK, graph
<1>2. CASE /\ cr' = [cr EXCEPT !.hash = after]
           /\ job' = [job EXCEPT ![w].after = after]
           /\ unwatched' = unwatched \cup (foreign[w] \cap job[w].applied)
           /\ Goto(w, "restamp")
           /\ UNCHANGED foreign
  <2>1. /\ job \in [Requests -> Job] /\ job[w] \in Job /\ after \in Versions
        /\ job[w].op \in Ops /\ job[w].op = "merge"
    BY VersionsType DEF Rebase, TypeInv, TypeOK, Staged
  <2>2. j \in Job /\ j.op = job[w].op
    BY <2>1 DEF Job
  <2>3. job' = [job EXCEPT ![w] = j]
    BY <1>2, <2>1 DEF Job
  <2>4. Staged(w)'
    <3>1. job'[w] = j /\ pc'[w] = "restamp"
      BY <1>2, <2>1, <2>3 DEF Goto, TypeInv, TypeOK
    <3> QED BY <2>1, <2>2, <3>1 DEF Staged
  <2>5. /\ pc' \in [Requests -> Stages] /\ job' \in [Requests -> Job]
        /\ \A x \in Requests : Staged(x)'
    BY <1>2, <2>2, <2>3, <2>4, RequestMoves DEF Goto, Stages
  <2>6. cr' \in Row /\ unwatched' \subseteq Nodes
    BY <1>2, <2>1 DEF TypeInv, TypeOK, Row
  <2> QED BY <1>2, <2>5, <2>6 DEF Rebase, TypeInv, TypeOK, graph
<1> QED BY <1>1, <1>2 DEF Rebase

LEMMA RestampType ==
    ASSUME TypeInv, NEW w \in Requests, Restamp(w)
    PROVE  TypeInv'
<1>1. appr' \in [Users -> Decision]
  <2>1. job[w].after \in Versions /\ appr \in [Users -> Decision]
    BY DEF TypeInv, TypeOK, Job
  <2>2. \A u \in Users : [appr[u] EXCEPT !.hash = job[w].after] \in Decision
    BY <2>1 DEF Decision
  <2> QED BY <2>1, <2>2 DEF Restamp
<1> QED BY <1>1, AnswerType DEF Restamp, TypeInv, TypeOK, graph

LEMMA OthersType ==
    ASSUME TypeInv, OthersWrite
    PROVE  TypeInv'
<1>1. PICK n \in Nodes :
          \/ \E v \in Vals \ {val[n]} : Exists(n) /\ Wrote(None, n, ver[n] + 1, v)
          \/ \E v \in Vals : Wrote(None, n, 1, v)
          \/ Exists(n) /\ Wrote(None, n, 0, None)
  BY DEF OthersWrite
<1>2. PICK version \in Nat, content \in Vals \cup {None} : Wrote(None, n, version, content)
  BY <1>1 DEF TypeInv, TypeOK, Versions
<1>3. /\ ver' \in Versions /\ val' \in Content
      /\ foreign' \in [Requests -> SUBSET Nodes]
      /\ unwatched' \subseteq Nodes /\ reused' \subseteq Nodes
  BY <1>2, WroteType DEF TypeInv
<1>4. writes' \in 0..MaxWrites
  BY ChangeRequestAssumption DEF OthersWrite, TypeInv, TypeOK
<1>5. \A x \in Requests : Staged(x)'
  BY DEF OthersWrite, TypeInv, Staged
<1> QED BY <1>3, <1>4, <1>5 DEF OthersWrite, TypeInv, TypeOK

LEMMA InitType ==
    ASSUME Init
    PROVE  TypeInv
<1>1. ver \in Versions /\ val \in Content
  BY ChangeRequestAssumption DEF Init, Versions, Content
<1>2. PICK p \in Proposals : cr = Opened(p)
  BY DEF Init
<1>3. cr \in Row /\ NoJob \in Job
  BY <1>1, <1>2, OpenedType, NoJobType
<1>4. Undecided \in Decision
  BY ZeroType DEF Undecided, Decision
<1>5. \A w \in Requests : Staged(w)
  BY DEF Init, Staged
<1> QED BY <1>1, <1>3, <1>4, <1>5, ChangeRequestAssumption DEF Init, TypeInv, TypeOK, Stages

LEMMA TypeStep ==
    ASSUME TypeInv, [Next]_vars
    PROVE  TypeInv'
<1>1. CASE UNCHANGED vars
  <2>1. \A w \in Requests : Staged(w)'
    BY <1>1 DEF vars, TypeInv, Staged
  <2>2. TypeOK'
    BY <1>1 DEF vars, graph, ghost, TypeInv, TypeOK
  <2> QED BY <2>1, <2>2 DEF TypeInv
<1>2. CASE OthersWrite
  BY <1>2, OthersType
<1>3. CASE \E w \in Requests : Load(w) \/ State(w) \/ Record(w) \/ Anchor(w) \/ Save(w)
  BY <1>3, LoadType, StateType, RecordType, AnchorType, SaveType
<1>4. CASE \E w \in Requests : Capture(w) \/ Store(w) \/ Plan(w) \/ Targets(w)
  BY <1>4, CaptureType, StoreType, PlanType, TargetsType
<1>5. CASE \E w \in Requests : Apply(w) \/ Rebase(w) \/ Restamp(w)
  BY <1>5, ApplyType, RebaseType, RestampType
<1> QED BY <1>1, <1>2, <1>3, <1>4, <1>5 DEF Next

\* Rows, approvals and requests in every interleaving hold what the code reads.
THEOREM ChangeTypeCorrect == Spec => []TypeOK
<1>1. TypeInv => TypeOK
  BY DEF TypeInv
<1> QED BY <1>1, InitType, TypeStep, PTL DEF Spec

-----------------------------------------------------------------------------
(* A step of one request, as the others see it.                            *)

Still(n) == ver'[n] = ver[n] /\ val'[n] = val[n]
Moves(n) == n \in reused' \/ ver'[n] > ver[n]

Drift ==
    /\ endorsed \subseteq endorsed' /\ unwatched \subseteq unwatched' /\ reused \subseteq reused'
    /\ \A n \in Nodes : Still(n) \/ Moves(n)

\* A merge that reads the graph, or has.
Reading(x) == job[x].op = "merge" /\ pc[x] \notin {"state", "done"}

Aside(x) ==
    /\ pc'[x] = pc[x] /\ job'[x] = job[x] /\ Drift
    /\ foreign[x] \subseteq foreign'[x] /\ (~Reading(x) => foreign'[x] = foreign[x])
    /\ Reading(x) => \A n \in Nodes :
          \/ Still(n) /\ (n \in foreign'[x] => n \in foreign[x])
          \/ Moves(n) /\ n \in foreign'[x] /\ (Unnoticed(x, n) => n \in unwatched')

Step(w) == \/ Load(w) \/ State(w) \/ Record(w) \/ Anchor(w) \/ Save(w)
           \/ Capture(w) \/ Store(w)
           \/ Plan(w) \/ Targets(w) \/ Apply(w) \/ Rebase(w) \/ Restamp(w)

\* A step that leaves the graph alone.
Quiet == /\ UNCHANGED <<graph, reused>>
         /\ endorsed \subseteq endorsed' /\ unwatched \subseteq unwatched'

LEMMA QuietAside ==
    ASSUME TypeInv, NEW x \in Requests, Quiet,
           pc'[x] = pc[x], job'[x] = job[x], foreign'[x] = foreign[x]
    PROVE  Aside(x)
<1>1. \A n \in Nodes : Still(n)
  BY DEF Quiet, graph, Still
<1> QED BY <1>1 DEF Quiet, Aside, Drift

LEMMA WroteDrift ==
    ASSUME TypeInv, NEW who, NEW n \in Nodes, NEW version \in Nat, NEW content,
           Wrote(who, n, version, content)
    PROVE  /\ \A m \in Nodes \ {n} : Still(m)
           /\ Moves(n) /\ ver'[n] = version /\ val'[n] = content
           /\ unwatched \subseteq unwatched' /\ reused \subseteq reused'
<1>1. ver \in Versions /\ val \in Content
  BY DEF TypeInv, TypeOK
<1>2. ver'[n] = version /\ val'[n] = content
  BY <1>1 DEF Wrote, Versions, Content
<1>3. Moves(n)
  <2>1. CASE version > ver[n]
    BY <1>2, <2>1 DEF Moves
  <2>2. CASE ~(version > ver[n])
    BY <2>2 DEF Wrote, Moves
  <2> QED BY <2>1, <2>2
<1>4. \A m \in Nodes \ {n} : Still(m)
  BY <1>1 DEF Wrote, Versions, Content, Still
<1>5. unwatched \subseteq unwatched' /\ reused \subseteq reused'
  BY DEF Wrote
<1> QED BY <1>2, <1>3, <1>4, <1>5

LEMMA WroteAside ==
    ASSUME TypeInv, NEW who, NEW n \in Nodes, NEW version \in Nat, NEW content,
           Wrote(who, n, version, content), endorsed \subseteq endorsed',
           NEW x \in Requests, x # who, pc'[x] = pc[x], job'[x] = job[x]
    PROVE  Aside(x)
<1> DEFINE others == {w \in Requests \ {who} : job[w].op = "merge" /\ pc[w] \notin {"state", "done"}}
<1>1. /\ \A m \in Nodes \ {n} : Still(m)
      /\ Moves(n) /\ unwatched \subseteq unwatched' /\ reused \subseteq reused'
  BY WroteDrift
<1>2. foreign'[x] = IF x \in others THEN foreign[x] \cup {n} ELSE foreign[x]
  BY DEF Wrote
<1>3. x \in others <=> Reading(x)
  BY DEF Reading
<1>4. x \in others /\ Unnoticed(x, n) => n \in unwatched'
  <2>1. unwatched' = IF \E w \in others : Unnoticed(w, n) THEN unwatched \cup {n} ELSE unwatched
    BY DEF Wrote
  <2> HIDE DEF others
  <2> QED BY <2>1
<1>5. Drift
  BY <1>1 DEF Drift
<1> HIDE DEF others
<1>6. foreign[x] \subseteq foreign'[x] /\ (~Reading(x) => foreign'[x] = foreign[x])
  BY <1>2, <1>3
<1>7. ASSUME Reading(x), NEW m \in Nodes
      PROVE  \/ Still(m) /\ (m \in foreign'[x] => m \in foreign[x])
             \/ Moves(m) /\ m \in foreign'[x] /\ (Unnoticed(x, m) => m \in unwatched')
  <2>1. CASE m = n
    BY <1>1, <1>2, <1>3, <1>4, <1>7, <2>1
  <2>2. CASE m # n
    BY <1>1, <1>2, <1>3, <1>7, <2>2
  <2> QED BY <2>1, <2>2
<1> QED BY <1>5, <1>6, <1>7 DEF Aside

\* What an action does to the request that acts.
LEMMA LoadOwn ==
    ASSUME TypeInv, NEW w \in Requests, Load(w)
    PROVE  LET j == job'[w] IN
           /\ pc[w] = "idle" /\ pc'[w] = "state"
           /\ UNCHANGED <<graph, cr, appr, writes, ghost>>
           /\ InFlight = {} \/ (j.op \notin Alone /\ \A x \in InFlight : job[x].op \notin Alone)
           /\ j.op \in Ops /\ j.row.payload \in Proposals /\ (j.op # "amend" => j.row.payload = cr.payload)
           /\ j.row = [cr EXCEPT !.payload = j.row.payload]
           /\ j.votes = appr /\ j.applied = {} /\ j.lost = FALSE
<1>1. PICK op \in Ops, u \in Users, q \in Proposals :
        /\ InFlight = {} \/ (op \notin Alone /\ \A x \in InFlight : job[x].op \notin Alone)
        /\ op # "amend" => q = cr.payload
        /\ job' = [job EXCEPT ![w] = [NoJob EXCEPT !.op = op, !.who = u, !.votes = appr,
                                                   !.row = [cr EXCEPT !.payload = q]]]
  BY DEF Load
<1> DEFINE row == [cr EXCEPT !.payload = q]
           j == [NoJob EXCEPT !.op = op, !.who = u, !.votes = appr, !.row = row]
<1>2. job'[w] = j
  BY <1>1 DEF TypeInv, TypeOK
<1>3. j.op = op /\ j.row = row /\ j.votes = appr /\ j.applied = {} /\ j.lost = FALSE
  BY DEF NoJob
<1>4. pc[w] = "idle" /\ pc'[w] = "state" /\ UNCHANGED <<graph, cr, appr, writes, ghost>>
  BY DEF Load, Goto, TypeInv, TypeOK
<1>5. row.payload = q /\ row = [cr EXCEPT !.payload = row.payload]
  BY DEF TypeInv, TypeOK, Row
<1> HIDE DEF j, row
<1>6. /\ job'[w].op = op /\ job'[w].row = row /\ job'[w].votes = appr
      /\ job'[w].applied = {} /\ job'[w].lost = FALSE
  BY <1>2, <1>3
<1>7. job'[w].row.payload = q /\ job'[w].row = [cr EXCEPT !.payload = job'[w].row.payload]
  BY <1>5, <1>6
<1> QED BY <1>1, <1>4, <1>6, <1>7

LEMMA AnswerOwn ==
    ASSUME TypeInv, NEW w \in Requests, Answer(w)
    PROVE  pc'[w] = "done" /\ foreign'[w] = {}
  BY DEF Answer, Goto, TypeInv, TypeOK

LEMMA StateOwn ==
    ASSUME TypeInv, NEW w \in Requests, State(w), pc'[w] # "done"
    PROVE  LET v == VersionsOf(job[w].row.scope) IN
           /\ Permitted(w, v) /\ pc[w] = "state"
           /\ pc'[w] = First[job[w].op]
           /\ job[w].op \in {"approve", "reject", "close", "amend", "merge"}
           /\ job'[w].op = job[w].op /\ job'[w].who = job[w].who /\ job'[w].row = job[w].row
           /\ job'[w].votes = job[w].votes /\ job'[w].base = v
           /\ job[w].op = "approve" => job'[w].seen = val
           /\ job'[w].applied = job[w].applied /\ job'[w].lost = job[w].lost
           /\ UNCHANGED <<graph, cr, appr, writes, ghost>>
<1> DEFINE v == VersionsOf(job[w].row.scope)
           seen == IF job[w].op = "approve" THEN val ELSE Nothing
<1>1. ~Refuse(w)
  BY AnswerOwn DEF Refuse
<1>2. /\ Permitted(w, v) /\ pc[w] = "state"
      /\ job' = [job EXCEPT ![w].base = v, ![w].seen = seen]
      /\ pc' = [pc EXCEPT ![w] = First[job[w].op]]
      /\ UNCHANGED <<graph, cr, appr, writes, ghost>>
  BY <1>1 DEF State, Goto
<1>3. job \in [Requests -> Job] /\ job[w] \in Job /\ pc \in [Requests -> Stages]
  BY DEF TypeInv, TypeOK
<1> HIDE DEF v, seen
<1>4. job'[w] = [job[w] EXCEPT !.base = v, !.seen = seen]
  BY <1>2, <1>3 DEF Job
<1>5. /\ job'[w].op = job[w].op /\ job'[w].who = job[w].who /\ job'[w].row = job[w].row
      /\ job'[w].votes = job[w].votes /\ job'[w].base = v /\ job'[w].seen = seen
      /\ job'[w].applied = job[w].applied /\ job'[w].lost = job[w].lost
  BY <1>3, <1>4 DEF Job
<1>6. job[w].op \in {"approve", "reject", "close", "amend", "merge"}
  BY <1>2 DEF Permitted
<1>7. pc'[w] = First[job[w].op]
  BY <1>2, <1>3
<1> QED BY <1>2, <1>5, <1>6, <1>7 DEF v, seen

LEMMA CaptureOwn ==
    ASSUME TypeInv, NEW w \in Requests, Capture(w), pc'[w] # "done"
    PROVE  LET p == job[w].row.payload v == VersionsOf(ScopeOf(job[w].row.payload)) IN
           /\ Valid(p) /\ pc[w] = "capture" /\ pc'[w] = "store"
           /\ job'[w].op = job[w].op /\ job'[w].base = v /\ job'[w].row.payload = p
           /\ job'[w].row.revision = job[w].row.revision
           /\ job'[w].row.scope = ScopeOf(p) /\ job'[w].row.want = WantOf(p, v)
           /\ UNCHANGED <<graph, cr, appr, writes, ghost>>
<1> DEFINE p == job[w].row.payload
           v == VersionsOf(ScopeOf(p))
           want == WantOf(p, v)
           scope == ScopeOf(p)
<1>1. ~Refuse(w)
  BY AnswerOwn DEF Refuse
<1>2. /\ Valid(p) /\ pc[w] = "capture"
      /\ job' = [job EXCEPT ![w].base = v, ![w].row.want = want, ![w].row.scope = scope]
      /\ pc' = [pc EXCEPT ![w] = "store"]
      /\ UNCHANGED <<graph, cr, appr, writes, ghost>>
  BY <1>1 DEF Capture, Goto
<1>3. /\ job \in [Requests -> Job] /\ job[w] \in Job /\ job[w].row \in Row
      /\ pc \in [Requests -> Stages]
  BY DEF TypeInv, TypeOK, Job
<1>4. pc'[w] = "store"
  BY <1>2, <1>3
<1> HIDE DEF v, want, scope
<1>5. job'[w] = [[[job[w] EXCEPT !.base = v] EXCEPT !.row.want = want] EXCEPT !.row.scope = scope]
  BY <1>2, <1>3
<1>6. /\ job'[w].op = job[w].op /\ job'[w].base = v
      /\ job'[w].row = [[job[w].row EXCEPT !.want = want] EXCEPT !.scope = scope]
  BY <1>3, <1>5 DEF Job
<1>7. /\ job'[w].row.payload = p /\ job'[w].row.revision = job[w].row.revision
      /\ job'[w].row.scope = scope /\ job'[w].row.want = want
  BY <1>3, <1>6 DEF Row
<1> QED BY <1>2, <1>4, <1>6, <1>7 DEF v, want, scope

LEMMA PlanOwn ==
    ASSUME TypeInv, NEW w \in Requests, Plan(w), pc'[w] # "done"
    PROVE  LET row == job[w].row p == job[w].row.payload IN
           /\ ~(HasAncestor(row) /\ \E i \in DOMAIN p : Conflicts(row, p[i]))
           /\ pc[w] = "plan" /\ pc'[w] = "targets" /\ job[w].op = "merge"
           /\ job'[w].op = job[w].op /\ job'[w].row = row /\ job'[w].votes = job[w].votes
           /\ job'[w].base = job[w].base /\ job'[w].applied = job[w].applied
           /\ job'[w].lost = job[w].lost
           /\ job'[w].todo = {i \in DOMAIN p : HasAncestor(row) => ~Drops(row, p[i])}
           /\ UNCHANGED <<graph, cr, appr, writes, ghost>>
<1> DEFINE p == job[w].row.payload
           todo == {i \in DOMAIN p : HasAncestor(job[w].row) => ~Drops(job[w].row, p[i])}
<1>1. ~Refuse(w)
  BY AnswerOwn DEF Refuse
<1>2. /\ ~(HasAncestor(job[w].row) /\ \E i \in DOMAIN p : Conflicts(job[w].row, p[i]))
      /\ pc[w] = "plan"
      /\ job' = [job EXCEPT ![w].todo = todo]
      /\ pc' = [pc EXCEPT ![w] = "targets"]
      /\ UNCHANGED <<graph, cr, appr, writes, ghost>>
  BY <1>1 DEF Plan, Goto
<1>3. job \in [Requests -> Job] /\ job[w] \in Job /\ pc \in [Requests -> Stages] /\ job[w].op = "merge"
  BY <1>2 DEF TypeInv, TypeOK, Staged
<1> HIDE DEF todo
<1>4. job'[w] = [job[w] EXCEPT !.todo = todo] /\ pc'[w] = "targets"
  BY <1>2, <1>3
<1>5. /\ job'[w].op = job[w].op /\ job'[w].row = job[w].row /\ job'[w].votes = job[w].votes
      /\ job'[w].base = job[w].base /\ job'[w].applied = job[w].applied
      /\ job'[w].lost = job[w].lost /\ job'[w].todo = todo
  BY <1>3, <1>4 DEF Job
<1> QED BY <1>2, <1>3, <1>4, <1>5 DEF todo

LEMMA TargetsOwn ==
    ASSUME TypeInv, NEW w \in Requests, Targets(w)
    PROVE  /\ pc[w] = "targets" /\ job[w].op = "merge"
           /\ pc'[w] = IF job[w].todo = {} THEN "save" ELSE "apply"
           /\ job'[w].op = job[w].op /\ job'[w].row = job[w].row /\ job'[w].votes = job[w].votes
           /\ job'[w].base = job[w].base /\ job'[w].applied = job[w].applied
           /\ job'[w].lost = job[w].lost /\ job'[w].todo = job[w].todo /\ job'[w].target = ver
           /\ UNCHANGED <<graph, cr, appr, writes, ghost>>
<1>1. job \in [Requests -> Job] /\ job[w] \in Job /\ pc \in [Requests -> Stages] /\ job[w].op = "merge"
  BY DEF Targets, TypeInv, TypeOK, Staged
<1>2. job'[w] = [job[w] EXCEPT !.target = ver] /\ pc'[w] = IF job[w].todo = {} THEN "save" ELSE "apply"
  BY <1>1 DEF Targets, Goto
<1>3. /\ job'[w].op = job[w].op /\ job'[w].row = job[w].row /\ job'[w].votes = job[w].votes
      /\ job'[w].base = job[w].base /\ job'[w].applied = job[w].applied
      /\ job'[w].lost = job[w].lost /\ job'[w].todo = job[w].todo /\ job'[w].target = ver
  BY <1>1, <1>2 DEF Job
<1> QED BY <1>1, <1>2, <1>3 DEF Targets

\* The merge writes an item, whether it learns of it or not.
ApplyEffect(w, item) == LET n == item.node IN
    /\ Fits(w, n)
    /\ \A m \in Nodes \ {n} : Still(m)
    /\ \/ item.op = "upsert" /\ Moves(n) /\ ver'[n] > 0 /\ val'[n] = item.val
       \/ item.op = "delete" /\ n \in reused' /\ val'[n] = None
       \/ item.op = "delete" /\ job[w].target[n] = 0 /\ Still(n)

LEMMA WrittenEffect ==
    ASSUME TypeInv, NEW w \in Requests, NEW item \in Item, Fits(w, item.node), Written(w, item)
    PROVE  /\ ApplyEffect(w, item) /\ foreign'[w] = foreign[w]
           /\ unwatched \subseteq unwatched' /\ reused \subseteq reused'
<1>1. /\ item.node \in Nodes /\ job[w].target[item.node] \in Nat /\ foreign \in [Requests -> SUBSET Nodes]
      /\ ver[item.node] \in Nat
  BY DEF Item, TypeInv, TypeOK, Job, Versions
<1>2. job[w].target[item.node] + 1 \in Nat /\ job[w].target[item.node] + 1 > 0
  BY <1>1
<1>3. CASE item.op = "upsert" /\ Wrote(w, item.node, job[w].target[item.node] + 1, item.val)
  <2>1. foreign'[w] = foreign[w]
    BY <1>3 DEF Wrote
  <2>2. /\ \A m \in Nodes \ {item.node} : Still(m)
        /\ Moves(item.node) /\ ver'[item.node] = job[w].target[item.node] + 1 /\ val'[item.node] = item.val
        /\ unwatched \subseteq unwatched' /\ reused \subseteq reused'
    BY <1>1, <1>2, <1>3, WroteDrift
  <2> QED BY <1>2, <1>3, <2>1, <2>2 DEF ApplyEffect
<1>4. CASE item.op = "delete" /\ Wrote(w, item.node, 0, None)
  <2>1. foreign'[w] = foreign[w]
    BY <1>4 DEF Wrote
  <2>2. item.node \in reused'
    BY <1>1, <1>4 DEF Wrote
  <2>3. /\ \A m \in Nodes \ {item.node} : Still(m)
        /\ val'[item.node] = None
        /\ unwatched \subseteq unwatched' /\ reused \subseteq reused'
    BY <1>1, <1>4, WroteDrift
  <2> QED BY <1>4, <2>1, <2>2, <2>3 DEF ApplyEffect
<1>5. CASE /\ item.op = "delete" /\ job[w].target[item.node] = 0
           /\ UNCHANGED <<graph, foreign, unwatched, reused>>
  BY <1>5 DEF ApplyEffect, Still, graph
<1> QED BY <1>3, <1>4, <1>5 DEF Written

ApplyOf(w, i, outcome) == LET item == job[w].row.payload[i] IN
    /\ i \in job[w].todo /\ i \in DOMAIN job[w].row.payload /\ item \in Item
    /\ pc[w] = "apply" /\ job[w].op = "merge"
    /\ job'[w].op = "merge" /\ job'[w].row = job[w].row /\ job'[w].votes = job[w].votes
    /\ job'[w].base = job[w].base /\ job'[w].target = job[w].target
    /\ job'[w].lost = (outcome = "lost")
    /\ outcome # "written" => /\ pc'[w] = "rebase"
                              /\ job'[w].applied = job[w].applied
    /\ outcome = "written" => /\ pc'[w] = IF job[w].todo = {i} THEN "save" ELSE "apply"
                              /\ job'[w].applied = job[w].applied \cup {item.node}
                              /\ job'[w].todo = job[w].todo \ {i}
    /\ UNCHANGED <<cr, appr, writes, endorsed>> /\ foreign'[w] = foreign[w]
    /\ unwatched \subseteq unwatched' /\ reused \subseteq reused'
    /\ outcome = "refused" => UNCHANGED <<graph, foreign, unwatched, reused>>
    /\ outcome # "refused" => Written(w, item) /\ ApplyEffect(w, item)

LEMMA ApplyOwn ==
    ASSUME TypeInv, NEW w \in Requests, Apply(w)
    PROVE  \E i \in job[w].todo, outcome \in {"written", "refused", "lost"} : ApplyOf(w, i, outcome)
<1>1. PICK i \in job[w].todo, outcome \in {"written", "refused"} \cup Faults :
        /\ outcome # "refused" => Fits(w, job[w].row.payload[i].node)
        /\ IF outcome = "refused"
           THEN UNCHANGED <<graph, foreign, unwatched, reused>>
           ELSE Written(w, job[w].row.payload[i])
        /\ job' = [job EXCEPT ![w].todo = Left(w, i, outcome # "written"),
                              ![w].applied = IF outcome # "written" THEN @ ELSE @ \cup {job[w].row.payload[i].node},
                              ![w].failed = outcome # "written", ![w].lost = outcome = "lost"]
        /\ Goto(w, IF outcome # "written" THEN "rebase"
                   ELSE IF Left(w, i, outcome # "written") = {} THEN "save" ELSE "apply")
  BY DEF Apply
<1> DEFINE item == job[w].row.payload[i]
           left == Left(w, i, outcome # "written")
           applied == IF outcome # "written" THEN job[w].applied ELSE job[w].applied \cup {item.node}
           failed == outcome # "written"
           lost == outcome = "lost"
<1>2. /\ job \in [Requests -> Job] /\ job[w] \in Job /\ job[w].row.payload \in Proposals
      /\ job[w].todo \subseteq DOMAIN job[w].row.payload /\ job[w].op = "merge" /\ pc[w] = "apply"
  BY DEF Apply, TypeInv, TypeOK, Staged, Job, Row
<1>3. i \in DOMAIN job[w].row.payload /\ item \in Item
  BY <1>2, ProposalType
<1>4. outcome \in {"written", "refused", "lost"}
  BY ChangeRequestAssumption
<1>5. pc'[w] = IF outcome # "written" THEN "rebase" ELSE IF left = {} THEN "save" ELSE "apply"
  BY <1>1 DEF Goto, TypeInv, TypeOK
<1>6. left = IF outcome # "written" THEN {} ELSE job[w].todo \ {i}
  BY DEF Left
<1>7. /\ outcome = "refused" => UNCHANGED <<graph, foreign, unwatched, reused>>
      /\ outcome # "refused" => /\ Written(w, item) /\ ApplyEffect(w, item) /\ foreign'[w] = foreign[w]
                                /\ unwatched \subseteq unwatched' /\ reused \subseteq reused'
  <2>1. CASE outcome = "refused"
    BY <1>1, <2>1
  <2>2. CASE outcome # "refused"
    BY <1>1, <1>3, <2>2, WrittenEffect
  <2> QED BY <2>1, <2>2
<1>8. job' = [job EXCEPT ![w].todo = left, ![w].applied = applied, ![w].failed = failed, ![w].lost = lost]
  BY <1>1, <1>2 DEF Job
<1> HIDE DEF left, applied, failed, lost, item
<1>9. job'[w] = [job[w] EXCEPT !.todo = left, !.applied = applied, !.failed = failed, !.lost = lost]
  BY <1>2, <1>8 DEF Job
<1>10. /\ job'[w].op = "merge" /\ job'[w].row = job[w].row /\ job'[w].votes = job[w].votes
       /\ job'[w].base = job[w].base /\ job'[w].target = job[w].target
       /\ job'[w].lost = lost /\ job'[w].applied = applied /\ job'[w].todo = left
  BY <1>2, <1>9 DEF Job
<1>11. UNCHANGED <<cr, appr, writes, endorsed>>
  BY DEF Apply
<1>12. job[w].todo \ {i} = {} <=> job[w].todo = {i}
  BY <1>1
<1>13. item = job[w].row.payload[i] /\ lost = (outcome = "lost")
       /\ applied = IF outcome # "written" THEN job[w].applied ELSE job[w].applied \cup {item.node}
  BY DEF item, lost, applied
<1>14. ApplyOf(w, i, outcome)
  <2>1. outcome # "written" => pc'[w] = "rebase" /\ job'[w].applied = job[w].applied
    BY <1>5, <1>10, <1>13
  <2>2. outcome = "written" => /\ pc'[w] = IF job[w].todo = {i} THEN "save" ELSE "apply"
                              /\ job'[w].applied = job[w].applied \cup {item.node}
                              /\ job'[w].todo = job[w].todo \ {i}
    BY <1>5, <1>6, <1>10, <1>12, <1>13
  <2>3. unwatched \subseteq unwatched' /\ reused \subseteq reused' /\ foreign'[w] = foreign[w]
    BY <1>4, <1>7
  <2> QED BY <1>1, <1>2, <1>3, <1>7, <1>10, <1>11, <1>13, <2>1, <2>2, <2>3 DEF ApplyOf
<1> QED BY <1>4, <1>14

LEMMA RebaseOwn ==
    ASSUME TypeInv, NEW w \in Requests, Rebase(w)
    PROVE  LET j == job[w] after == VersionsOf(job[w].row.scope) IN
           /\ pc[w] = "rebase" /\ job[w].op = "merge"
           /\ UNCHANGED <<graph, appr, writes, endorsed, reused>>
           /\ \/ /\ pc'[w] = "done" /\ UNCHANGED <<cr, unwatched>>
                 /\ ~(Moved(j.base, after) \subseteq j.applied /\ after # j.row.hash)
              \/ /\ pc'[w] = "restamp" /\ Moved(j.base, after) \subseteq j.applied
                 /\ cr' = [cr EXCEPT !.hash = after]
                 /\ unwatched' = unwatched \cup (foreign[w] \cap j.applied) /\ foreign' = foreign
                 /\ job'[w].op = j.op /\ job'[w].row = j.row /\ job'[w].votes = j.votes
                 /\ job'[w].base = j.base /\ job'[w].applied = j.applied
                 /\ job'[w].lost = j.lost /\ job'[w].after = after
<1> DEFINE j == job[w]
           after == VersionsOf(job[w].row.scope)
<1>1. job \in [Requests -> Job] /\ job[w] \in Job /\ pc \in [Requests -> Stages] /\ job[w].op = "merge"
  BY DEF Rebase, TypeInv, TypeOK, Staged
<1>2. CASE Moved(j.base, after) \subseteq j.applied /\ after # j.row.hash
  <2>1. /\ job' = [job EXCEPT ![w].after = after] /\ pc' = [pc EXCEPT ![w] = "restamp"]
        /\ cr' = [cr EXCEPT !.hash = after] /\ foreign' = foreign
        /\ unwatched' = unwatched \cup (foreign[w] \cap j.applied)
        /\ UNCHANGED <<graph, appr, writes, endorsed, reused>> /\ pc[w] = "rebase"
    BY <1>2 DEF Rebase, Goto
  <2> HIDE DEF after
  <2>2. job'[w] = [job[w] EXCEPT !.after = after] /\ pc'[w] = "restamp"
    BY <1>1, <2>1
  <2>3. /\ job'[w].op = j.op /\ job'[w].row = j.row /\ job'[w].votes = j.votes
        /\ job'[w].base = j.base /\ job'[w].applied = j.applied
        /\ job'[w].lost = j.lost /\ job'[w].after = after
    BY <1>1, <2>2 DEF Job
  <2> QED BY <1>1, <1>2, <2>1, <2>2, <2>3 DEF after
<1>3. CASE ~(Moved(j.base, after) \subseteq j.applied /\ after # j.row.hash)
  <2>1. /\ Answer(w) /\ UNCHANGED <<cr, unwatched>>
        /\ UNCHANGED <<graph, appr, writes, endorsed, reused>> /\ pc[w] = "rebase"
    BY <1>3 DEF Rebase
  <2> QED BY <1>1, <1>3, <2>1, AnswerOwn
<1> QED BY <1>2, <1>3

\* The rest writes no job, or ends it.
LEMMA RecordOwn ==
    ASSUME TypeInv, NEW w \in Requests, Record(w)
    PROVE  /\ pc[w] = "record" /\ job[w].op \in {"approve", "reject"} /\ job' = job
           /\ pc'[w] = IF job[w].op = "approve" THEN "anchor" ELSE "save"
  BY DEF Record, Goto, TypeInv, TypeOK, Staged

LEMMA LastOwn ==
    ASSUME TypeInv, NEW w \in Requests, Anchor(w) \/ Save(w) \/ Store(w) \/ Restamp(w)
    PROVE  pc'[w] = "done" /\ foreign'[w] = {} /\ UNCHANGED graph
  BY AnswerOwn DEF Anchor, Save, Store, Restamp

LEMMA ApplyAside ==
    ASSUME TypeInv, NEW w \in Requests, Apply(w), NEW x \in Requests \ {w}
    PROVE  Aside(x)
<1>1. PICK i \in job[w].todo, outcome \in {"written", "refused", "lost"} : ApplyOf(w, i, outcome)
  BY ApplyOwn
<1> DEFINE item == job[w].row.payload[i]
<1>2. pc'[x] = pc[x] /\ job'[x] = job[x] /\ endorsed' = endorsed
  BY DEF Apply, Goto, TypeInv, TypeOK
<1>3. CASE UNCHANGED <<graph, foreign, unwatched, reused>>
  BY <1>2, <1>3, QuietAside DEF Quiet
<1>4. CASE Written(w, item)
  <2>1. item.node \in Nodes /\ job[w].target[item.node] + 1 \in Nat /\ 0 \in Nat
    BY <1>1 DEF ApplyOf, Item, TypeInv, TypeOK, Job, Versions
  <2> HIDE DEF item
  <2>2. CASE Wrote(w, item.node, job[w].target[item.node] + 1, item.val)
    BY <1>2, <2>1, <2>2, WroteAside
  <2>3. CASE Wrote(w, item.node, 0, None)
    BY <1>2, <2>1, <2>3, WroteAside
  <2> QED BY <1>3, <1>4, <2>2, <2>3 DEF Written
<1> QED BY <1>1, <1>3, <1>4 DEF ApplyOf

LEMMA OthersAside ==
    ASSUME TypeInv, OthersWrite, NEW x \in Requests
    PROVE  Aside(x)
<1>1. PICK n \in Nodes :
          \/ \E v \in Vals \ {val[n]} : Exists(n) /\ Wrote(None, n, ver[n] + 1, v)
          \/ \E v \in Vals : Wrote(None, n, 1, v)
          \/ Exists(n) /\ Wrote(None, n, 0, None)
  BY DEF OthersWrite
<1>2. PICK version \in Nat, content \in Vals \cup {None} : Wrote(None, n, version, content)
  BY <1>1 DEF TypeInv, TypeOK, Versions
<1>3. x # None /\ pc'[x] = pc[x] /\ job'[x] = job[x] /\ endorsed' = endorsed
  BY ChangeRequestAssumption DEF OthersWrite
<1> QED BY <1>2, <1>3, WroteAside

LEMMA StepAside ==
    ASSUME TypeInv, NEW w \in Requests, Step(w), NEW x \in Requests \ {w}
    PROVE  Aside(x)
<1> USE DEF Goto
<1>1. CASE Apply(w)
  BY <1>1, ApplyAside
<1>2. CASE ~Apply(w)
  <2>1. pc'[x] = pc[x] /\ job'[x] = job[x] /\ foreign'[x] = foreign[x]
    <3>1. CASE Load(w) \/ State(w) \/ Record(w) \/ Anchor(w) \/ Save(w) \/ Capture(w)
      BY <3>1 DEF Load, State, Record, Anchor, Save, Capture, Refuse, Answer, ghost, TypeInv, TypeOK
    <3>2. CASE Store(w) \/ Plan(w) \/ Targets(w) \/ Rebase(w) \/ Restamp(w)
      BY <3>2 DEF Store, Plan, Targets, Rebase, Restamp, Refuse, Answer, ghost, TypeInv, TypeOK
    <3> QED BY <1>2, <3>1, <3>2 DEF Step
  <2>2. Quiet
    <3>1. CASE Load(w) \/ State(w) \/ Record(w) \/ Anchor(w) \/ Save(w) \/ Capture(w)
      BY <3>1 DEF Load, State, Record, Anchor, Save, Capture, Refuse, ghost, graph, Quiet
    <3>2. CASE Store(w) \/ Plan(w) \/ Targets(w) \/ Rebase(w) \/ Restamp(w)
      BY <3>2 DEF Store, Plan, Targets, Rebase, Restamp, Refuse, ghost, graph, Quiet
    <3> QED BY <1>2, <3>1, <3>2 DEF Step
  <2> QED BY <2>1, <2>2, QuietAside
<1> QED BY <1>1, <1>2

LEMMA NextSteps ==
    ASSUME Next
    PROVE  OthersWrite \/ \E w \in Requests : Step(w)
  BY DEF Next, Step

-----------------------------------------------------------------------------
(* A request marked merged took effect.                                    *)

OneEach(p) == \A i, j \in DOMAIN p : p[i].node = p[j].node => i = j

GraphInv == \A n \in Nodes : ver[n] = 0 <=> val[n] = None

Took(w, i) == LET item == job[w].row.payload[i] IN
    \/ item.node \in foreign[w] \/ Holds(item)
    \/ item.op = "delete" /\ HasAncestor(job[w].row)

\* An item is left to do until it took effect, and its node is as the merge
\* fetched it, but for what others write.
AppliedFact(w) ==
    /\ pc[w] \notin {"idle", "done"} /\ (job[w].op # "amend" \/ pc[w] = "store") =>
          OneEach(job[w].row.payload)
    /\ job[w].op = "merge" /\ pc[w] \in {"targets", "apply", "save"} =>
          \A i \in DOMAIN job[w].row.payload : (pc[w] # "save" /\ i \in job[w].todo) \/ Took(w, i)
    /\ pc[w] = "apply" => \A i \in job[w].todo : LET n == job[w].row.payload[i].node IN
          n \in foreign[w] \/ ver[n] = job[w].target[n]

AppliedInv == GraphInv /\ OneEach(cr.payload) /\ \A w \in Requests : AppliedFact(w)

LEMMA GraphKept ==
    ASSUME TypeInv, GraphInv, NEW who, NEW n \in Nodes, NEW version \in Nat, NEW content \in Vals \cup {None},
           Wrote(who, n, version, content), version = 0 <=> content = None
    PROVE  GraphInv'
<1>1. /\ \A m \in Nodes \ {n} : Still(m)
      /\ ver'[n] = version /\ val'[n] = content
  BY WroteDrift
<1> QED BY <1>1 DEF Still, GraphInv

LEMMA StepGraph ==
    ASSUME TypeInv, GraphInv, Next
    PROVE  GraphInv'
<1>1. CASE OthersWrite
  <2>1. PICK n \in Nodes, version \in Nat, content \in Vals \cup {None} :
          Wrote(None, n, version, content) /\ (version = 0 <=> content = None)
    <3>1. PICK n \in Nodes :
          \/ \E v \in Vals \ {val[n]} : Exists(n) /\ Wrote(None, n, ver[n] + 1, v)
          \/ \E v \in Vals : Wrote(None, n, 1, v)
          \/ Exists(n) /\ Wrote(None, n, 0, None)
      BY <1>1 DEF OthersWrite
    <3>2. ver[n] \in Nat
      BY DEF TypeInv, TypeOK, Versions
    <3>3. CASE \E v \in Vals \ {val[n]} : Exists(n) /\ Wrote(None, n, ver[n] + 1, v)
      BY <3>2, <3>3, ChangeRequestAssumption
    <3>4. CASE \E v \in Vals : Wrote(None, n, 1, v)
      BY <3>4, ChangeRequestAssumption
    <3>5. CASE Exists(n) /\ Wrote(None, n, 0, None)
      BY <3>5
    <3> QED BY <3>1, <3>3, <3>4, <3>5
  <2> QED BY <2>1, GraphKept
<1>2. ASSUME NEW w \in Requests, Apply(w) PROVE GraphInv'
  <2>1. PICK i \in job[w].todo, outcome \in {"written", "refused", "lost"} : ApplyOf(w, i, outcome)
    BY <1>2, ApplyOwn
  <2> DEFINE item == job[w].row.payload[i]
  <2>2. CASE UNCHANGED <<graph, foreign, unwatched, reused>>
    BY <2>2 DEF graph, GraphInv
  <2>3. CASE Written(w, item)
    <3>1. /\ item.node \in Nodes /\ item.val \in Vals /\ item.val # None
          /\ job[w].target[item.node] \in Nat
      BY <2>1, ChangeRequestAssumption DEF ApplyOf, Item, TypeInv, TypeOK, Job, Versions
    <3>2. job[w].target[item.node] + 1 \in Nat /\ job[w].target[item.node] + 1 # 0
      BY <3>1
    <3> HIDE DEF item
    <3>3. CASE Wrote(w, item.node, job[w].target[item.node] + 1, item.val)
      BY <3>1, <3>2, <3>3, GraphKept
    <3>4. CASE Wrote(w, item.node, 0, None)
      BY <3>1, <3>4, GraphKept
    <3> QED BY <2>2, <2>3, <3>3, <3>4 DEF Written
  <2> QED BY <2>1, <2>2, <2>3 DEF ApplyOf
<1>3. ASSUME NEW w \in Requests, Step(w), ~Apply(w) PROVE GraphInv'
  <2>1. UNCHANGED graph
    BY <1>3 DEF Step, Load, State, Record, Anchor, Save, Capture, Store, Plan, Targets,
                Rebase, Restamp, Refuse
  <2> QED BY <2>1 DEF graph, GraphInv
<1> QED BY <1>1, <1>2, <1>3, NextSteps

LEMMA AppliedAside ==
    ASSUME TypeInv, NEW x \in Requests, AppliedFact(x), Aside(x)
    PROVE  AppliedFact(x)'
<1>1. pc'[x] = pc[x] /\ job'[x] = job[x]
  BY DEF Aside
<1>2. \A i \in DOMAIN job[x].row.payload : job[x].row.payload[i].node \in Nodes
  <2>1. job[x].row.payload \in Proposals
    BY DEF TypeInv, TypeOK, Job, Row
  <2> QED BY <2>1, ProposalType DEF Item
<1>3. ASSUME Reading(x), NEW n \in Nodes
      PROVE  n \in foreign'[x] \/ (Still(n) /\ n \notin foreign[x])
  BY <1>3 DEF Aside
<1>4. ASSUME Reading(x), NEW i \in DOMAIN job[x].row.payload, Took(x, i)
      PROVE  Took(x, i)'
  BY <1>1, <1>2, <1>3, <1>4 DEF Took, Holds, Still
<1>5. ASSUME pc[x] = "apply", NEW i \in job[x].todo
      PROVE  \/ job[x].row.payload[i].node \in foreign'[x]
             \/ ver'[job[x].row.payload[i].node] = job[x].target[job[x].row.payload[i].node]
  <2>1. Reading(x) /\ job[x].todo \subseteq DOMAIN job[x].row.payload
    BY <1>5 DEF Reading, TypeInv, Staged
  <2> QED BY <1>2, <1>3, <1>5, <2>1 DEF AppliedFact, Still
<1>6. job[x].op = "merge" /\ pc[x] \in {"targets", "apply", "save"} => Reading(x)
  BY DEF Reading
<1> QED BY <1>1, <1>4, <1>5, <1>6 DEF AppliedFact

\* The request that acts.
LEMMA AppliedPlan ==
    ASSUME TypeInv, NEW w \in Requests, AppliedFact(w), Plan(w), pc'[w] # "done"
    PROVE  AppliedFact(w)'
<1> DEFINE p == job[w].row.payload
<1>1. /\ pc[w] = "plan" /\ pc'[w] = "targets" /\ job[w].op = "merge"
      /\ job'[w].op = job[w].op /\ job'[w].row = job[w].row
      /\ job'[w].todo = {i \in DOMAIN p : HasAncestor(job[w].row) => ~Drops(job[w].row, p[i])}
      /\ val' = val
  BY PlanOwn DEF graph
<1>2. ASSUME NEW i \in DOMAIN p, i \notin job'[w].todo PROVE Took(w, i)'
  <2>1. HasAncestor(job[w].row) /\ Drops(job[w].row, p[i])
    BY <1>1, <1>2
  <2>2. p[i].op = "delete" \/ (p[i].op = "upsert" /\ val[p[i].node] = p[i].val)
    BY <2>1 DEF Drops, Satisfied
  <2> QED BY <1>1, <2>1, <2>2 DEF Took, Holds, HasAncestor
<1> QED BY <1>1, <1>2 DEF AppliedFact

LEMMA AppliedTargets ==
    ASSUME TypeInv, NEW w \in Requests, AppliedFact(w), Targets(w)
    PROVE  AppliedFact(w)'
<1>1. /\ pc[w] = "targets" /\ job[w].op = "merge"
      /\ pc'[w] = IF job[w].todo = {} THEN "save" ELSE "apply"
      /\ job'[w].op = job[w].op /\ job'[w].row = job[w].row
      /\ job'[w].todo = job[w].todo /\ job'[w].target = ver
      /\ val' = val /\ ver' = ver /\ foreign' = foreign
  BY TargetsOwn DEF graph, ghost
<1>2. OneEach(job[w].row.payload)
      /\ \A i \in DOMAIN job[w].row.payload : i \in job[w].todo \/ Took(w, i)
  BY <1>1 DEF AppliedFact
<1>3. \A i \in DOMAIN job[w].row.payload : Took(w, i) => Took(w, i)'
  BY <1>1 DEF Took, Holds, HasAncestor
<1> QED BY <1>1, <1>2, <1>3 DEF AppliedFact

LEMMA AppliedApply ==
    ASSUME TypeInv, GraphInv, NEW w \in Requests, AppliedFact(w), Apply(w)
    PROVE  AppliedFact(w)'
<1>1. PICK i \in job[w].todo, outcome \in {"written", "refused", "lost"} : ApplyOf(w, i, outcome)
  BY ApplyOwn
<1> DEFINE p == job[w].row.payload
           item == p[i]
           n == item.node
<1>2. /\ pc[w] = "apply" /\ job[w].op = "merge" /\ OneEach(p)
      /\ job'[w].op = "merge" /\ job'[w].row = job[w].row /\ job'[w].target = job[w].target
      /\ foreign'[w] = foreign[w] /\ i \in DOMAIN p /\ item \in Item
  BY <1>1 DEF ApplyOf, AppliedFact
<1>3. CASE outcome # "written"
  <2>1. pc'[w] = "rebase"
    BY <1>1, <1>3 DEF ApplyOf
  <2> QED BY <1>2, <2>1 DEF AppliedFact
<1>4. CASE outcome = "written"
  <2>1. /\ pc'[w] = IF job[w].todo = {i} THEN "save" ELSE "apply"
        /\ job'[w].todo = job[w].todo \ {i} /\ ApplyEffect(w, item)
    BY <1>1, <1>4 DEF ApplyOf
  <2>2. n \in Nodes /\ (n \in foreign[w] \/ ver[n] = job[w].target[n])
    BY <1>1, <1>2 DEF AppliedFact, Item
  <2>3. Took(w, i)'
    <3>1. CASE item.op = "upsert" /\ val'[n] = item.val
      BY <1>2, <3>1 DEF Took, Holds
    <3>2. CASE item.op = "delete" /\ val'[n] = None
      BY <1>2, <3>2 DEF Took, Holds
    <3>3. CASE item.op = "delete" /\ job[w].target[n] = 0 /\ Still(n)
      <4>1. n \in foreign[w] \/ val'[n] = None
        BY <2>2, <3>3 DEF GraphInv, Still
      <4> QED BY <1>2, <3>3, <4>1 DEF Took, Holds
    <3> QED BY <2>1, <3>1, <3>2, <3>3 DEF ApplyEffect
  <2>4. \A k \in DOMAIN p : k # i => p[k].node \in Nodes \ {n}
    <3>1. \A k \in DOMAIN p : p[k] \in Item
      BY ProposalType DEF TypeInv, TypeOK, Job, Row
    <3> QED BY <1>2, <3>1 DEF OneEach, Item
  <2>5. \A m \in Nodes \ {n} : Still(m)
    BY <2>1 DEF ApplyEffect
  <2>6. ASSUME NEW k \in DOMAIN p, k # i, Took(w, k) PROVE Took(w, k)'
    BY <1>2, <2>4, <2>5, <2>6 DEF Took, Holds, Still
  <2>7. \A k \in DOMAIN p : k \in job'[w].todo \/ Took(w, k)'
    BY <1>2, <2>1, <2>3, <2>6 DEF AppliedFact
  <2>8. ASSUME NEW k \in job'[w].todo
        PROVE  p[k].node \in foreign'[w] \/ ver'[p[k].node] = job[w].target[p[k].node]
    <3>1. k \in DOMAIN p /\ k # i /\ k \in job[w].todo
      BY <1>2, <2>1, <2>8 DEF TypeInv, Staged
    <3> QED BY <1>2, <2>4, <2>5, <3>1 DEF AppliedFact, Still
  <2>9. pc'[w] = "save" => job'[w].todo = {}
    BY <2>1
  <2> QED BY <1>2, <2>1, <2>7, <2>8, <2>9 DEF AppliedFact
<1> QED BY <1>1, <1>3, <1>4

LEMMA AppliedOwn ==
    ASSUME TypeInv, GraphInv, OneEach(cr.payload), NEW w \in Requests, AppliedFact(w), Step(w)
    PROVE  AppliedFact(w)'
<1>1. CASE pc'[w] = "done"
  BY <1>1 DEF AppliedFact
<1>2. CASE Load(w)
  <2>1. /\ pc'[w] = "state"
        /\ job'[w].op # "amend" => job'[w].row.payload = cr.payload
    BY <1>2, LoadOwn
  <2> QED BY <2>1 DEF AppliedFact
<1>3. CASE State(w) /\ pc'[w] # "done"
  <2>1. /\ job'[w].row = job[w].row /\ job'[w].op = job[w].op
        /\ pc'[w] = First[job[w].op] /\ pc[w] = "state"
        /\ job[w].op \in {"approve", "reject", "close", "amend", "merge"}
    BY <1>3, StateOwn
  <2>2. pc'[w] \in {"record", "save", "capture", "plan"} /\ (pc'[w] = "save" => job[w].op # "merge")
    BY <2>1 DEF First
  <2> QED BY <2>1, <2>2 DEF AppliedFact
<1>4. CASE Record(w)
  <2>1. job' = job /\ job[w].op # "merge" /\ pc'[w] \in {"anchor", "save"} /\ pc[w] = "record"
    BY <1>4, RecordOwn
  <2> QED BY <2>1 DEF AppliedFact
<1>5. CASE Capture(w) /\ pc'[w] # "done"
  <2>1. /\ job'[w].row.payload = job[w].row.payload /\ pc'[w] = "store" /\ Valid(job[w].row.payload)
    BY <1>5, CaptureOwn
  <2>2. OneEach(job[w].row.payload)
    BY <2>1 DEF Valid, OneEach
  <2> QED BY <2>1, <2>2 DEF AppliedFact
<1>6. CASE Rebase(w) /\ pc'[w] # "done"
  <2>1. /\ job'[w].row = job[w].row /\ job'[w].op = job[w].op
        /\ pc'[w] = "restamp" /\ pc[w] = "rebase"
    BY <1>6, RebaseOwn
  <2> QED BY <2>1 DEF AppliedFact
<1>7. CASE Anchor(w) \/ Save(w) \/ Store(w) \/ Restamp(w)
  BY <1>1, <1>7, LastOwn
<1> QED BY <1>1, <1>2, <1>3, <1>4, <1>5, <1>6, <1>7, AppliedPlan, AppliedTargets, AppliedApply DEF Step

LEMMA AppliedStep ==
    ASSUME TypeInv, AppliedInv, [Next]_vars
    PROVE  AppliedInv'
<1>1. CASE UNCHANGED vars
  <2>1. \A w \in Requests : AppliedFact(w)'
    BY <1>1, SMTT(20) DEF vars, graph, ghost, AppliedInv, AppliedFact, Took, Holds
  <2> QED BY <1>1, <2>1 DEF vars, graph, AppliedInv, GraphInv
<1>2. CASE OthersWrite
  <2>1. \A x \in Requests : AppliedFact(x)'
    BY <1>2, OthersAside, AppliedAside DEF AppliedInv
  <2>2. cr' = cr
    BY <1>2 DEF OthersWrite
  <2>3. GraphInv'
    BY <1>2, StepGraph DEF Next, AppliedInv
  <2> QED BY <2>1, <2>2, <2>3 DEF AppliedInv
<1>3. ASSUME NEW w \in Requests, Step(w) PROVE AppliedInv'
  <2>1. \A x \in Requests \ {w} : AppliedFact(x)'
    BY <1>3, StepAside, AppliedAside DEF AppliedInv
  <2>2. AppliedFact(w)'
    BY <1>3, AppliedOwn DEF AppliedInv
  <2>3. OneEach(cr.payload)'
    <3>1. CASE Store(w)
      <4>1. cr'.payload = job[w].row.payload /\ OneEach(job[w].row.payload)
        BY <3>1 DEF Store, AppliedInv, AppliedFact, TypeInv, TypeOK, Row
      <4> QED BY <4>1 DEF OneEach
    <3>2. CASE ~Store(w)
      <4>1. cr'.payload = cr.payload
        BY <1>3, <3>2 DEF Step, Load, State, Record, Anchor, Save, Capture, Plan, Targets,
               Apply, Rebase, Restamp, Refuse, TypeInv, TypeOK, Row
      <4> QED BY <4>1 DEF OneEach, AppliedInv
    <3> QED BY <3>1, <3>2
  <2>4. GraphInv'
    BY <1>3, StepGraph DEF Next, Step, AppliedInv
  <2> QED BY <2>1, <2>2, <2>3, <2>4 DEF AppliedInv
<1> QED BY <1>1, <1>2, <1>3, NextSteps

LEMMA InitApplied ==
    ASSUME Init
    PROVE  AppliedInv
<1>1. PICK q \in Proposals : Valid(q) /\ cr = Opened(q)
  BY DEF Init
<1>2. OneEach(cr.payload)
  BY <1>1 DEF Opened, Valid, OneEach
<1>3. GraphInv
  BY ChangeRequestAssumption DEF Init, GraphInv
<1>4. \A w \in Requests : AppliedFact(w)
  BY DEF Init, AppliedFact
<1> QED BY <1>2, <1>3, <1>4 DEF AppliedInv

\* In every interleaving a request is marked merged only when each item took
\* effect: amendments, approvals and edits of others may overlap with the merge.
THEOREM MergeTakesEffect == Spec => MergedIsApplied
<1>1. TypeInv /\ AppliedInv /\ [Next]_vars =>
        [\A w \in Requests : Merges(w) =>
           \A i \in DOMAIN job[w].row.payload : LET item == job[w].row.payload[i] IN
              \/ item.node \in foreign[w] \/ Holds(item)
              \/ item.op = "delete" /\ HasAncestor(job[w].row)]_vars
  BY DEF AppliedInv, AppliedFact, Merges, Took
<1> QED BY <1>1, InitType, TypeStep, InitApplied, AppliedStep, PTL DEF Spec, MergedIsApplied

-----------------------------------------------------------------------------
(* A merge that stopped half-way can be tried again.                       *)

Simple(p) == \A i \in DOMAIN p : p[i].op = "upsert" /\ ~p[i].pinned

\* Only an item that names a version makes the row want one.
PinsNamed(row) == \A n \in Nodes : row.want[n] > 0 =>
    \E i \in DOMAIN row.payload : row.payload[i].node = n /\ row.payload[i].pinned

\* What others wrote is kept from the moment a merge reads the graph.
Fresh(w) ==
    /\ pc[w] = "idle" => job[w].op = "none"
    /\ pc[w] \in {"idle", "state", "done"} => foreign[w] = {}
    /\ pc[w] = "state" => job[w].applied = {}

\* The approvals held when the graph was read, and what others did not write
\* since is as it was, or was written by this merge.
BaseFact(w) == LET j == job[w] IN
    \A n \in Nodes \ foreign[w] :
        /\ n \notin j.row.scope => j.base[n] = 0
        /\ n \in j.row.scope /\ n \notin j.applied /\ ~j.lost => ver[n] = j.base[n]
        /\ n \in j.applied /\ Simple(j.row.payload) => ver[n] > 0

AfterFact(w) == LET j == job[w] IN
    /\ \A n \in Nodes \ foreign[w] : j.after[n] = IF n \in j.row.scope THEN ver[n] ELSE 0
    /\ foreign[w] = {} /\ ~j.lost /\ Simple(j.row.payload) => ~Missing(j.row, j.after)

KeptFact(w) ==
    /\ Fresh(w)
    /\ (pc[w] \notin {"idle", "done"} /\ job[w].op = "merge") \/ pc[w] = "store" => PinsNamed(job[w].row)
    /\ pc[w] \in {"state", "plan", "targets", "apply"} => ~job[w].lost
    /\ pc[w] \in {"plan", "targets", "apply", "rebase", "restamp"} =>
          Mergeable(job[w].row, job[w].votes, job[w].base)
    /\ pc[w] \in {"plan", "targets", "apply", "rebase"} => BaseFact(w)
    /\ pc[w] = "restamp" => AfterFact(w)

RetryInv == PinsNamed(cr) /\ \A w \in Requests : KeptFact(w)

LEMMA FreshAside ==
    ASSUME TypeInv, NEW x \in Requests, Fresh(x), Aside(x)
    PROVE  Fresh(x)'
<1>1. pc[x] \in {"idle", "state", "done"} => ~Reading(x)
  BY DEF Fresh, Reading
<1> QED BY <1>1 DEF Fresh, Aside

LEMMA KeptAside ==
    ASSUME TypeInv, NEW x \in Requests, KeptFact(x), Aside(x)
    PROVE  KeptFact(x)'
<1>1. pc'[x] = pc[x] /\ job'[x] = job[x]
  BY DEF Aside
<1>2. Fresh(x)'
  BY FreshAside DEF KeptFact
<1>3. pc[x] \in {"plan", "targets", "apply", "rebase", "restamp"} => Reading(x)
  BY DEF Reading, TypeInv, Staged
<1>4. Reading(x) => \A n \in Nodes \ foreign'[x] : n \notin foreign[x] /\ ver'[n] = ver[n]
  BY DEF Aside, Still
<1>5. pc[x] \in {"plan", "targets", "apply", "rebase"} => BaseFact(x)'
  BY <1>1, <1>3, <1>4 DEF KeptFact, BaseFact
<1>6. pc[x] = "restamp" => AfterFact(x)'
  <2>1. foreign[x] \subseteq foreign'[x]
    BY DEF Aside
  <2> QED BY <1>1, <1>3, <1>4, <2>1 DEF KeptFact, AfterFact
<1>7. (PinsNamed(job[x].row) => PinsNamed(job'[x].row))
      /\ (Mergeable(job[x].row, job[x].votes, job[x].base) => Mergeable(job'[x].row, job'[x].votes, job'[x].base))
  BY <1>1
<1> QED BY <1>1, <1>2, <1>5, <1>6, <1>7 DEF KeptFact

LEMMA WantPins ==
    ASSUME NEW p, NEW v \in Versions, NEW n \in Nodes, WantOf(p, v)[n] > 0
    PROVE  \E i \in DOMAIN p : p[i].node = n /\ p[i].pinned
  BY DEF WantOf

LEMMA KeptApply ==
    ASSUME TypeInv, NEW w \in Requests, KeptFact(w), Apply(w)
    PROVE  KeptFact(w)'
<1>1. PICK i \in job[w].todo, outcome \in {"written", "refused", "lost"} : ApplyOf(w, i, outcome)
  BY ApplyOwn
<1> DEFINE p == job[w].row.payload
           n == p[i].node
<1>2. /\ pc[w] = "apply" /\ job[w].op = "merge" /\ job'[w].op = "merge"
      /\ job'[w].row = job[w].row /\ job'[w].votes = job[w].votes
      /\ job'[w].base = job[w].base /\ foreign'[w] = foreign[w]
      /\ job'[w].lost = (outcome = "lost") /\ pc'[w] \in {"rebase", "save", "apply"}
      /\ pc'[w] = "apply" => outcome = "written"
      /\ outcome = "written" => job'[w].applied = job[w].applied \cup {n}
      /\ outcome # "written" => job'[w].applied = job[w].applied
      /\ i \in DOMAIN p
  BY <1>1 DEF ApplyOf
<1>3. BaseFact(w) /\ ~job[w].lost
  BY <1>2 DEF KeptFact
<1>4. BaseFact(w)'
  <2>1. CASE outcome = "refused"
    <3>1. ver' = ver
      BY <1>1, <2>1 DEF ApplyOf, graph
    <3> QED BY <1>2, <1>3, <2>1, <3>1 DEF BaseFact
  <2>2. CASE outcome # "refused"
    <3>1. /\ \A m \in Nodes \ {n} : ver'[m] = ver[m]
          /\ p[i].op = "upsert" => ver'[n] > 0 \/ p[i].op = "delete"
      BY <1>1, <2>2 DEF ApplyOf, ApplyEffect, Still
    <3>2. Simple(p) => ver'[n] > 0
      BY <1>2, <3>1 DEF Simple
    <3> QED BY <1>2, <1>3, <2>2, <3>1, <3>2, ZenonT(40) DEF BaseFact
  <2> QED BY <2>1, <2>2
<1>5. PinsNamed(job'[w].row) /\ Mergeable(job'[w].row, job'[w].votes, job'[w].base)
  BY <1>2 DEF KeptFact
<1>6. Fresh(w)'
  BY <1>2 DEF Fresh
<1>7. pc'[w] = "apply" => ~job'[w].lost
  BY <1>2
<1> QED BY <1>2, <1>4, <1>5, <1>6, <1>7 DEF KeptFact

LEMMA KeptRebase ==
    ASSUME TypeInv, NEW w \in Requests, KeptFact(w), Rebase(w), pc'[w] # "done"
    PROVE  KeptFact(w)'
<1> DEFINE j == job[w]
           after == VersionsOf(job[w].row.scope)
<1>1. /\ pc[w] = "rebase" /\ j.op = "merge" /\ pc'[w] = "restamp" /\ Moved(j.base, after) \subseteq j.applied
      /\ foreign' = foreign /\ ver' = ver
      /\ job'[w].op = j.op /\ job'[w].row = j.row /\ job'[w].votes = j.votes
      /\ job'[w].base = j.base /\ job'[w].lost = j.lost /\ job'[w].after = after
  BY RebaseOwn DEF graph
<1>2. BaseFact(w) /\ Mergeable(j.row, j.votes, j.base) /\ PinsNamed(j.row)
  BY <1>1 DEF KeptFact
<1>3. ASSUME foreign[w] = {}, Simple(j.row.payload) PROVE ~Missing(j.row, after)
  <2>1. j.row.present \subseteq Nodes /\ j.base \in Versions /\ ver \in Versions
    BY DEF TypeInv, TypeOK, Job, Row
  <2>2. ASSUME NEW n \in j.row.present PROVE after[n] # 0
    <3>1. n \in Nodes /\ j.base[n] # 0
      BY <1>2, <2>1, <2>2 DEF Mergeable, Missing
    <3>2. n \in j.row.scope
      BY <1>2, <1>3, <3>1 DEF BaseFact
    <3>3. CASE n \in j.applied
      BY <1>2, <1>3, <2>1, <3>1, <3>2, <3>3 DEF BaseFact, VersionsOf, Versions
    <3>4. CASE n \notin j.applied
      BY <1>1, <3>1, <3>4 DEF Moved
    <3> QED BY <3>3, <3>4
  <2> QED BY <2>2 DEF Missing
<1>4. AfterFact(w)'
  <2>1. \A n \in Nodes : after[n] = IF n \in j.row.scope THEN ver'[n] ELSE 0
    BY <1>1 DEF VersionsOf
  <2> HIDE DEF after
  <2>2. \A n \in Nodes \ foreign'[w] : job'[w].after[n] = IF n \in job'[w].row.scope THEN ver'[n] ELSE 0
    BY <1>1, <2>1
  <2>3. foreign'[w] = {} /\ Simple(job'[w].row.payload) => ~Missing(job'[w].row, job'[w].after)
    BY <1>1, <1>3
  <2> QED BY <2>2, <2>3 DEF AfterFact
<1>5. Fresh(w)' /\ PinsNamed(job'[w].row) /\ Mergeable(job'[w].row, job'[w].votes, job'[w].base)
  BY <1>1, <1>2 DEF Fresh
<1> QED BY <1>1, <1>4, <1>5 DEF KeptFact

LEMMA FreshOwn ==
    ASSUME TypeInv, NEW w \in Requests, Fresh(w), Step(w)
    PROVE  Fresh(w)'
<1>1. CASE Load(w)
  <2>1. pc[w] = "idle" /\ pc'[w] = "state" /\ foreign' = foreign /\ job'[w].applied = {}
    BY <1>1, LoadOwn DEF ghost
  <2> QED BY <2>1 DEF Fresh
<1>2. CASE pc'[w] = "done" /\ foreign'[w] = {}
  BY <1>2 DEF Fresh
<1>3. CASE pc'[w] \notin {"idle", "state", "done"}
  BY <1>3 DEF Fresh
<1>4. CASE Refuse(w)
  BY <1>2, <1>4, AnswerOwn DEF Refuse
<1>5. CASE State(w) /\ ~Refuse(w)
  <2>1. pc' = [pc EXCEPT ![w] = First[job[w].op]] /\ Permitted(w, VersionsOf(job[w].row.scope))
    BY <1>5 DEF State, Goto
  <2>2. First[job[w].op] \notin {"idle", "state", "done"}
    BY <2>1 DEF Permitted, First
  <2> QED BY <1>3, <2>1, <2>2 DEF TypeInv, TypeOK
<1>6. CASE (Capture(w) \/ Plan(w)) /\ ~Refuse(w)
  BY <1>3, <1>6 DEF Capture, Plan, Goto, TypeInv, TypeOK
<1>7. CASE Record(w) \/ Targets(w)
  BY <1>3, <1>7, RecordOwn, TargetsOwn
<1>8. CASE Apply(w)
  BY <1>3, <1>8, ApplyOwn DEF ApplyOf
<1>9. CASE Rebase(w)
  <2>1. CASE Answer(w)
    BY <1>2, <2>1, AnswerOwn
  <2>2. CASE ~Answer(w)
    BY <1>3, <1>9, <2>2 DEF Rebase, Goto, TypeInv, TypeOK
  <2> QED BY <2>1, <2>2
<1>10. CASE Anchor(w) \/ Save(w) \/ Store(w) \/ Restamp(w)
  BY <1>2, <1>10, LastOwn
<1> QED BY <1>1, <1>4, <1>5, <1>6, <1>7, <1>8, <1>9, <1>10 DEF Step

LEMMA KeptOwn ==
    ASSUME TypeInv, PinsNamed(cr), NEW w \in Requests, KeptFact(w), Step(w)
    PROVE  KeptFact(w)'
<1>1. Fresh(w)'
  BY FreshOwn DEF KeptFact
<1>2. CASE pc'[w] = "done"
  BY <1>1, <1>2 DEF KeptFact
<1>3. CASE Load(w)
  <2>1. /\ pc'[w] = "state" /\ job'[w].lost = FALSE
        /\ job'[w].op # "amend" => job'[w].row.payload = cr.payload
        /\ job'[w].row = [cr EXCEPT !.payload = job'[w].row.payload]
    BY <1>3, LoadOwn
  <2>2. job'[w].op = "merge" => job'[w].row = cr
    BY <2>1 DEF TypeInv, TypeOK, Row
  <2> QED BY <1>1, <2>1, <2>2 DEF KeptFact
<1>4. CASE State(w) /\ pc'[w] # "done"
  <2> DEFINE v == VersionsOf(job[w].row.scope)
  <2>1. /\ job'[w].row = job[w].row /\ job'[w].op = job[w].op
        /\ job'[w].votes = job[w].votes /\ job'[w].base = v
        /\ job'[w].applied = job[w].applied /\ job'[w].lost = job[w].lost
        /\ pc'[w] = First[job[w].op] /\ pc[w] = "state" /\ Permitted(w, v)
        /\ job[w].op \in {"approve", "reject", "close", "amend", "merge"}
        /\ ver' = ver
    BY <1>4, StateOwn DEF graph
  <2>2. CASE job[w].op # "merge"
    <3>1. pc'[w] \in {"record", "save", "capture"}
      BY <2>1, <2>2 DEF First
    <3> QED BY <1>1, <2>1, <2>2, <3>1 DEF KeptFact
  <2>3. CASE job[w].op = "merge"
    <3>1. pc'[w] = "plan" /\ Mergeable(job[w].row, job[w].votes, v)
      BY <2>1, <2>3 DEF First, Permitted
    <3>2. job[w].applied = {} /\ ~job[w].lost /\ PinsNamed(job[w].row)
      BY <2>1, <2>3 DEF KeptFact, Fresh
    <3>3. BaseFact(w)'
      <4>1. \A n \in Nodes : v[n] = IF n \in job[w].row.scope THEN ver[n] ELSE 0
        BY DEF VersionsOf
      <4> HIDE DEF v
      <4> QED BY <2>1, <3>2, <4>1 DEF BaseFact
    <3> HIDE DEF v
    <3>4. Mergeable(job'[w].row, job'[w].votes, job'[w].base) /\ PinsNamed(job'[w].row) /\ ~job'[w].lost
      BY <2>1, <3>1, <3>2
    <3> QED BY <1>1, <3>1, <3>3, <3>4 DEF KeptFact
  <2> QED BY <2>2, <2>3
<1>5. CASE Record(w)
  <2>1. job' = job /\ job[w].op # "merge" /\ pc'[w] \in {"anchor", "save"}
    BY <1>5, RecordOwn
  <2> QED BY <1>1, <2>1 DEF KeptFact
<1>6. CASE Capture(w) /\ pc'[w] # "done"
  <2> DEFINE p == job[w].row.payload
             v == VersionsOf(ScopeOf(p))
  <2>1. /\ job'[w].row.payload = p /\ pc'[w] = "store" /\ job'[w].row.want = WantOf(p, v)
    BY <1>6, CaptureOwn
  <2>2. v \in Versions
    BY VersionsType DEF TypeInv, TypeOK
  <2>3. PinsNamed(job'[w].row)
    BY <2>1, <2>2, WantPins DEF PinsNamed
  <2> QED BY <1>1, <2>1, <2>3 DEF KeptFact
<1>7. CASE Plan(w) /\ pc'[w] # "done"
  <2>1. /\ pc[w] = "plan" /\ pc'[w] = "targets"
        /\ job'[w].row = job[w].row /\ job'[w].op = job[w].op /\ job[w].op = "merge"
        /\ job'[w].votes = job[w].votes /\ job'[w].base = job[w].base
        /\ job'[w].applied = job[w].applied /\ job'[w].lost = job[w].lost
        /\ ver' = ver /\ foreign' = foreign
    BY <1>7, PlanOwn DEF graph, ghost
  <2>2. PinsNamed(job'[w].row) /\ Mergeable(job'[w].row, job'[w].votes, job'[w].base) /\ ~job'[w].lost
    BY <2>1 DEF KeptFact
  <2>3. BaseFact(w)'
    BY <2>1 DEF KeptFact, BaseFact
  <2> QED BY <1>1, <2>1, <2>2, <2>3 DEF KeptFact
<1>8. CASE Targets(w)
  <2>1. /\ pc[w] = "targets" /\ pc'[w] \in {"save", "apply"}
        /\ job'[w].row = job[w].row /\ job'[w].op = job[w].op /\ job[w].op = "merge"
        /\ job'[w].votes = job[w].votes /\ job'[w].base = job[w].base
        /\ job'[w].applied = job[w].applied /\ job'[w].lost = job[w].lost
        /\ ver' = ver /\ foreign' = foreign
    BY <1>8, TargetsOwn DEF graph, ghost
  <2>2. PinsNamed(job'[w].row) /\ Mergeable(job'[w].row, job'[w].votes, job'[w].base) /\ ~job'[w].lost
    BY <2>1 DEF KeptFact
  <2>3. BaseFact(w)'
    BY <2>1 DEF KeptFact, BaseFact
  <2> QED BY <1>1, <2>1, <2>2, <2>3 DEF KeptFact
<1>9. CASE Apply(w)
  BY <1>9, KeptApply
<1>10. CASE Rebase(w) /\ pc'[w] # "done"
  BY <1>10, KeptRebase
<1>11. CASE Anchor(w) \/ Save(w) \/ Store(w) \/ Restamp(w)
  BY <1>2, <1>11, LastOwn
<1> QED BY <1>2, <1>3, <1>4, <1>5, <1>6, <1>7, <1>8, <1>9, <1>10, <1>11 DEF Step

LEMMA RowKept ==
    ASSUME TypeInv, NEW w \in Requests, Step(w), ~Store(w)
    PROVE  /\ cr'.payload = cr.payload /\ cr'.want = cr.want /\ cr'.scope = cr.scope
           /\ cr'.revision = cr.revision
<1>1. cr \in Row
  BY DEF TypeInv, TypeOK
<1>2. CASE Load(w) \/ State(w) \/ Record(w) \/ Anchor(w) \/ Save(w)
  BY <1>1, <1>2 DEF Load, State, Record, Anchor, Save, Refuse, Row
<1>3. CASE Capture(w) \/ Plan(w) \/ Targets(w) \/ Apply(w) \/ Rebase(w) \/ Restamp(w)
  BY <1>1, <1>3 DEF Capture, Plan, Targets, Apply, Rebase, Restamp, Refuse, Row
<1> QED BY <1>2, <1>3 DEF Step

LEMMA StoreOwn ==
    ASSUME TypeInv, NEW w \in Requests, Store(w)
    PROVE  LET values == BaseValues(job[w].row.payload) IN
           /\ pc[w] = "store" /\ job[w].op = "amend" /\ pc'[w] = "done"
           /\ cr'.payload = job[w].row.payload /\ cr'.revision = job[w].row.revision + 1
           /\ cr'.want = job[w].row.want /\ cr'.scope = job[w].row.scope /\ cr'.hash = job[w].base
           /\ cr'.values = IF values # Nothing THEN values ELSE cr.values
           /\ UNCHANGED <<graph, appr, writes, endorsed, unwatched, reused>>
<1> DEFINE values == IF BaseValues(job[w].row.payload) # Nothing
                     THEN BaseValues(job[w].row.payload) ELSE cr.values
           present == PresentIn(job[w].base)
<1>1. /\ pc[w] = "store" /\ UNCHANGED <<graph, appr, writes, endorsed, unwatched, reused>>
      /\ cr' = [cr EXCEPT !.payload = job[w].row.payload, !.revision = job[w].row.revision + 1,
                          !.want = job[w].row.want, !.scope = job[w].row.scope,
                          !.hash = job[w].base, !.present = present, !.values = values]
  BY DEF Store, TypeInv, TypeOK, Row
<1>2. job[w].op = "amend" /\ pc'[w] = "done"
  BY <1>1, LastOwn DEF TypeInv, Staged
<1>3. cr \in Row
  BY DEF TypeInv, TypeOK
<1> HIDE DEF values, present
<1>4. /\ cr'.payload = job[w].row.payload /\ cr'.revision = job[w].row.revision + 1
      /\ cr'.want = job[w].row.want /\ cr'.scope = job[w].row.scope /\ cr'.hash = job[w].base
      /\ cr'.values = values
  BY <1>1, <1>3 DEF Row
<1> QED BY <1>1, <1>2, <1>4 DEF values

LEMMA RetryStep ==
    ASSUME TypeInv, RetryInv, [Next]_vars
    PROVE  RetryInv'
<1>1. CASE UNCHANGED vars
  <2>1. \A w \in Requests : KeptFact(w)'
    BY <1>1 DEF vars, graph, ghost, RetryInv, KeptFact, Fresh, BaseFact, AfterFact
  <2> QED BY <1>1, <2>1 DEF vars, RetryInv, PinsNamed
<1>2. CASE OthersWrite
  <2>1. \A x \in Requests : KeptFact(x)'
    BY <1>2, OthersAside, KeptAside DEF RetryInv
  <2>2. cr' = cr
    BY <1>2 DEF OthersWrite
  <2> QED BY <2>1, <2>2 DEF RetryInv, PinsNamed
<1>3. ASSUME NEW w \in Requests, Step(w) PROVE RetryInv'
  <2>1. \A x \in Requests \ {w} : KeptFact(x)'
    BY <1>3, StepAside, KeptAside DEF RetryInv
  <2>2. KeptFact(w)'
    BY <1>3, KeptOwn DEF RetryInv
  <2>3. PinsNamed(cr)'
    <3>1. CASE Store(w)
      <4>1. cr'.payload = job[w].row.payload /\ cr'.want = job[w].row.want /\ pc[w] = "store"
        BY <3>1, StoreOwn
      <4>2. PinsNamed(job[w].row)
        BY <4>1 DEF RetryInv, KeptFact
      <4> QED BY <4>1, <4>2 DEF PinsNamed
    <3>2. CASE ~Store(w)
      BY <1>3, <3>2, RowKept DEF PinsNamed, RetryInv
    <3> QED BY <3>1, <3>2
  <2> QED BY <2>1, <2>2, <2>3 DEF RetryInv
<1> QED BY <1>1, <1>2, <1>3, NextSteps

LEMMA InitRetry ==
    ASSUME Init
    PROVE  RetryInv
<1>1. PICK q \in Proposals : cr = Opened(q)
  BY DEF Init
<1> DEFINE v == VersionsOf(ScopeOf(q))
<1>2. cr.payload = q /\ cr.want = WantOf(q, v) /\ v \in Versions
  BY <1>1, VersionsType, InitType DEF Opened, TypeInv, TypeOK
<1>3. PinsNamed(cr)
  BY <1>2, WantPins DEF PinsNamed
<1>4. \A w \in Requests : KeptFact(w)
  BY DEF Init, KeptFact, Fresh, NoJob
<1> QED BY <1>3, <1>4 DEF RetryInv

LEMMA MoreVotes ==
    ASSUME NEW S \in SUBSET Users, NEW T \in SUBSET Users, S \subseteq T, Cardinality(S) >= Required
    PROVE  Cardinality(T) >= Required
<1>1. IsFiniteSet(T)
  BY ChangeRequestAssumption, FS_Subset
<1>2. Cardinality(S) <= Cardinality(T) /\ IsFiniteSet(S)
  BY <1>1, FS_Subset
<1> QED BY <1>1, <1>2, FS_CardinalityType, ChangeRequestAssumption

\* A row that is merged again as it is now, whose approvals moved with it.
LEMMA StoppedRetries ==
    ASSUME TypeInv, RetryInv, Next, NEW w \in Requests, StoppedAlone(w), Simple(cr.payload)
    PROVE  Mergeable(cr', appr', VersionsOf(cr.scope)')
<1> DEFINE j == job[w]
<1>1. Step(w)
  <2>1. pc'[w] # pc[w]
    BY DEF StoppedAlone
  <2>2. ~OthersWrite
    BY <2>1, OthersAside DEF Aside
  <2> QED BY <2>1, <2>2, NextSteps, StepAside DEF Aside
<1>2. /\ j \in Job /\ j.row \in Row /\ cr \in Row /\ j.base \in Versions /\ j.after \in Versions
      /\ appr \in [Users -> Decision] /\ ver \in Versions
  BY DEF TypeInv, TypeOK, Job
<1>3. /\ Mergeable(j.row, j.votes, j.base) /\ PinsNamed(j.row)
      /\ foreign[w] = {} /\ ~j.lost /\ appr = j.votes /\ j.op = "merge"
      /\ cr.payload = j.row.payload /\ cr.scope = j.row.scope
  BY <1>2 DEF StoppedAlone, RetryInv, KeptFact, TypeInv, Staged, Row
<1>4. CASE pc[w] = "rebase"
  <2> DEFINE after == VersionsOf(j.row.scope)
  <2>1. Rebase(w) /\ cr = j.row
    BY <1>1, <1>4 DEF Step, Load, State, Record, Anchor, Save, Capture, Store, Plan, Targets, Apply, Restamp,
       StoppedAlone
  <2>2. /\ UNCHANGED <<graph, appr, cr>>
        /\ ~(Moved(j.base, after) \subseteq j.applied /\ after # j.row.hash)
    BY <2>1, RebaseOwn DEF StoppedAlone
  <2>3. Moved(j.base, after) \subseteq j.applied
    BY <1>3, <1>4 DEF RetryInv, KeptFact, BaseFact, Moved, VersionsOf
  <2>4. after = j.row.hash /\ j.row.hash = j.base
    BY <1>3, <2>2, <2>3 DEF Mergeable
  <2>5. VersionsOf(cr.scope)' = after
    BY <2>1, <2>2 DEF graph, VersionsOf
  <2> HIDE DEF after
  <2>6. cr' = j.row /\ appr' = j.votes /\ VersionsOf(cr.scope)' = j.base
    BY <1>3, <2>1, <2>2, <2>4, <2>5
  <2> QED BY <1>3, <2>6
<1>5. CASE pc[w] = "restamp"
  <2>1. Restamp(w) /\ cr = [j.row EXCEPT !.hash = j.after]
    BY <1>1, <1>5 DEF Step, Load, State, Record, Anchor, Save, Capture, Store, Plan, Targets, Apply, Rebase,
       StoppedAlone
  <2>2. /\ cr' = cr /\ ver' = ver
        /\ appr' = [u \in Users |-> IF Carried(appr[u], w) THEN [appr[u] EXCEPT !.hash = j.after] ELSE appr[u]]
    BY <2>1 DEF Restamp, graph
  <2>3. VersionsOf(cr.scope)' = j.after
    <3>1. \A n \in Nodes : j.after[n] = IF n \in cr.scope THEN ver[n] ELSE 0
      BY <1>3, <1>5 DEF RetryInv, KeptFact, AfterFact
    <3>2. VersionsOf(cr.scope)' = [n \in Nodes |-> IF n \in cr.scope THEN ver[n] ELSE 0]
      BY <2>2 DEF VersionsOf
    <3>3. j.after = [n \in Nodes |-> j.after[n]]
      BY <1>2 DEF Versions
    <3> QED BY <3>1, <3>2, <3>3
  <2>4. /\ cr.status = "open" /\ cr.hash = j.after /\ cr.revision = j.row.revision
        /\ cr.want = j.row.want /\ cr.present = j.row.present
    BY <1>2, <1>3, <2>1 DEF Mergeable, Row
  <2>5. ~Missing(cr, j.after)
    BY <1>3, <1>5, <2>4 DEF RetryInv, KeptFact, AfterFact, Missing
  <2>6. ~Stale(cr, j.after)
    BY <1>3, <2>4 DEF Stale, PinsNamed, Simple
  <2>7. Approved(cr, appr', j.after)
    <3> DEFINE S == {u \in Users : Counts(j.votes[u], j.row, j.base)}
               T == {u \in Users : Counts(appr'[u], cr, j.after)}
    <3>1. Cardinality(S) >= Required
      BY <1>3 DEF Mergeable, Approved
    <3>2. ASSUME NEW u \in S PROVE u \in T
      <4>1. u \in Users /\ appr[u] \in Decision /\ Counts(appr[u], j.row, j.base)
        BY <1>2, <1>3, <3>2
      <4>2. appr'[u] = [appr[u] EXCEPT !.hash = j.after]
        BY <2>2, <4>1 DEF Counts, Carried
      <4>3. Counts(appr'[u], cr, j.after)
        BY <2>4, <4>1, <4>2 DEF Counts, Decision
      <4> QED BY <4>1, <4>3
    <3> HIDE DEF S, T
    <3>3. S \subseteq T
      BY <3>2
    <3>4. S \in SUBSET Users /\ T \in SUBSET Users
      BY DEF S, T
    <3>5. Cardinality(T) >= Required
      BY <3>1, <3>3, <3>4, MoreVotes
    <3> QED BY <3>5 DEF Approved, T
  <2>8. Mergeable(cr, appr', j.after)
    BY <2>4, <2>5, <2>6, <2>7 DEF Mergeable
  <2> QED BY <2>2, <2>3, <2>8
<1> QED BY <1>4, <1>5 DEF StoppedAlone

\* A merge that was refused half-way, with nobody else at the graph or at the
\* row, leaves a request that the same approvals let merge again, whatever the
\* number of approvers and of items, if no item names a version or is a delete.
THEOREM StoppedMergeRetries == Spec => RetryKeepsApproval
<1>1. TypeInv /\ RetryInv /\ [Next]_vars =>
        [\A w \in Requests :
           (StoppedAlone(w)
              /\ \A i \in DOMAIN cr.payload : cr.payload[i].op = "upsert" /\ ~cr.payload[i].pinned)
           => Mergeable(cr', appr', VersionsOf(cr.scope)')]_vars
  BY StoppedRetries DEF Simple
<1> QED BY <1>1, InitType, TypeStep, InitRetry, RetryStep, PTL DEF Spec, RetryKeepsApproval

-----------------------------------------------------------------------------
(* What is known of the graph, the row and the requests under way.         *)

Upserted(p) == {p[i].node : i \in {k \in DOMAIN p : p[k].op = "upsert"}}
\* The changeset would leave content x of n as it is.
Wants(p, n, x) == \E i \in DOMAIN p : p[i].node = n /\ p[i].op = "upsert" /\ p[i].val = x
\* Those who may approve and did, with x as the content of n before them.
Saw(approvals, p, n, x) == {u \in (Users \ {Author}) \cup Bypassers :
    \E e \in approvals : e[1] = u /\ e[2] = p /\ e[3][n] = x}
Known(approvals, p, n, x) == Cardinality(Saw(approvals, p, n, x)) >= Required \/ Wants(p, n, x)
Exempt == unwatched \cup reused

\* Versions that were read: the graph's have not gone back since.
Past(v) == \A n \in Nodes : n \in reused \/ v[n] <= ver[n]

\* The ancestor of n is what n holds, or content that enough people saw.
Settled(n) == cr.values[n] \in {None, val[n]} \/ Known(endorsed, cr.payload, n, cr.values[n])

RowInv ==
    /\ OneEach(cr.payload) /\ Declared(cr.payload) \subseteq cr.scope
    /\ Past(cr.hash)
    /\ \A n \in Nodes : cr.values[n] # None => n \in reused \/ ver[n] > 0
    /\ \A n \in Upserted(cr.payload) \ Exempt : ver[n] = cr.hash[n] => Settled(n)

\* An approval of this revision was given by someone who may, with this content
\* of every node before them whose version is still the approved one; or a merge
\* has put there what the changeset asks for.
Attests(a, u) ==
    a.decision = "approved" /\ a.revision = cr.revision =>
        /\ u \in (Users \ {Author}) \cup Bypassers
        /\ \E e \in endorsed :
              /\ e[1] = u /\ e[2] = cr.payload
              /\ \A n \in Declared(cr.payload) \ Exempt :
                    ver[n] = a.hash[n] => e[3][n] = val[n] \/ Wants(cr.payload, n, val[n])

VotesInv == \A u \in Users :
    Past(appr[u].hash) /\ appr[u].revision <= cr.revision /\ Attests(appr[u], u)

\* A request works on the revision that the row has; an amendment alone.
Bound(w) == w \in InFlight =>
    /\ job[w].row.revision = cr.revision
    /\ job[w].op = "amend" => InFlight = {w}
    /\ job[w].op # "amend" => job[w].row.payload = cr.payload /\ job[w].row.scope = cr.scope
    /\ pc[w] = "store" => /\ OneEach(job[w].row.payload) /\ Past(job[w].base)
                          /\ Declared(job[w].row.payload) \subseteq job[w].row.scope

\* A merge that has loaded the row.
LoadedFact(w) == LET j == job[w] IN
    /\ Past(j.row.hash)
    /\ \A u \in Users : Past(j.votes[u].hash) /\ Attests(j.votes[u], u)
    /\ \A n \in Upserted(cr.payload) \ Exempt : ver[n] = j.row.hash[n] =>
          /\ Settled(n)
          /\ j.row.values[n] \in {None, val[n]} \/ Known(endorsed, cr.payload, n, j.row.values[n])

\* An approval that has read the graph.
DecidedFact(w) ==
    /\ Past(job[w].base)
    /\ pc[w] = "record" /\ job[w].op = "approve" =>
          /\ job[w].who \in (Users \ {Author}) \cup Bypassers
          /\ \A n \in Declared(cr.payload) \ Exempt : ver[n] = job[w].base[n] => job[w].seen[n] = val[n]

\* A merge that has read the graph: what moved was written by others, or is done.
MergingFact(w) == LET j == job[w] IN
    /\ Past(j.base)
    /\ \A n \in (foreign[w] \cap cr.scope) \ reused : ver[n] > j.base[n]
    /\ \A n \in Upserted(cr.payload) \ (Exempt \cup foreign[w]) : Settled(n)
    /\ pc[w] # "rebase" => \A n \in Declared(cr.payload) \ (reused \cup foreign[w] \cup j.applied) : ver[n] = j.base[n]
    /\ \A n \in (Declared(cr.payload) \cap j.applied) \ (reused \cup foreign[w]) :
          ver[n] = j.base[n] \/ Wants(cr.payload, n, val[n])

\* Before the plan: what others did not touch was reviewed as it is; what they
\* touched has an ancestor, and that was reviewed.
PlanFact(w) == LET j == job[w] IN
    /\ j.applied = {}
    /\ \A n \in Declared(cr.payload) \ (Exempt \cup foreign[w]) : Known(endorsed, cr.payload, n, val[n])
    /\ \A n \in foreign[w] \ Exempt : j.row.values[n] # None
    /\ \A n \in Upserted(cr.payload) \ Exempt :
          j.row.values[n] = None \/ Known(endorsed, cr.payload, n, j.row.values[n])

\* What is left to write was reviewed, or would not be written.
TodoFact(w) == LET j == job[w] IN
    /\ j.todo \subseteq DOMAIN cr.payload
    /\ pc[w] = "targets" => j.applied = {}
    /\ pc[w] = "apply" => Past(j.target)
    /\ \A i \in j.todo : LET n == cr.payload[i].node IN
          n \notin Exempt /\ (pc[w] = "apply" => Fits(w, n)) => Known(endorsed, cr.payload, n, val[n])

\* The base of a merge that stopped half-way has moved to `after`.
RestampFact(w) == LET j == job[w] IN
    /\ Past(j.after)
    /\ \A n \in Declared(cr.payload) \ Exempt :
          ver[n] = j.after[n] => j.after[n] = j.base[n] \/ Wants(cr.payload, n, val[n])

Facts(w) ==
    /\ Bound(w) /\ Fresh(w)
    /\ pc[w] = "state" /\ job[w].op = "merge" => LoadedFact(w)
    /\ pc[w] \in {"record", "anchor"} => DecidedFact(w)
    /\ pc[w] \in {"plan", "targets", "apply", "rebase"} => MergingFact(w)
    /\ pc[w] = "plan" => PlanFact(w)
    /\ pc[w] \in {"targets", "apply"} => TodoFact(w)
    /\ pc[w] = "restamp" => RestampFact(w)

ReviewInv == GraphInv /\ RowInv /\ VotesInv /\ \A w \in Requests : Facts(w)

\* A changeset is amended while nothing else is under way.
AmendsAlone == "amend" \in Ops => "amend" \in Alone

LEMMA KnownStays ==
    ASSUME NEW E, NEW F, E \subseteq F, NEW p, NEW n, NEW x, Known(E, p, n, x)
    PROVE  Known(F, p, n, x)
<1>1. /\ Saw(E, p, n, x) \subseteq Saw(F, p, n, x)
      /\ Saw(E, p, n, x) \in SUBSET Users /\ Saw(F, p, n, x) \in SUBSET Users
  BY ChangeRequestAssumption DEF Saw
<1>2. CASE Wants(p, n, x)
  BY <1>2 DEF Known
<1>3. CASE Cardinality(Saw(E, p, n, x)) >= Required
  BY <1>1, <1>3, MoreVotes DEF Known
<1> QED BY <1>2, <1>3 DEF Known

LEMMA DeclaredType ==
    ASSUME NEW p \in Proposals
    PROVE  /\ Upserted(p) \subseteq Declared(p) /\ Declared(p) \subseteq Nodes
           /\ \A i \in DOMAIN p : p[i].node \in Declared(p) /\ p[i] \in Item
           /\ \A i \in DOMAIN p : p[i].op = "upsert" => p[i].node \in Upserted(p)
  BY ProposalType DEF Upserted, Declared, Item

\* Versions that were read stay behind those of the graph.
LEMMA PastStays ==
    ASSUME TypeInv, TypeInv', Drift, NEW v \in Versions, Past(v), NEW n \in Nodes
    PROVE  /\ n \in reused' \/ v[n] <= ver'[n]
           /\ n \notin reused' /\ ver'[n] = v[n] => Still(n)
           /\ n \notin reused' /\ ver[n] > v[n] => ver'[n] > v[n]
           /\ n \notin reused' /\ Moves(n) => ver'[n] > v[n]
<1>1. v[n] \in Nat /\ ver[n] \in Nat /\ ver'[n] \in Nat
  BY DEF TypeInv, TypeOK, Versions
<1>2. Still(n) \/ Moves(n)
  BY DEF Drift
<1>3. n \in reused' \/ v[n] <= ver[n]
  BY DEF Past, Drift
<1> QED BY <1>1, <1>2, <1>3 DEF Still, Moves

SettledNext(n) == cr'.values[n] \in {None, val'[n]} \/ Known(endorsed', cr'.payload, n, cr'.values[n])

LEMMA SettledStays ==
    ASSUME NEW n \in Nodes, Settled(n), val'[n] = val[n], cr'.payload = cr.payload,
           endorsed \subseteq endorsed', cr'.values[n] \in {cr.values[n], None, val[n]}
    PROVE  SettledNext(n)
  BY KnownStays DEF Settled, SettledNext

AttestsNext(a, u) ==
    a.decision = "approved" /\ a.revision = cr'.revision =>
        /\ u \in (Users \ {Author}) \cup Bypassers
        /\ \E e \in endorsed' :
              /\ e[1] = u /\ e[2] = cr'.payload
              /\ \A n \in Declared(cr'.payload) \ (unwatched' \cup reused') :
                    ver'[n] = a.hash[n] => e[3][n] = val'[n] \/ Wants(cr'.payload, n, val'[n])

LEMMA AttestsStays ==
    ASSUME TypeInv, TypeInv', Drift, cr'.payload = cr.payload, cr'.revision = cr.revision,
           NEW a \in Decision, NEW u, Past(a.hash), Attests(a, u)
    PROVE  AttestsNext(a, u)
<1> SUFFICES ASSUME a.decision = "approved", a.revision = cr'.revision
             PROVE  AttestsNext(a, u)
  BY DEF AttestsNext
<1>1. PICK e \in endorsed :
        /\ e[1] = u /\ e[2] = cr.payload
        /\ \A n \in Declared(cr.payload) \ Exempt :
              ver[n] = a.hash[n] => e[3][n] = val[n] \/ Wants(cr.payload, n, val[n])
  BY DEF Attests
<1>2. Declared(cr.payload) \subseteq Nodes /\ a.hash \in Versions
  BY DeclaredType DEF TypeInv, TypeOK, Row, Decision
<1>3. ASSUME NEW n \in Declared(cr'.payload) \ (unwatched' \cup reused'), ver'[n] = a.hash[n]
      PROVE  e[3][n] = val'[n] \/ Wants(cr'.payload, n, val'[n])
  <2>1. n \in Nodes /\ n \notin reused' /\ n \notin Exempt
    BY <1>2, <1>3 DEF Drift, Exempt
  <2>2. Still(n)
    BY <1>2, <1>3, <2>1, PastStays
  <2> QED BY <1>1, <1>3, <2>1, <2>2 DEF Still
<1>4. e \in endorsed' /\ u \in (Users \ {Author}) \cup Bypassers
  BY DEF Drift, Attests
<1> QED BY <1>1, <1>3, <1>4 DEF AttestsNext

\* The row as a request under way sees another's step.
RowAside(x) == x \in InFlight =>
    /\ cr'.payload = cr.payload /\ cr'.revision = cr.revision /\ cr'.scope = cr.scope
    /\ \A n \in Nodes : cr'.values[n] \in {cr.values[n], None, val[n]}
    /\ job[x].op = "amend" => InFlight' = {x}

LEMMA BoundAside ==
    ASSUME TypeInv, TypeInv', NEW x \in Requests, Bound(x), Aside(x), RowAside(x)
    PROVE  Bound(x)'
<1>1. pc'[x] = pc[x] /\ job'[x] = job[x] /\ Drift
  BY DEF Aside
<1>2. x \in InFlight' => x \in InFlight
  BY <1>1 DEF InFlight
<1>3. Past(job[x].base) => \A n \in Nodes : n \in reused' \/ job[x].base[n] <= ver'[n]
  <2>1. job[x].base \in Versions
    BY DEF TypeInv, TypeOK, Job
  <2> QED BY <1>1, <2>1, PastStays
<1> QED BY <1>1, <1>2, <1>3 DEF Bound, RowAside, Past

LEMMA LoadedAside ==
    ASSUME TypeInv, TypeInv', NEW x \in Requests, x \in InFlight, LoadedFact(x), Aside(x), RowAside(x)
    PROVE  LoadedFact(x)'
<1> DEFINE j == job[x]
<1>1. job'[x] = j /\ Drift /\ cr'.payload = cr.payload /\ cr'.revision = cr.revision
      /\ \A n \in Nodes : cr'.values[n] \in {cr.values[n], None, val[n]}
  BY DEF Aside, RowAside
<1>2. /\ j.row.hash \in Versions /\ j.votes \in [Users -> Decision]
      /\ \A u \in Users : j.votes[u].hash \in Versions
      /\ Upserted(cr.payload) \subseteq Nodes
  BY DeclaredType DEF TypeInv, TypeOK, Job, Row, Decision
<1>3. \A n \in Nodes : n \in reused' \/ j.row.hash[n] <= ver'[n]
  BY <1>1, <1>2, PastStays DEF LoadedFact
<1>4. ASSUME NEW u \in Users
      PROVE  (\A n \in Nodes : n \in reused' \/ j.votes[u].hash[n] <= ver'[n]) /\ AttestsNext(j.votes[u], u)
  <2>1. Past(j.votes[u].hash) /\ Attests(j.votes[u], u) /\ j.votes[u] \in Decision
    BY <1>2 DEF LoadedFact
  <2>2. \A n \in Nodes : n \in reused' \/ j.votes[u].hash[n] <= ver'[n]
    BY <1>1, <1>2, <2>1, PastStays
  <2> QED BY <1>1, <2>1, <2>2, AttestsStays
<1>5. ASSUME NEW n \in Upserted(cr.payload), n \notin unwatched', n \notin reused', ver'[n] = j.row.hash[n]
      PROVE  /\ SettledNext(n)
             /\ j.row.values[n] \in {None, val'[n]} \/ Known(endorsed', cr.payload, n, j.row.values[n])
  <2>1. n \in Nodes /\ n \notin Exempt
    BY <1>1, <1>2, <1>5 DEF Drift, Exempt
  <2>2. Still(n)
    BY <1>1, <1>2, <1>5, <2>1, PastStays DEF LoadedFact
  <2>3. /\ Settled(n)
        /\ j.row.values[n] \in {None, val[n]} \/ Known(endorsed, cr.payload, n, j.row.values[n])
    BY <1>5, <2>1, <2>2 DEF LoadedFact, Still
  <2>4. SettledNext(n)
    BY <1>1, <2>1, <2>2, <2>3, SettledStays DEF Drift, Still
  <2> QED BY <1>1, <2>2, <2>3, <2>4, KnownStays DEF Drift, Still
<1> QED BY <1>1, <1>3, <1>4, <1>5 DEF LoadedFact, Past, Attests, AttestsNext, Settled, SettledNext, Exempt

LEMMA DecidedAside ==
    ASSUME TypeInv, TypeInv', NEW x \in Requests, x \in InFlight, DecidedFact(x), Aside(x), RowAside(x)
    PROVE  DecidedFact(x)'
<1> DEFINE j == job[x]
<1>1. job'[x] = j /\ pc'[x] = pc[x] /\ Drift /\ cr'.payload = cr.payload
  BY DEF Aside, RowAside
<1>2. j.base \in Versions /\ Declared(cr.payload) \subseteq Nodes /\ Past(j.base)
  BY DeclaredType DEF TypeInv, TypeOK, Job, Row, DecidedFact
<1>3. \A n \in Nodes : n \in reused' \/ j.base[n] <= ver'[n]
  BY <1>1, <1>2, PastStays
<1>4. ASSUME NEW n \in Declared(cr.payload), n \notin unwatched', n \notin reused', ver'[n] = j.base[n]
      PROVE  Still(n) /\ n \notin Exempt
  BY <1>1, <1>2, <1>4, PastStays DEF Drift, Exempt
<1> QED BY <1>1, <1>3, <1>4 DEF DecidedFact, Past, Still, Exempt

LEMMA MergingAside ==
    ASSUME TypeInv, TypeInv', NEW x \in Requests, x \in InFlight, Reading(x), MergingFact(x), Aside(x), RowAside(x)
    PROVE  MergingFact(x)'
<1> DEFINE j == job[x]
<1>1. /\ job'[x] = j /\ pc'[x] = pc[x] /\ Drift /\ cr'.payload = cr.payload /\ cr'.scope = cr.scope
      /\ \A n \in Nodes : cr'.values[n] \in {cr.values[n], None, val[n]}
      /\ reused \subseteq reused' /\ unwatched \subseteq unwatched' /\ foreign[x] \subseteq foreign'[x]
      /\ endorsed \subseteq endorsed'
  BY DEF Aside, RowAside, Drift
<1>2. /\ j.base \in Versions /\ Declared(cr.payload) \subseteq Nodes /\ Past(j.base)
      /\ Upserted(cr.payload) \subseteq Nodes /\ cr.scope \subseteq Nodes
  BY DeclaredType DEF TypeInv, TypeOK, Job, Row, MergingFact
<1>3. \A n \in Nodes : n \in reused' \/ j.base[n] <= ver'[n]
  BY <1>1, <1>2, PastStays
<1>4. \A n \in Nodes \ foreign'[x] : Still(n) /\ n \notin foreign[x]
  BY <1>1 DEF Aside
<1>5. ASSUME NEW n \in Nodes, n \in foreign'[x], n \in cr.scope, n \notin reused'
      PROVE  ver'[n] > j.base[n]
  <2>1. CASE n \in foreign[x]
    BY <1>1, <1>2, <1>5, <2>1, PastStays DEF MergingFact
  <2>2. CASE n \notin foreign[x]
    BY <1>1, <1>2, <1>5, <2>2, PastStays DEF Aside
  <2> QED BY <2>1, <2>2
<1>6. ASSUME NEW n \in Upserted(cr.payload), n \notin unwatched', n \notin reused', n \notin foreign'[x]
      PROVE  SettledNext(n)
  <2>1. n \in Nodes /\ Settled(n) /\ Still(n)
    BY <1>1, <1>2, <1>4, <1>6 DEF MergingFact, Exempt
  <2> QED BY <1>1, <2>1, SettledStays DEF Still
<1>7. ASSUME NEW n \in Declared(cr.payload), n \notin reused', n \notin foreign'[x]
      PROVE  Still(n) /\ n \notin reused /\ n \notin foreign[x]
  BY <1>1, <1>2, <1>4, <1>7
<1> QED BY <1>1, <1>2, <1>3, <1>5, <1>6, <1>7 DEF MergingFact, Past, Settled, SettledNext, Still, Exempt

LEMMA PlanAside ==
    ASSUME TypeInv, TypeInv', NEW x \in Requests, x \in InFlight, pc[x] = "plan", PlanFact(x), Aside(x), RowAside(x)
    PROVE  PlanFact(x)'
<1> DEFINE j == job[x]
<1>1. /\ job'[x] = j /\ cr'.payload = cr.payload
      /\ reused \subseteq reused' /\ unwatched \subseteq unwatched' /\ endorsed \subseteq endorsed'
  BY DEF Aside, RowAside, Drift
<1>2. Reading(x)
  BY DEF Reading, TypeInv, Staged
<1>3. \A n \in Nodes \ foreign'[x] : Still(n) /\ n \notin foreign[x]
  BY <1>2 DEF Aside
<1>4. Declared(cr.payload) \subseteq Nodes /\ foreign'[x] \subseteq Nodes
  BY DeclaredType DEF TypeInv, TypeOK, Row
<1>5. ASSUME NEW n \in foreign'[x], n \notin unwatched', n \notin reused'
      PROVE  j.row.values[n] # None
  <2>1. CASE n \in foreign[x]
    BY <1>1, <1>5, <2>1 DEF PlanFact, Exempt
  <2>2. CASE n \notin foreign[x]
    BY <1>2, <1>4, <1>5, <2>2 DEF Aside, Unnoticed
  <2> QED BY <2>1, <2>2
<1>6. ASSUME NEW n \in Declared(cr.payload), n \notin unwatched', n \notin reused', n \notin foreign'[x]
      PROVE  Known(endorsed', cr.payload, n, val'[n])
  <2>1. Known(endorsed, cr.payload, n, val[n]) /\ Still(n)
    BY <1>1, <1>3, <1>4, <1>6 DEF PlanFact, Exempt
  <2> QED BY <1>1, <2>1, KnownStays DEF Still
<1>7. ASSUME NEW n \in Upserted(cr.payload), n \notin unwatched', n \notin reused'
      PROVE  j.row.values[n] = None \/ Known(endorsed', cr.payload, n, j.row.values[n])
  BY <1>1, <1>7, KnownStays DEF PlanFact, Exempt
<1> QED BY <1>1, <1>5, <1>6, <1>7 DEF PlanFact, Exempt

LEMMA TodoAside ==
    ASSUME TypeInv, TypeInv', NEW x \in Requests, x \in InFlight, pc[x] \in {"targets", "apply"},
           TodoFact(x), Aside(x), RowAside(x)
    PROVE  TodoFact(x)'
<1> DEFINE j == job[x]
<1>1. /\ job'[x] = j /\ pc'[x] = pc[x] /\ Drift /\ cr'.payload = cr.payload
      /\ reused \subseteq reused' /\ unwatched \subseteq unwatched' /\ endorsed \subseteq endorsed'
  BY DEF Aside, RowAside, Drift
<1>2. Reading(x)
  BY DEF Reading, TypeInv, Staged
<1>3. \A i \in DOMAIN cr.payload : cr.payload[i].node \in Nodes
  BY DeclaredType DEF TypeInv, TypeOK, Row
<1>4. j.target \in Versions
  BY DEF TypeInv, TypeOK, Job
<1>5. pc[x] = "apply" => \A n \in Nodes : n \in reused' \/ j.target[n] <= ver'[n]
  BY <1>1, <1>4, PastStays DEF TodoFact
<1>6. ASSUME NEW i \in j.todo, cr.payload[i].node \notin unwatched', cr.payload[i].node \notin reused',
             pc[x] = "apply" => j.target[cr.payload[i].node] \in {0, ver'[cr.payload[i].node]}
      PROVE  Known(endorsed', cr.payload, cr.payload[i].node, val'[cr.payload[i].node])
  <2> DEFINE n == cr.payload[i].node
  <2>1. n \in Nodes /\ n \notin Exempt
    BY <1>1, <1>3, <1>6 DEF TodoFact, Exempt
  <2> HIDE DEF n
  <2>2. Still(n)
    <3>1. CASE pc[x] = "targets"
      BY <1>2, <1>6, <2>1, <3>1 DEF Aside, Unnoticed, n
    <3>2. CASE pc[x] = "apply" /\ j.target[n] = 0
      BY <1>2, <1>6, <2>1, <3>2 DEF Aside, Unnoticed, n
    <3>3. CASE pc[x] = "apply" /\ j.target[n] = ver'[n]
      <4>1. Past(j.target)
        BY <3>3 DEF TodoFact
      <4> QED BY <1>1, <1>4, <1>6, <2>1, <3>3, <4>1, PastStays DEF n
    <3> QED BY <1>6, <3>1, <3>2, <3>3 DEF n
  <2>3. Known(endorsed, cr.payload, n, val[n])
    BY <1>6, <2>1, <2>2 DEF TodoFact, Fits, Still, n
  <2>4. Known(endorsed', cr.payload, n, val'[n])
    BY <1>1, <2>2, <2>3, KnownStays DEF Still
  <2> QED BY <2>4 DEF n
<1> QED BY <1>1, <1>5, <1>6 DEF TodoFact, Past, Fits, Exempt

LEMMA RestampAside ==
    ASSUME TypeInv, TypeInv', NEW x \in Requests, x \in InFlight, RestampFact(x), Aside(x), RowAside(x)
    PROVE  RestampFact(x)'
<1> DEFINE j == job[x]
<1>1. job'[x] = j /\ Drift /\ cr'.payload = cr.payload
  BY DEF Aside, RowAside
<1>2. j.after \in Versions /\ Declared(cr.payload) \subseteq Nodes /\ Past(j.after)
  BY DeclaredType DEF TypeInv, TypeOK, Job, Row, RestampFact
<1>3. \A n \in Nodes : n \in reused' \/ j.after[n] <= ver'[n]
  BY <1>1, <1>2, PastStays
<1>4. ASSUME NEW n \in Declared(cr.payload), n \notin unwatched', n \notin reused', ver'[n] = j.after[n]
      PROVE  Still(n) /\ n \notin Exempt
  BY <1>1, <1>2, <1>4, PastStays DEF Drift, Exempt
<1> QED BY <1>1, <1>3, <1>4 DEF RestampFact, Past, Still, Exempt

LEMMA FactsAside ==
    ASSUME TypeInv, TypeInv', NEW x \in Requests, Facts(x), Aside(x), RowAside(x)
    PROVE  Facts(x)'
<1>1. pc'[x] = pc[x] /\ job'[x] = job[x]
  BY DEF Aside
<1>2. Bound(x)' /\ Fresh(x)'
  BY BoundAside, FreshAside DEF Facts
<1>3. CASE x \notin InFlight
  BY <1>1, <1>2, <1>3 DEF Facts, InFlight
<1>4. CASE x \in InFlight
  <2>1. pc[x] \in {"plan", "targets", "apply", "rebase"} => Reading(x)
    BY DEF Reading, TypeInv, Staged
  <2> QED BY <1>1, <1>2, <1>4, <2>1, LoadedAside, DecidedAside, MergingAside, PlanAside, TodoAside,
             RestampAside DEF Facts
<1> QED BY <1>3, <1>4

\* The requests under way are those of before, but for the one that acts.
LEMMA FlightStep ==
    ASSUME TypeInv, NEW w \in Requests, Step(w)
    PROVE  /\ ~Load(w) => w \in InFlight
           /\ \A x \in Requests \ {w} : x \in InFlight' <=> x \in InFlight
<1>1. ~Load(w) => w \in InFlight
  <2>1. CASE State(w) \/ Record(w) \/ Anchor(w) \/ Save(w) \/ Capture(w) \/ Store(w)
    BY <2>1 DEF State, Record, Anchor, Save, Capture, Store, InFlight
  <2>2. CASE Plan(w) \/ Targets(w) \/ Apply(w) \/ Rebase(w) \/ Restamp(w)
    BY <2>2 DEF Plan, Targets, Apply, Rebase, Restamp, InFlight
  <2> QED BY <2>1, <2>2 DEF Step
<1>2. \A x \in Requests \ {w} : pc'[x] = pc[x]
  BY StepAside DEF Aside
<1> QED BY <1>1, <1>2 DEF InFlight

LEMMA StepDrift ==
    ASSUME TypeInv, NEW w \in Requests, Step(w)
    PROVE  Drift
<1>1. CASE Apply(w)
  <2>1. PICK i \in job[w].todo, outcome \in {"written", "refused", "lost"} : ApplyOf(w, i, outcome)
    BY <1>1, ApplyOwn
  <2>2. unwatched \subseteq unwatched' /\ reused \subseteq reused' /\ endorsed' = endorsed
    BY <2>1 DEF ApplyOf
  <2>3. CASE outcome = "refused"
    BY <2>1, <2>2, <2>3 DEF ApplyOf, graph, Drift, Still
  <2>4. CASE outcome # "refused"
    <3>1. ApplyEffect(w, job[w].row.payload[i])
      BY <2>1, <2>4 DEF ApplyOf
    <3> QED BY <2>2, <3>1 DEF ApplyEffect, Drift, Moves
  <2> QED BY <2>3, <2>4
<1>2. CASE ~Apply(w)
  <2>1. Quiet
    <3>1. CASE Load(w) \/ State(w) \/ Record(w) \/ Anchor(w) \/ Save(w) \/ Capture(w)
      BY <3>1 DEF Load, State, Record, Anchor, Save, Capture, Refuse, ghost, graph, Quiet
    <3>2. CASE Store(w) \/ Plan(w) \/ Targets(w) \/ Rebase(w) \/ Restamp(w)
      BY <3>2 DEF Store, Plan, Targets, Rebase, Restamp, Refuse, ghost, graph, Quiet
    <3> QED BY <1>2, <3>1, <3>2 DEF Step
  <2> QED BY <2>1 DEF Quiet, graph, Drift, Still
<1> QED BY <1>1, <1>2

LEMMA OthersDrift ==
    ASSUME TypeInv, OthersWrite
    PROVE  Drift
<1>1. PICK n \in Nodes :
          \/ \E v \in Vals \ {val[n]} : Exists(n) /\ Wrote(None, n, ver[n] + 1, v)
          \/ \E v \in Vals : Wrote(None, n, 1, v)
          \/ Exists(n) /\ Wrote(None, n, 0, None)
  BY DEF OthersWrite
<1>2. PICK version \in Nat, content \in Vals \cup {None} : Wrote(None, n, version, content)
  BY <1>1 DEF TypeInv, TypeOK, Versions
<1>3. /\ \A m \in Nodes \ {n} : Still(m)
      /\ Moves(n) /\ unwatched \subseteq unwatched' /\ reused \subseteq reused'
  BY <1>2, WroteDrift
<1> QED BY <1>3 DEF OthersWrite, Drift

LEMMA AnchorOwn ==
    ASSUME TypeInv, NEW w \in Requests, Anchor(w)
    PROVE  LET j == job[w] IN
           /\ pc[w] = "anchor" /\ j.op = "approve" /\ pc'[w] = "done"
           /\ UNCHANGED <<graph, appr, writes, endorsed, reused>>
           /\ unwatched' = IF HasAncestor(j.row) THEN unwatched
                           ELSE unwatched \cup {n \in Nodes : cr.values[n] # None}
           /\ cr'.hash \in {cr.hash, j.base}
           /\ cr'.values = IF HasAncestor(j.row) THEN BaseValues(j.row.payload) ELSE cr.values
           /\ cr' = cr \/ cr'.hash = j.base
<1> DEFINE j == job[w]
           values == IF HasAncestor(j.row) THEN BaseValues(j.row.payload) ELSE cr.values
<1>1. /\ pc[w] = "anchor" /\ UNCHANGED <<graph, appr, writes, endorsed, reused>>
      /\ unwatched' = IF HasAncestor(j.row) THEN unwatched
                      ELSE unwatched \cup {n \in Nodes : cr.values[n] # None}
  BY DEF Anchor
<1>2. j.op = "approve" /\ pc'[w] = "done" /\ cr \in Row
  BY <1>1, LastOwn DEF TypeInv, Staged, TypeOK
<1>3. CASE j.row.hash # j.base \/ HasAncestor(j.row)
  <2>1. cr' = [cr EXCEPT !.hash = j.base, !.values = values]
    BY <1>2, <1>3 DEF Anchor, Row
  <2> HIDE DEF values
  <2>2. cr'.hash = j.base /\ cr'.values = values
    BY <1>2, <2>1 DEF Row
  <2> QED BY <1>1, <1>2, <2>2 DEF values
<1>4. CASE ~(j.row.hash # j.base \/ HasAncestor(j.row))
  <2>1. cr' = cr
    BY <1>4 DEF Anchor
  <2> QED BY <1>1, <1>2, <1>4, <2>1
<1> QED BY <1>3, <1>4

LEMMA BaseIsNow ==
    ASSUME NEW p, NEW n \in Nodes
    PROVE  BaseValues(p)[n] \in {None, val[n]}
  BY DEF BaseValues

\* What the others see of the row.
LEMMA StepRowAside ==
    ASSUME AmendsAlone, TypeInv, NEW w \in Requests, NEW x \in Requests \ {w}, Step(w), Bound(x), Bound(w)
    PROVE  RowAside(x)
<1> SUFFICES ASSUME x \in InFlight PROVE RowAside(x)
  BY DEF RowAside
<1>1. pc[x] \notin {"idle", "done"} /\ job[x].op \in Ops
  BY DEF InFlight, TypeInv, Staged
<1>2. job[x].op # "amend"
  <2>1. CASE Load(w)
    <3>1. InFlight # {} => \A y \in InFlight : job[y].op \notin Alone
      BY <2>1, LoadOwn
    <3> QED BY <1>1, <3>1 DEF AmendsAlone
  <2>2. CASE ~Load(w)
    BY <2>2, FlightStep DEF Bound
  <2> QED BY <2>1, <2>2
<1>3. ~Store(w)
  <2>1. Store(w) => w \in InFlight /\ job[w].op = "amend"
    BY StoreOwn DEF InFlight
  <2> QED BY <2>1 DEF Bound
<1>4. \A n \in Nodes : cr'.values[n] \in {cr.values[n], None, val[n]}
  <2>1. CASE Anchor(w)
    BY <2>1, AnchorOwn, BaseIsNow
  <2>2. CASE ~Anchor(w)
    <3>1. cr'.values = cr.values
      <4>1. cr \in Row
        BY DEF TypeInv, TypeOK
      <4>2. CASE Load(w) \/ State(w) \/ Record(w) \/ Save(w) \/ Capture(w)
        BY <4>1, <4>2 DEF Load, State, Record, Save, Capture, Refuse, Row
      <4>3. CASE Plan(w) \/ Targets(w) \/ Apply(w) \/ Rebase(w) \/ Restamp(w)
        BY <4>1, <4>3 DEF Plan, Targets, Apply, Rebase, Restamp, Refuse, Row
      <4> QED BY <1>3, <2>2, <4>2, <4>3 DEF Step
    <3> QED BY <3>1
  <2> QED BY <2>1, <2>2
<1> QED BY <1>2, <1>3, <1>4, RowKept DEF RowAside

\* The row and the approvals while neither is written.
LEMMA RowDrift ==
    ASSUME TypeInv, TypeInv', RowInv, Drift, cr'.payload = cr.payload, cr'.scope = cr.scope,
           cr'.hash = cr.hash, cr'.values = cr.values
    PROVE  RowInv'
<1>1. /\ cr.hash \in Versions /\ Upserted(cr.payload) \subseteq Nodes /\ Past(cr.hash)
      /\ ver \in Versions /\ ver' \in Versions
  BY DeclaredType DEF TypeInv, TypeOK, Row, RowInv
<1>2. \A n \in Nodes : n \in reused' \/ cr.hash[n] <= ver'[n]
  BY <1>1, PastStays
<1>3. ASSUME NEW n \in Nodes, cr.values[n] # None PROVE n \in reused' \/ ver'[n] > 0
  BY <1>1, <1>3 DEF RowInv, Drift, Still, Moves, Versions
<1>4. ASSUME NEW n \in Upserted(cr.payload), n \notin unwatched', n \notin reused', ver'[n] = cr.hash[n]
      PROVE  SettledNext(n)
  <2>1. n \in Nodes /\ n \notin Exempt
    BY <1>1, <1>4 DEF Drift, Exempt
  <2>2. Still(n)
    BY <1>1, <1>4, <2>1, PastStays
  <2>3. Settled(n)
    BY <1>4, <2>1, <2>2 DEF RowInv, Still
  <2> QED BY <2>1, <2>2, <2>3, SettledStays DEF Drift, Still
<1> QED BY <1>2, <1>3, <1>4 DEF RowInv, Past, Settled, SettledNext, Exempt

LEMMA VoteDrift ==
    ASSUME TypeInv, TypeInv', VotesInv, Drift, cr'.payload = cr.payload, cr'.revision = cr.revision,
           NEW u \in Users
    PROVE  /\ \A n \in Nodes : n \in reused' \/ appr[u].hash[n] <= ver'[n]
           /\ appr[u].revision <= cr'.revision /\ AttestsNext(appr[u], u)
<1>1. /\ appr[u] \in Decision /\ appr[u].hash \in Versions
      /\ Past(appr[u].hash) /\ appr[u].revision <= cr.revision /\ Attests(appr[u], u)
  BY DEF TypeInv, TypeOK, Decision, VotesInv
<1> QED BY <1>1, PastStays, AttestsStays

LEMMA VotesDrift ==
    ASSUME TypeInv, TypeInv', VotesInv, Drift, cr'.payload = cr.payload, cr'.revision = cr.revision, appr' = appr
    PROVE  VotesInv'
  BY VoteDrift DEF VotesInv, Past, Attests, AttestsNext, Exempt

LEMMA StateFacts ==
    ASSUME TypeInv, TypeInv', RowInv, NEW w \in Requests, Facts(w), State(w), pc'[w] # "done"
    PROVE  Facts(w)'
<1> DEFINE j == job[w]
           v == VersionsOf(job[w].row.scope)
<1>1. /\ Permitted(w, v) /\ pc[w] = "state" /\ pc'[w] = First[j.op]
      /\ j.op \in {"approve", "reject", "close", "amend", "merge"}
      /\ job'[w].op = j.op /\ job'[w].who = j.who /\ job'[w].row = j.row
      /\ job'[w].votes = j.votes /\ job'[w].base = v
      /\ j.op = "approve" => job'[w].seen = val
      /\ job'[w].applied = j.applied
      /\ ver' = ver /\ val' = val /\ cr' = cr /\ foreign' = foreign /\ reused' = reused
      /\ unwatched' = unwatched /\ endorsed' = endorsed
  BY StateOwn DEF graph, ghost
<1>2. w \in InFlight /\ Bound(w)
  BY <1>1 DEF InFlight, Facts
<1>3. /\ \A n \in Nodes : v[n] = IF n \in j.row.scope THEN ver[n] ELSE 0
      /\ \A n \in Nodes : v[n] <= ver[n]
  <2>1. \A n \in Nodes : v[n] = IF n \in j.row.scope THEN ver[n] ELSE 0
    BY DEF VersionsOf
  <2>2. \A n \in Nodes : ver[n] \in Nat
    BY DEF TypeInv, TypeOK, Versions
  <2> HIDE DEF v
  <2> QED BY <2>1, <2>2
<1> HIDE DEF v
<1>4. Bound(w)' /\ Fresh(w)'
  <2>1. Fresh(w)'
    BY FreshOwn DEF Facts, Step
  <2>2. InFlight' = InFlight
    <3>1. \A x \in Requests \ {w} : x \in InFlight' <=> x \in InFlight
      BY FlightStep DEF Step
    <3>2. w \in InFlight'
      BY <1>1 DEF InFlight, First
    <3> QED BY <1>2, <3>1, <3>2 DEF InFlight
  <2>3. pc'[w] # "store"
    BY <1>1 DEF First
  <2> QED BY <1>1, <1>2, <2>1, <2>2, <2>3 DEF Bound
<1>5. CASE j.op \in {"close", "amend"}
  <2>1. pc'[w] \in {"save", "capture"}
    BY <1>1, <1>5 DEF First
  <2> QED BY <1>4, <2>1 DEF Facts
<1>6. CASE j.op \in {"approve", "reject"}
  <2>1. pc'[w] = "record"
    BY <1>1, <1>6 DEF First
  <2>2. Declared(cr.payload) \subseteq Nodes /\ j.who \in Users
    BY DeclaredType DEF TypeInv, TypeOK, Row, Job
  <2>3. j.op = "approve" => j.who \in (Users \ {Author}) \cup Bypassers
    BY <1>1, <2>2 DEF Permitted
  <2>4. DecidedFact(w)'
    BY <1>1, <1>3, <2>2, <2>3 DEF DecidedFact, Past, Exempt
  <2> QED BY <1>4, <2>1, <2>4 DEF Facts
<1>7. CASE j.op = "merge"
  <2> DEFINE p == cr.payload
  <2>1. pc'[w] = "plan" /\ Mergeable(j.row, j.votes, v)
    BY <1>1, <1>7 DEF First, Permitted
  <2>2. /\ j.row.payload = p /\ j.row.scope = cr.scope /\ j.row.revision = cr.revision
        /\ j.applied = {} /\ foreign[w] = {} /\ LoadedFact(w)
    BY <1>1, <1>2, <1>7 DEF Bound, Fresh, Facts
  <2>3. Declared(p) \subseteq Nodes /\ Upserted(p) \subseteq Declared(p) /\ Declared(p) \subseteq cr.scope
    BY DeclaredType DEF TypeInv, TypeOK, Row, RowInv
  <2> HIDE DEF p
  <2>4. \A n \in Declared(p) : v[n] = ver[n] /\ v[n] = j.row.hash[n]
    BY <1>3, <2>1, <2>2, <2>3 DEF Mergeable
  <2>5. ASSUME NEW n \in Declared(p) \ Exempt
        PROVE  Known(endorsed, p, n, val[n])
    <3> DEFINE S == {u \in Users : Counts(j.votes[u], j.row, v)}
    <3>1. Cardinality(S) >= Required
      BY <2>1 DEF Mergeable, Approved
    <3>2. CASE Wants(p, n, val[n])
      BY <3>2 DEF Known
    <3>3. CASE ~Wants(p, n, val[n])
      <4>1. ASSUME NEW u \in S PROVE u \in Saw(endorsed, p, n, val[n])
        <5>1. u \in Users /\ Counts(j.votes[u], j.row, v)
          BY <4>1
        <5>2. Attests(j.votes[u], u)
          BY <2>2, <5>1 DEF LoadedFact
        <5>3. /\ u \in (Users \ {Author}) \cup Bypassers
              /\ \E e \in endorsed :
                    /\ e[1] = u /\ e[2] = p
                    /\ \A m \in Declared(p) \ Exempt :
                          ver[m] = v[m] => e[3][m] = val[m] \/ Wants(p, m, val[m])
          BY <2>2, <5>1, <5>2 DEF Attests, Counts, p
        <5>4. ver[n] = v[n]
          BY <2>4, <2>5
        <5> QED BY <2>5, <3>3, <5>3, <5>4 DEF Saw
      <4> HIDE DEF S
      <4>2. S \subseteq Saw(endorsed, p, n, val[n])
        BY <4>1
      <4>3. S \in SUBSET Users /\ Saw(endorsed, p, n, val[n]) \in SUBSET Users
        BY ChangeRequestAssumption DEF S, Saw
      <4>4. Cardinality(Saw(endorsed, p, n, val[n])) >= Required
        BY <3>1, <4>2, <4>3, MoreVotes
      <4> QED BY <4>4 DEF Known
    <3> QED BY <3>2, <3>3
  <2>6. MergingFact(w)'
    <3>1. \A n \in Upserted(p) \ Exempt : Settled(n)
      BY <2>2, <2>3, <2>4 DEF LoadedFact, p
    <3>2. \A n \in Upserted(p) \ Exempt : Settled(n)'
      BY <1>1, <3>1 DEF Settled
    <3> QED BY <1>1, <1>3, <2>1, <2>2, <2>3, <2>4, <3>2 DEF MergingFact, Past, Exempt, p
  <2>7. PlanFact(w)'
    <3>1. ASSUME NEW n \in Upserted(p) \ Exempt
          PROVE  j.row.values[n] = None \/ Known(endorsed, p, n, j.row.values[n])
      <4>1. j.row.values[n] \in {None, val[n]} \/ Known(endorsed, p, n, j.row.values[n])
        BY <2>2, <2>3, <2>4, <3>1 DEF LoadedFact, p
      <4> QED BY <2>3, <2>5, <3>1, <4>1
    <3> QED BY <1>1, <2>2, <2>3, <2>5, <3>1 DEF PlanFact, Exempt, p
  <2> QED BY <1>4, <2>1, <2>6, <2>7 DEF Facts
<1> QED BY <1>1, <1>5, <1>6, <1>7

LEMMA DoneFacts ==
    ASSUME TypeInv, NEW w \in Requests, Facts(w), Step(w), pc'[w] = "done"
    PROVE  Facts(w)'
<1>1. Fresh(w)'
  BY FreshOwn DEF Facts
<1> QED BY <1>1 DEF Facts, Bound, InFlight

LEMMA BoundKept ==
    ASSUME TypeInv, NEW w \in Requests, Step(w), ~Load(w), ~Store(w), Bound(w),
           pc'[w] \notin {"idle", "done", "store"},
           job'[w].row = job[w].row, job'[w].op = job[w].op
    PROVE  Bound(w)'
<1>1. InFlight' = InFlight /\ w \in InFlight
  <2>1. w \in InFlight /\ \A x \in Requests \ {w} : x \in InFlight' <=> x \in InFlight
    BY FlightStep
  <2>2. w \in InFlight'
    BY DEF InFlight
  <2>3. InFlight \subseteq Requests /\ InFlight' \subseteq Requests
    BY DEF InFlight
  <2> QED BY <2>1, <2>2, <2>3
<1> QED BY <1>1, RowKept DEF Bound

LEMMA LoadFacts ==
    ASSUME AmendsAlone, TypeInv, RowInv, VotesInv, NEW w \in Requests, Facts(w), Load(w)
    PROVE  Facts(w)'
<1>1. /\ pc'[w] = "state"
      /\ ver' = ver /\ val' = val /\ cr' = cr /\ reused' = reused
      /\ unwatched' = unwatched /\ endorsed' = endorsed
      /\ InFlight = {} \/ job'[w].op \notin Alone
      /\ job'[w].op \in Ops /\ job'[w].row = [cr EXCEPT !.payload = job'[w].row.payload]
      /\ job'[w].op # "amend" => job'[w].row.payload = cr.payload
      /\ job'[w].votes = appr
  BY LoadOwn DEF graph, ghost
<1>2. /\ job'[w].row.revision = cr.revision /\ job'[w].row.scope = cr.scope
      /\ job'[w].row.hash = cr.hash /\ job'[w].row.values = cr.values
  BY <1>1 DEF TypeInv, TypeOK, Row
<1>3. Fresh(w)'
  BY FreshOwn DEF Facts, Step
<1>4. Bound(w)'
  <2>1. job'[w].op = "amend" => InFlight' = {w}
    <3>1. job'[w].op = "amend" => InFlight = {}
      BY <1>1 DEF AmendsAlone
    <3>2. w \in InFlight' /\ InFlight' \subseteq Requests
      BY <1>1 DEF InFlight
    <3>3. \A x \in Requests \ {w} : x \in InFlight' <=> x \in InFlight
      BY FlightStep DEF Step
    <3> QED BY <3>1, <3>2, <3>3
  <2> QED BY <1>1, <1>2, <2>1 DEF Bound
<1>5. LoadedFact(w)'
  <2>1. \A n \in Nodes : n \in reused \/ cr.hash[n] <= ver[n]
    BY DEF RowInv, Past
  <2>2. ASSUME NEW u \in Users
        PROVE  (\A n \in Nodes : n \in reused \/ appr[u].hash[n] <= ver[n]) /\ AttestsNext(appr[u], u)
    BY <1>1 DEF VotesInv, Past, Attests, AttestsNext, Exempt
  <2>3. ASSUME NEW n \in Upserted(cr.payload), n \notin unwatched, n \notin reused, ver[n] = cr.hash[n]
        PROVE  /\ SettledNext(n)
               /\ cr.values[n] \in {None, val[n]} \/ Known(endorsed, cr.payload, n, cr.values[n])
    BY <1>1, <2>3 DEF RowInv, Settled, SettledNext, Exempt
  <2> QED BY <1>1, <1>2, <2>1, <2>2, <2>3
          DEF LoadedFact, Past, Attests, AttestsNext, Settled, SettledNext, Exempt
<1> QED BY <1>1, <1>3, <1>4, <1>5 DEF Facts

LEMMA RecordFacts ==
    ASSUME TypeInv, NEW w \in Requests, Facts(w), Record(w)
    PROVE  Facts(w)'
<1>1. /\ pc[w] = "record" /\ job' = job /\ pc'[w] \in {"anchor", "save"}
      /\ ver' = ver /\ reused' = reused
  BY RecordOwn DEF Record, graph
<1>2. Fresh(w)'
  BY FreshOwn DEF Facts, Step
<1>3. Bound(w)'
  <2>1. Step(w) /\ ~Load(w) /\ ~Store(w)
    BY <1>1 DEF Step, Load, Store
  <2> QED BY <1>1, <2>1, BoundKept DEF Facts
<1>4. DecidedFact(w)'
  BY <1>1 DEF Facts, DecidedFact, Past
<1> QED BY <1>1, <1>2, <1>3, <1>4 DEF Facts

LEMMA CaptureFacts ==
    ASSUME TypeInv, NEW w \in Requests, Facts(w), Capture(w), pc'[w] # "done"
    PROVE  Facts(w)'
<1> DEFINE p == job[w].row.payload
           v == VersionsOf(ScopeOf(p))
<1>1. /\ Valid(p) /\ pc[w] = "capture" /\ pc'[w] = "store"
      /\ job'[w].op = job[w].op /\ job'[w].base = v /\ job'[w].row.payload = p
      /\ job'[w].row.revision = job[w].row.revision /\ job'[w].row.scope = ScopeOf(p)
      /\ ver' = ver /\ reused' = reused /\ cr' = cr
  BY CaptureOwn DEF graph, ghost
<1>2. Fresh(w)'
  BY FreshOwn DEF Facts, Step
<1>3. job[w].op = "amend" /\ w \in InFlight /\ InFlight = {w} /\ job[w].row.revision = cr.revision
  BY <1>1 DEF TypeInv, Staged, InFlight, Facts, Bound
<1>4. InFlight' = {w}
  <2>1. \A x \in Requests \ {w} : x \in InFlight' <=> x \in InFlight
    BY FlightStep DEF Step
  <2>2. w \in InFlight' /\ InFlight' \subseteq Requests
    BY <1>1 DEF InFlight
  <2> QED BY <1>3, <2>1, <2>2
<1>5. \A n \in Nodes : v[n] <= ver[n]
  <2>1. \A n \in Nodes : ver[n] \in Nat /\ v[n] \in {0, ver[n]}
    BY DEF TypeInv, TypeOK, Versions, VersionsOf
  <2> HIDE DEF v
  <2> QED BY <2>1
<1> HIDE DEF v
<1>6. OneEach(p) /\ Declared(p) \subseteq ScopeOf(p)
  BY <1>1 DEF Valid, OneEach, ScopeOf
<1>7. Bound(w)'
  BY <1>1, <1>3, <1>4, <1>5, <1>6 DEF Bound, Past
<1> QED BY <1>1, <1>2, <1>7 DEF Facts

LEMMA PlanFacts ==
    ASSUME TypeInv, NEW w \in Requests, Facts(w), Plan(w), pc'[w] # "done"
    PROVE  Facts(w)'
<1> DEFINE row == job[w].row
           p == cr.payload
<1>1. /\ ~(HasAncestor(row) /\ \E i \in DOMAIN row.payload : Conflicts(row, row.payload[i]))
      /\ pc[w] = "plan" /\ pc'[w] = "targets" /\ job[w].op = "merge"
      /\ job'[w].op = job[w].op /\ job'[w].row = row /\ job'[w].base = job[w].base
      /\ job'[w].applied = job[w].applied
      /\ job'[w].todo = {i \in DOMAIN row.payload : HasAncestor(row) => ~Drops(row, row.payload[i])}
      /\ ver' = ver /\ val' = val /\ cr' = cr /\ foreign' = foreign /\ reused' = reused
      /\ unwatched' = unwatched /\ endorsed' = endorsed
  BY PlanOwn DEF graph, ghost
<1>2. Fresh(w)'
  BY FreshOwn DEF Facts, Step
<1>3. Bound(w)'
  <2>1. Step(w) /\ ~Load(w) /\ ~Store(w)
    BY <1>1 DEF Step, Load, Store
  <2> QED BY <1>1, <2>1, BoundKept DEF Facts
<1>4. row.payload = p /\ MergingFact(w) /\ PlanFact(w)
  BY <1>1 DEF Facts, Bound, InFlight, TypeInv, TypeOK
<1>5. MergingFact(w)'
  BY <1>1, <1>4 DEF MergingFact, Past, Settled, Exempt
<1>6. /\ \A i \in DOMAIN p : p[i].node \in Nodes /\ p[i].node \in Declared(p) /\ p[i].op \in {"upsert", "delete"}
      /\ \A i \in DOMAIN p : p[i].op = "upsert" => p[i].node \in Upserted(p)
  BY DeclaredType DEF TypeInv, TypeOK, Row, Item
<1>7. ASSUME NEW i \in DOMAIN p, i \in job'[w].todo, p[i].node \notin Exempt
      PROVE  Known(endorsed, p, p[i].node, val[p[i].node])
  <2> DEFINE n == p[i].node
  <2>1. CASE n \notin foreign[w]
    BY <1>4, <1>6, <1>7, <2>1 DEF PlanFact
  <2>2. CASE n \in foreign[w]
    <3>1. row.values[n] # None
      BY <1>4, <1>7, <2>2 DEF PlanFact
    <3>2. HasAncestor(row)
      BY <1>6, <3>1 DEF HasAncestor, Nothing
    <3>3. p[i].op = "upsert" /\ ~Satisfied(p[i])
      BY <1>1, <1>4, <1>6, <1>7, <3>1, <3>2 DEF Drops
    <3>4. val[n] = row.values[n]
      BY <1>1, <1>4, <1>7, <3>1, <3>2, <3>3 DEF Conflicts
    <3> QED BY <1>4, <1>6, <1>7, <3>1, <3>3, <3>4 DEF PlanFact
  <2> QED BY <2>1, <2>2
<1>8. TodoFact(w)'
  <2>1. job'[w].todo \subseteq DOMAIN p /\ job'[w].applied = {}
    BY <1>1, <1>4 DEF PlanFact
  <2> QED BY <1>1, <1>7, <2>1 DEF TodoFact, Exempt
<1> QED BY <1>1, <1>2, <1>3, <1>5, <1>8 DEF Facts

LEMMA TargetsFacts ==
    ASSUME TypeInv, NEW w \in Requests, Facts(w), Targets(w)
    PROVE  Facts(w)'
<1>1. /\ pc[w] = "targets" /\ pc'[w] \in {"save", "apply"} /\ job[w].op = "merge"
      /\ job'[w].op = job[w].op /\ job'[w].row = job[w].row /\ job'[w].base = job[w].base
      /\ job'[w].applied = job[w].applied /\ job'[w].todo = job[w].todo /\ job'[w].target = ver
      /\ ver' = ver /\ val' = val /\ cr' = cr /\ foreign' = foreign /\ reused' = reused
      /\ unwatched' = unwatched /\ endorsed' = endorsed
  BY TargetsOwn DEF graph, ghost
<1>2. Fresh(w)'
  BY FreshOwn DEF Facts, Step
<1>3. Bound(w)'
  <2>1. Step(w) /\ ~Load(w) /\ ~Store(w)
    BY <1>1 DEF Step, Load, Store
  <2> QED BY <1>1, <2>1, BoundKept DEF Facts
<1>4. MergingFact(w) /\ TodoFact(w) /\ ver \in Versions
  BY <1>1 DEF Facts, TypeInv, TypeOK
<1>5. MergingFact(w)'
  BY <1>1, <1>4 DEF MergingFact, Past, Settled, Exempt
<1>6. TodoFact(w)'
  <2>1. \A n \in Nodes : ver[n] <= ver[n]
    BY <1>4 DEF Versions
  <2> QED BY <1>1, <1>4, <2>1 DEF TodoFact, Past, Exempt
<1> QED BY <1>1, <1>2, <1>3, <1>5, <1>6 DEF Facts

\* What the merge writes itself.
LEMMA ApplyFacts ==
    ASSUME TypeInv, TypeInv', RowInv, NEW w \in Requests, Facts(w), Apply(w)
    PROVE  Facts(w)'
<1>1. PICK i \in job[w].todo, outcome \in {"written", "refused", "lost"} : ApplyOf(w, i, outcome)
  BY ApplyOwn
<1> DEFINE j == job[w]
           p == cr.payload
           item == p[i]
           n == item.node
<1>2. /\ pc[w] = "apply" /\ j.op = "merge" /\ pc'[w] \in {"rebase", "save", "apply"}
      /\ job'[w].op = "merge" /\ job'[w].row = j.row /\ job'[w].base = j.base /\ job'[w].target = j.target
      /\ cr' = cr /\ endorsed' = endorsed /\ foreign'[w] = foreign[w]
      /\ pc'[w] # "rebase" => outcome = "written"
      /\ outcome = "written" => /\ job'[w].applied = j.applied \cup {j.row.payload[i].node}
                                /\ job'[w].todo = j.todo \ {i}
      /\ outcome # "written" => job'[w].applied = j.applied /\ pc'[w] = "rebase"
  BY <1>1 DEF ApplyOf
<1>3. j.row.payload = p /\ MergingFact(w) /\ TodoFact(w) /\ Bound(w)
  BY <1>2 DEF Facts, Bound, InFlight, TypeInv, TypeOK
<1>4. /\ i \in DOMAIN p /\ item \in Item /\ n \in Nodes /\ OneEach(p)
      /\ Upserted(p) \subseteq Declared(p) /\ Declared(p) \subseteq Nodes /\ cr.scope \subseteq Nodes
      /\ \A k \in DOMAIN p : p[k].node \in Nodes
  <2>1. p \in Proposals /\ cr.scope \subseteq Nodes
    BY DEF TypeInv, TypeOK, Row
  <2> QED BY <1>1, <1>3, <2>1, DeclaredType DEF ApplyOf, Item, RowInv
<1>5. Drift /\ reused \subseteq reused' /\ unwatched \subseteq unwatched'
  BY StepDrift DEF Step, Drift
<1>6. Fresh(w)'
  BY FreshOwn DEF Facts, Step
<1>7. Bound(w)'
  <2>1. Step(w) /\ ~Load(w) /\ ~Store(w)
    BY <1>2 DEF Step, Load, Store
  <2> QED BY <1>2, <1>3, <2>1, BoundKept
\* The node of the item: what was there was known, what is there is wanted.
<1>8. /\ \A m \in Nodes \ {n} : Still(m)
      /\ \/ Still(n)
         \/ /\ outcome # "refused" /\ Fits(w, n)
            /\ n \in reused' \/ (item.op = "upsert" /\ val'[n] = item.val)
  <2>1. CASE outcome = "refused"
    BY <1>1, <2>1 DEF ApplyOf, graph, Still
  <2>2. CASE outcome # "refused"
    BY <1>1, <1>3, <2>2 DEF ApplyOf, ApplyEffect
  <2> QED BY <2>1, <2>2
<1>9. ASSUME n \notin reused', ~Still(n) PROVE Wants(p, n, val'[n])
  BY <1>4, <1>8, <1>9 DEF Wants
<1>10. ASSUME n \notin Exempt, ~Still(n) PROVE Known(endorsed, p, n, val[n])
  BY <1>2, <1>3, <1>8, <1>10 DEF TodoFact
<1>11. MergingFact(w)'
  <2>1. j.base \in Versions /\ Past(j.base)
    BY <1>3 DEF TypeInv, TypeOK, Job, MergingFact
  <2>2. \A m \in Nodes : m \in reused' \/ j.base[m] <= ver'[m]
    BY <1>5, <2>1, PastStays
  <2>3. ASSUME NEW m \in foreign[w] \cap cr.scope, m \notin reused' PROVE ver'[m] > j.base[m]
    <3>1. m \in Nodes /\ ver[m] > j.base[m]
      BY <1>3, <1>4, <1>5, <2>3 DEF MergingFact
    <3> QED BY <1>5, <2>1, <2>3, <3>1, PastStays
  <2>4. ASSUME NEW m \in Upserted(p), m \notin unwatched', m \notin reused', m \notin foreign[w]
        PROVE  SettledNext(m)
    <3>1. m \in Nodes /\ m \notin Exempt /\ Settled(m)
      BY <1>3, <1>4, <1>5, <2>4 DEF MergingFact, Exempt
    <3>2. CASE Still(m)
      BY <1>2, <3>1, <3>2, SettledStays DEF Still
    <3>3. CASE ~Still(m)
      <4>1. m = n
        BY <1>8, <3>1, <3>3
      <4>2. Known(endorsed, p, m, val[m])
        BY <1>10, <3>1, <3>3, <4>1
      <4> QED BY <1>2, <3>1, <4>2 DEF Settled, SettledNext
    <3> QED BY <3>2, <3>3
  <2>5. ASSUME pc'[w] # "rebase",
               NEW m \in Declared(p), m \notin reused', m \notin foreign[w], m \notin job'[w].applied
        PROVE  ver'[m] = j.base[m]
    <3>1. m \in Nodes \ {n} /\ m \notin j.applied /\ m \notin reused
      BY <1>2, <1>3, <1>4, <1>5, <2>5
    <3> QED BY <1>2, <1>3, <1>8, <2>5, <3>1 DEF MergingFact, Still
  <2>6. ASSUME NEW m \in Declared(p), m \in job'[w].applied, m \notin reused', m \notin foreign[w]
        PROVE  ver'[m] = j.base[m] \/ Wants(p, m, val'[m])
    <3>1. m \in Nodes /\ m \notin reused
      BY <1>4, <1>5, <2>6
    <3>2. CASE ~Still(m)
      BY <1>8, <1>9, <2>6, <3>1, <3>2
    <3>3. CASE Still(m)
      <4>1. ver[m] = j.base[m] \/ Wants(p, m, val[m])
        BY <1>2, <1>3, <2>6, <3>1 DEF MergingFact
      <4> QED BY <3>3, <4>1 DEF Still
    <3> QED BY <3>2, <3>3
  <2> QED BY <1>2, <2>2, <2>3, <2>4, <2>5, <2>6 DEF MergingFact, Past, Settled, SettledNext, Exempt
<1>12. CASE pc'[w] # "apply"
  BY <1>2, <1>6, <1>7, <1>11, <1>12 DEF Facts
<1>13. CASE pc'[w] = "apply"
  <2>1. outcome = "written" /\ job'[w].todo = j.todo \ {i}
    BY <1>2, <1>13
  <2>2. \A m \in Nodes : m \in reused' \/ j.target[m] <= ver'[m]
    <3>1. j.target \in Versions /\ Past(j.target)
      BY <1>2, <1>3 DEF TypeInv, TypeOK, Job, TodoFact
    <3> QED BY <1>5, <3>1, PastStays
  <2>3. ASSUME NEW k \in j.todo \ {i}, p[k].node \notin unwatched', p[k].node \notin reused',
               j.target[p[k].node] \in {0, ver'[p[k].node]}
        PROVE  Known(endorsed, p, p[k].node, val'[p[k].node])
    <3>1. k \in DOMAIN p /\ p[k].node \in Nodes \ {n} /\ p[k].node \notin Exempt
      BY <1>3, <1>4, <1>5, <2>3 DEF TodoFact, OneEach, Exempt
    <3>2. Still(p[k].node)
      BY <1>8, <3>1
    <3> QED BY <1>2, <1>3, <2>3, <3>1, <3>2 DEF TodoFact, Fits, Still
  <2>4. j.todo \subseteq DOMAIN p
    BY <1>3 DEF TodoFact
  <2>5. TodoFact(w)'
    BY <1>2, <1>13, <2>1, <2>2, <2>3, <2>4 DEF TodoFact, Past, Fits, Exempt
  <2> QED BY <1>2, <1>6, <1>7, <1>11, <1>13, <2>5 DEF Facts
<1> QED BY <1>12, <1>13

LEMMA RebaseFacts ==
    ASSUME TypeInv, RowInv, NEW w \in Requests, Facts(w), Rebase(w), pc'[w] # "done"
    PROVE  Facts(w)' /\ RowInv'
<1> DEFINE j == job[w]
           p == cr.payload
           after == VersionsOf(job[w].row.scope)
<1>1. /\ pc[w] = "rebase" /\ j.op = "merge" /\ pc'[w] = "restamp" /\ Moved(j.base, after) \subseteq j.applied
      /\ cr' = [cr EXCEPT !.hash = after]
      /\ unwatched' = unwatched \cup (foreign[w] \cap j.applied) /\ foreign' = foreign
      /\ ver' = ver /\ val' = val /\ endorsed' = endorsed /\ reused' = reused
      /\ job'[w].op = j.op /\ job'[w].row = j.row
      /\ job'[w].base = j.base /\ job'[w].after = after
  BY RebaseOwn DEF graph
<1>2. j.row.scope = cr.scope /\ MergingFact(w) /\ Bound(w)
  BY <1>1 DEF Facts, Bound, InFlight, TypeInv, TypeOK
<1>3. /\ Declared(p) \subseteq cr.scope /\ Declared(p) \subseteq Nodes /\ Upserted(p) \subseteq Declared(p)
      /\ OneEach(p)
  BY DeclaredType DEF TypeInv, TypeOK, Row, RowInv
<1>4. /\ \A n \in Declared(p) : after[n] = ver[n]
      /\ \A n \in Nodes : after[n] <= ver[n]
  <2>1. \A n \in Nodes : after[n] = IF n \in cr.scope THEN ver[n] ELSE 0
    BY <1>2 DEF VersionsOf
  <2>2. \A n \in Nodes : ver[n] \in Nat
    BY DEF TypeInv, TypeOK, Versions
  <2> HIDE DEF after
  <2> QED BY <1>3, <2>1, <2>2
<1>5. \A n \in Nodes : after[n] = j.base[n] \/ n \in j.applied
  BY <1>1 DEF Moved
<1> HIDE DEF after
<1>6. cr'.payload = p /\ cr'.scope = cr.scope /\ cr'.hash = after /\ cr'.values = cr.values
  BY <1>1 DEF TypeInv, TypeOK, Row
<1>7. \A n \in Declared(p) \ (reused \cup unwatched') : n \notin foreign[w]
  <2>1. ASSUME NEW n \in Declared(p) \ (reused \cup unwatched'), n \in foreign[w] PROVE FALSE
    <3>1. n \in Nodes /\ n \notin j.applied /\ ver[n] = j.base[n]
      BY <1>1, <1>3, <1>4, <1>5, <2>1
    <3>2. ver[n] > j.base[n] /\ ver[n] \in Nat
      BY <1>2, <1>3, <2>1, <3>1 DEF MergingFact, TypeInv, TypeOK, Versions
    <3> QED BY <3>1, <3>2
  <2> QED BY <2>1
<1>8. RowInv'
  <2>1. ASSUME NEW n \in Upserted(p), n \notin unwatched', n \notin reused PROVE Settled(n)
    BY <1>1, <1>2, <1>3, <1>7, <2>1 DEF MergingFact, Exempt
  <2>2. \A n \in Nodes : cr.values[n] # None => n \in reused \/ ver[n] > 0
    BY DEF RowInv
  <2>3. \A n \in Upserted(p) \ (unwatched' \cup reused) : Settled(n)'
    BY <1>1, <1>6, <2>1 DEF Settled
  <2> QED BY <1>1, <1>3, <1>4, <1>6, <2>2, <2>3 DEF RowInv, Past, Exempt
<1>9. RestampFact(w)'
  <2>1. ASSUME NEW n \in Declared(p), n \notin unwatched', n \notin reused
        PROVE  after[n] = j.base[n] \/ Wants(p, n, val[n])
    BY <1>2, <1>3, <1>4, <1>5, <1>7, <2>1 DEF MergingFact
  <2> QED BY <1>1, <1>4, <1>6, <2>1 DEF RestampFact, Past, Exempt
<1>10. Bound(w)'
  <2>1. Step(w) /\ ~Load(w) /\ ~Store(w)
    BY <1>1 DEF Step, Load, Store
  <2> QED BY <1>1, <1>2, <2>1, BoundKept
<1>11. Fresh(w)'
  BY FreshOwn DEF Facts, Step
<1> QED BY <1>1, <1>8, <1>9, <1>10, <1>11 DEF Facts

LEMMA OwnFacts ==
    ASSUME AmendsAlone, TypeInv, TypeInv', RowInv, VotesInv, NEW w \in Requests, Facts(w), Step(w)
    PROVE  Facts(w)'
<1>1. CASE pc'[w] = "done"
  BY <1>1, DoneFacts
<1>2. CASE pc'[w] # "done"
  <2>1. ~(Anchor(w) \/ Save(w) \/ Store(w) \/ Restamp(w))
    BY <1>2, LastOwn
  <2> QED BY <1>2, <2>1, LoadFacts, StateFacts, RecordFacts, CaptureFacts, PlanFacts, TargetsFacts,
             ApplyFacts, RebaseFacts DEF Step
<1> QED BY <1>1, <1>2

\* A new ancestor, or one that no check of a merge looks at.
LEMMA AnchorRow ==
    ASSUME TypeInv, TypeInv', GraphInv, RowInv, NEW w \in Requests, Facts(w), Anchor(w)
    PROVE  RowInv'
<1> DEFINE j == job[w]
           p == cr.payload
<1>1. /\ pc[w] = "anchor"
      /\ ver' = ver /\ val' = val /\ endorsed' = endorsed /\ reused' = reused
      /\ unwatched' = IF HasAncestor(j.row) THEN unwatched
                      ELSE unwatched \cup {n \in Nodes : cr.values[n] # None}
      /\ cr'.values = IF HasAncestor(j.row) THEN BaseValues(j.row.payload) ELSE cr.values
      /\ cr' = cr \/ cr'.hash = j.base
  BY AnchorOwn DEF graph
<1>2. cr'.payload = p /\ cr'.scope = cr.scope /\ Drift
  <2>1. Step(w) /\ ~Store(w)
    BY <1>1 DEF Step, Store
  <2> QED BY <2>1, RowKept, StepDrift
<1>3. CASE cr' = cr
  BY <1>2, <1>3, RowDrift
<1>4. CASE cr'.hash = j.base
  <2>1. \A n \in Nodes : n \in reused \/ j.base[n] <= ver[n]
    BY <1>1 DEF Facts, DecidedFact, Past
  <2>2. Upserted(p) \subseteq Nodes
    BY DeclaredType DEF TypeInv, TypeOK, Row
  <2>3. ASSUME NEW n \in Nodes, cr'.values[n] # None PROVE n \in reused \/ ver[n] > 0
    <3>1. cr'.values[n] = cr.values[n] \/ cr'.values[n] = val[n]
      BY <1>1, <2>3, BaseIsNow
    <3>2. ver[n] \in Nat
      BY DEF TypeInv, TypeOK, Versions
    <3> QED BY <2>3, <3>1, <3>2 DEF RowInv, GraphInv
  <2>4. ASSUME NEW n \in Nodes, n \notin unwatched' PROVE cr'.values[n] \in {None, val[n]}
    BY <1>1, <2>4, BaseIsNow
  <2> QED BY <1>1, <1>2, <1>4, <2>1, <2>2, <2>3, <2>4 DEF RowInv, Past, Settled, Exempt
<1> QED BY <1>1, <1>3, <1>4

LEMMA StoreRow ==
    ASSUME TypeInv, GraphInv, RowInv, NEW w \in Requests, Facts(w), Store(w)
    PROVE  RowInv'
<1> DEFINE p == job[w].row.payload
<1>1. /\ pc[w] = "store"
      /\ cr'.payload = p /\ cr'.scope = job[w].row.scope /\ cr'.hash = job[w].base
      /\ cr'.values = IF BaseValues(p) # Nothing THEN BaseValues(p) ELSE cr.values
      /\ ver' = ver /\ val' = val /\ reused' = reused /\ unwatched' = unwatched /\ endorsed' = endorsed
  BY StoreOwn DEF graph
<1>2. OneEach(p) /\ Past(job[w].base) /\ Declared(p) \subseteq job[w].row.scope
  BY <1>1 DEF Facts, Bound, InFlight
<1>3. ASSUME NEW n \in Nodes, cr'.values[n] # None PROVE n \in reused \/ ver[n] > 0
  <2>1. cr'.values[n] = cr.values[n] \/ cr'.values[n] = val[n]
    BY <1>1, <1>3, BaseIsNow
  <2>2. ver[n] \in Nat
    BY DEF TypeInv, TypeOK, Versions
  <2> QED BY <1>3, <2>1, <2>2 DEF RowInv, GraphInv
<1>4. p \in Proposals /\ Upserted(p) \subseteq Nodes
  BY DeclaredType DEF TypeInv, TypeOK, Job, Row
<1>5. ASSUME NEW n \in Upserted(p), n \notin reused PROVE cr'.values[n] \in {None, val[n]}
  <2>1. CASE BaseValues(p) # Nothing
    BY <1>1, <1>4, <2>1, BaseIsNow
  <2>2. CASE BaseValues(p) = Nothing
    <3>1. val[n] = None
      <4>1. BaseValues(p)[n] = val[n]
        BY <1>4 DEF BaseValues, Upserted
      <4> QED BY <1>4, <2>2, <4>1 DEF Nothing
    <3>2. cr.values[n] # None => n \in reused \/ ver[n] > 0
      BY <1>4 DEF RowInv
    <3>3. ver[n] = 0
      BY <1>4, <3>1 DEF GraphInv
    <3> QED BY <1>1, <1>5, <2>2, <3>2, <3>3
  <2> QED BY <2>1, <2>2
<1>6. \A n \in Upserted(p) \ (unwatched \cup reused) : Settled(n)'
  BY <1>1, <1>5 DEF Settled
<1> QED BY <1>1, <1>2, <1>3, <1>6 DEF RowInv, Past, Exempt

LEMMA StepRow ==
    ASSUME TypeInv, TypeInv', GraphInv, RowInv, NEW w \in Requests, Facts(w), Step(w)
    PROVE  RowInv'
<1>1. CASE Anchor(w)
  BY <1>1, AnchorRow
<1>2. CASE Store(w)
  BY <1>2, StoreRow
<1>3. CASE Rebase(w) /\ pc'[w] # "done"
  BY <1>3, RebaseFacts
<1>4. CASE ~Anchor(w) /\ ~Store(w) /\ ~(Rebase(w) /\ pc'[w] # "done")
  <2>1. cr'.payload = cr.payload /\ cr'.scope = cr.scope /\ Drift
    BY <1>4, RowKept, StepDrift
  <2>2. cr'.hash = cr.hash /\ cr'.values = cr.values
    <3>1. cr \in Row
      BY DEF TypeInv, TypeOK
    <3>2. CASE Load(w) \/ State(w) \/ Record(w) \/ Save(w) \/ Capture(w)
      BY <3>1, <3>2 DEF Load, State, Record, Save, Capture, Refuse, Row
    <3>3. CASE Plan(w) \/ Targets(w) \/ Apply(w) \/ Restamp(w)
      BY <3>1, <3>3 DEF Plan, Targets, Apply, Restamp, Refuse, Row
    <3>4. CASE Rebase(w) /\ pc'[w] = "done"
      BY <3>4, RebaseOwn
    <3> QED BY <1>4, <3>2, <3>3, <3>4 DEF Step
  <2> QED BY <2>1, <2>2, RowDrift
<1> QED BY <1>1, <1>2, <1>3, <1>4

LEMMA RecordVotes ==
    ASSUME TypeInv, TypeInv', VotesInv, NEW w \in Requests, Facts(w), Record(w)
    PROVE  VotesInv'
<1> DEFINE j == job[w]
           decision == IF j.op = "approve" THEN "approved" ELSE "rejected"
<1>1. /\ pc[w] = "record" /\ j.op \in {"approve", "reject"}
      /\ ver' = ver /\ val' = val /\ cr' = cr /\ reused' = reused /\ unwatched' = unwatched
      /\ endorsed' = IF j.op = "approve" THEN endorsed \cup {<<j.who, j.row.payload, j.seen>>} ELSE endorsed
      /\ appr' = [appr EXCEPT ![j.who] = [decision |-> decision, hash |-> j.base, revision |-> j.row.revision]]
  BY RecordOwn DEF Record, graph
<1>2. /\ j.row.payload = cr.payload /\ j.row.revision = cr.revision /\ DecidedFact(w)
  BY <1>1 DEF Facts, Bound, InFlight
<1>3. /\ Drift /\ j.who \in Users /\ appr \in [Users -> Decision] /\ cr.revision \in Nat
      /\ Declared(cr.payload) \subseteq Nodes
  BY StepDrift, DeclaredType DEF Step, TypeInv, TypeOK, Job, Row
<1>4. \A u \in Users :
        /\ \A n \in Nodes : n \in reused' \/ appr[u].hash[n] <= ver'[n]
        /\ appr[u].revision <= cr'.revision /\ AttestsNext(appr[u], u)
  BY <1>1, <1>3, VoteDrift
<1>5. ASSUME NEW u \in Users, u # j.who
      PROVE  Past(appr[u].hash)' /\ (appr[u].revision <= cr.revision)' /\ Attests(appr[u], u)'
  <2>1. appr'[u] = appr[u]
    BY <1>1, <1>3, <1>5
  <2> QED BY <1>4, <2>1 DEF Past, Attests, AttestsNext, Exempt
<1>6. /\ appr'[j.who].decision = decision /\ appr'[j.who].hash = j.base
      /\ appr'[j.who].revision = cr.revision
  BY <1>1, <1>2, <1>3
<1>7. \A n \in Nodes : n \in reused \/ appr'[j.who].hash[n] <= ver[n]
  BY <1>2, <1>6 DEF DecidedFact, Past
<1>8. AttestsNext(appr'[j.who], j.who)
  <2>1. CASE j.op = "approve"
    <3> DEFINE e == <<j.who, j.row.payload, j.seen>>
    <3>1. e \in endorsed' /\ e[1] = j.who /\ e[2] = cr'.payload /\ e[3] = j.seen
      BY <1>1, <1>2, <2>1
    <3>2. /\ j.who \in (Users \ {Author}) \cup Bypassers
          /\ \A n \in Declared(cr.payload) \ Exempt : ver[n] = j.base[n] => j.seen[n] = val[n]
      BY <1>1, <1>2, <2>1 DEF DecidedFact
    <3> HIDE DEF e
    <3> QED BY <1>1, <1>6, <3>1, <3>2 DEF AttestsNext, Exempt
  <2>2. CASE j.op = "reject"
    BY <1>6, <2>2 DEF AttestsNext
  <2> QED BY <1>1, <2>1, <2>2
<1>9. ASSUME NEW u \in Users
      PROVE  /\ \A n \in Nodes : n \in reused' \/ appr'[u].hash[n] <= ver'[n]
             /\ appr'[u].revision <= cr'.revision /\ AttestsNext(appr'[u], u)
  <2>1. CASE u = j.who
    BY <1>1, <1>3, <1>6, <1>7, <1>8, <2>1
  <2>2. CASE u # j.who
    <3>1. appr'[u] = appr[u]
      BY <1>1, <1>3, <2>2
    <3> QED BY <1>4, <3>1
  <2> QED BY <2>1, <2>2
<1> QED BY <1>9 DEF VotesInv, Past, Attests, AttestsNext, Exempt

LEMMA RestampVotes ==
    ASSUME TypeInv, TypeInv', VotesInv, NEW w \in Requests, Facts(w), Restamp(w)
    PROVE  VotesInv'
<1> DEFINE j == job[w]
<1>1. /\ pc[w] = "restamp"
      /\ ver' = ver /\ val' = val /\ cr' = cr /\ reused' = reused /\ unwatched' = unwatched
      /\ endorsed' = endorsed
      /\ appr' = [u \in Users |-> IF Carried(appr[u], w) THEN [appr[u] EXCEPT !.hash = j.after] ELSE appr[u]]
  BY DEF Restamp, graph
<1>2. RestampFact(w) /\ appr \in [Users -> Decision]
  BY <1>1 DEF Facts, TypeInv, TypeOK
<1>3. ASSUME NEW u \in Users
      PROVE  /\ \A n \in Nodes : n \in reused \/ appr'[u].hash[n] <= ver[n]
             /\ appr'[u].revision <= cr.revision /\ AttestsNext(appr'[u], u)
  <2>1. /\ appr[u] \in Decision /\ Past(appr[u].hash) /\ appr[u].revision <= cr.revision
        /\ Attests(appr[u], u)
    BY <1>2 DEF VotesInv
  <2>2. CASE ~Carried(appr[u], w)
    <3>1. appr'[u] = appr[u]
      BY <1>1, <2>2
    <3>2. Drift
      BY StepDrift DEF Step
    <3>3. /\ \A n \in Nodes : n \in reused' \/ appr[u].hash[n] <= ver'[n]
          /\ appr[u].revision <= cr'.revision /\ AttestsNext(appr[u], u)
      BY <1>1, <3>2, VoteDrift
    <3> QED BY <1>1, <3>1, <3>3
  <2>3. CASE Carried(appr[u], w)
    <3>1. /\ appr'[u].decision = appr[u].decision /\ appr'[u].revision = appr[u].revision
          /\ appr'[u].hash = j.after /\ appr[u].hash = j.base
      BY <1>1, <2>1, <2>3 DEF Carried, Decision
    <3>2. \A n \in Nodes : n \in reused \/ j.after[n] <= ver[n]
      BY <1>2 DEF RestampFact, Past
    <3>3. ASSUME appr[u].decision = "approved", appr[u].revision = cr.revision
          PROVE  AttestsNext(appr'[u], u)
      <4>1. PICK e \in endorsed :
              /\ e[1] = u /\ e[2] = cr.payload
              /\ \A n \in Declared(cr.payload) \ Exempt :
                    ver[n] = j.base[n] => e[3][n] = val[n] \/ Wants(cr.payload, n, val[n])
        BY <2>1, <3>1, <3>3 DEF Attests
      <4>2. ASSUME NEW n \in Declared(cr.payload) \ Exempt, ver[n] = j.after[n]
            PROVE  e[3][n] = val[n] \/ Wants(cr.payload, n, val[n])
        BY <1>2, <4>1, <4>2 DEF RestampFact
      <4>3. u \in (Users \ {Author}) \cup Bypassers
        BY <2>1, <3>3 DEF Attests
      <4> QED BY <1>1, <3>1, <4>1, <4>2, <4>3 DEF AttestsNext, Exempt
    <3>4. ~(appr[u].decision = "approved" /\ appr[u].revision = cr.revision) => AttestsNext(appr'[u], u)
      BY <1>1, <3>1 DEF AttestsNext
    <3> QED BY <2>1, <3>1, <3>2, <3>3, <3>4
  <2> QED BY <2>2, <2>3
<1> QED BY <1>1, <1>3 DEF VotesInv, Past, Attests, AttestsNext, Exempt

LEMMA StoreVotes ==
    ASSUME TypeInv, VotesInv, NEW w \in Requests, Facts(w), Store(w)
    PROVE  VotesInv'
<1>1. /\ cr'.revision = job[w].row.revision + 1 /\ pc[w] = "store"
      /\ ver' = ver /\ reused' = reused /\ appr' = appr
  BY StoreOwn DEF graph
<1>2. job[w].row.revision = cr.revision /\ cr.revision \in Nat
  BY <1>1 DEF Facts, Bound, InFlight, TypeInv, TypeOK, Row
<1>3. ASSUME NEW u \in Users
      PROVE  /\ \A n \in Nodes : n \in reused \/ appr[u].hash[n] <= ver[n]
             /\ appr[u].revision < cr'.revision
  <2>1. appr[u].revision \in Nat
    BY DEF TypeInv, TypeOK, Decision
  <2> QED BY <1>1, <1>2, <2>1 DEF VotesInv, Past
<1>4. \A u \in Users : appr[u].revision \in Nat /\ cr'.revision \in Nat
  BY <1>1, <1>2 DEF TypeInv, TypeOK, Decision
<1> QED BY <1>1, <1>3, <1>4 DEF VotesInv, Past, Attests

LEMMA StepVotes ==
    ASSUME TypeInv, TypeInv', VotesInv, NEW w \in Requests, Facts(w), Step(w)
    PROVE  VotesInv'
<1>1. CASE Record(w)
  BY <1>1, RecordVotes
<1>2. CASE Restamp(w)
  BY <1>2, RestampVotes
<1>3. CASE Store(w)
  BY <1>3, StoreVotes
<1>4. CASE ~Record(w) /\ ~Restamp(w) /\ ~Store(w)
  <2>1. appr' = appr
    BY <1>4 DEF Step, Load, State, Anchor, Save, Capture, Plan, Targets, Apply, Rebase, Refuse
  <2> QED BY <1>4, <2>1, RowKept, StepDrift, VotesDrift
<1> QED BY <1>1, <1>2, <1>3, <1>4

LEMMA ReviewStep ==
    ASSUME AmendsAlone, TypeInv, ReviewInv, [Next]_vars
    PROVE  ReviewInv'
<1>1. TypeInv'
  BY TypeStep
<1>2. CASE UNCHANGED vars
  <2>1. /\ ver' = ver /\ val' = val /\ cr' = cr /\ appr' = appr /\ pc' = pc /\ job' = job
        /\ endorsed' = endorsed /\ foreign' = foreign /\ unwatched' = unwatched /\ reused' = reused
    BY <1>2 DEF vars, graph, ghost
  <2>2. Drift
    BY <2>1 DEF Drift, Still
  <2>3. GraphInv' /\ RowInv' /\ VotesInv'
    BY <1>1, <2>1, <2>2, RowDrift, VotesDrift DEF ReviewInv, GraphInv
  <2>4. ASSUME NEW x \in Requests PROVE Facts(x)'
    <3>1. Aside(x)
      BY <2>1, QuietAside DEF Quiet, graph
    <3>2. InFlight' = InFlight
      BY <2>1 DEF InFlight
    <3>3. RowAside(x)
      BY <2>1, <2>4, <3>2 DEF RowAside, ReviewInv, Facts, Bound
    <3> QED BY <1>1, <3>1, <3>3, FactsAside DEF ReviewInv
  <2> QED BY <2>3, <2>4 DEF ReviewInv
<1>3. CASE OthersWrite
  <2>1. cr' = cr /\ appr' = appr /\ pc' = pc
    BY <1>3 DEF OthersWrite
  <2>2. GraphInv' /\ RowInv' /\ VotesInv'
    BY <1>1, <1>3, <2>1, OthersDrift, RowDrift, VotesDrift, StepGraph DEF ReviewInv, Next
  <2>3. ASSUME NEW x \in Requests PROVE Facts(x)'
    <3>1. Aside(x)
      BY <1>3, OthersAside
    <3>2. InFlight' = InFlight
      BY <2>1 DEF InFlight
    <3>3. RowAside(x)
      BY <2>1, <2>3, <3>2 DEF RowAside, ReviewInv, Facts, Bound
    <3> QED BY <1>1, <3>1, <3>3, FactsAside DEF ReviewInv
  <2> QED BY <2>2, <2>3 DEF ReviewInv
<1>4. ASSUME NEW w \in Requests, Step(w) PROVE ReviewInv'
  <2>1. GraphInv'
    BY <1>4, StepGraph DEF Step, Next, ReviewInv
  <2>2. RowInv' /\ VotesInv'
    BY <1>1, <1>4, StepRow, StepVotes DEF ReviewInv
  <2>3. Facts(w)'
    BY <1>1, <1>4, OwnFacts DEF ReviewInv
  <2>4. ASSUME NEW x \in Requests \ {w} PROVE Facts(x)'
    <3>1. RowAside(x)
      BY <1>4, StepRowAside DEF ReviewInv, Facts
    <3> QED BY <1>1, <1>4, <3>1, StepAside, FactsAside DEF ReviewInv
  <2> QED BY <2>1, <2>2, <2>3, <2>4 DEF ReviewInv
<1> QED BY <1>2, <1>3, <1>4, NextSteps

LEMMA InitReview ==
    ASSUME Init
    PROVE  ReviewInv
<1>1. PICK p \in Proposals : Valid(p) /\ cr = Opened(p)
  BY DEF Init
<1> DEFINE v == VersionsOf(ScopeOf(p))
<1>2. TypeInv /\ GraphInv
  BY InitType, InitApplied DEF AppliedInv
<1>3. /\ cr.payload = p /\ cr.scope = ScopeOf(p) /\ cr.hash = v /\ cr.values = BaseValues(p)
      /\ cr.revision = 1
  BY <1>1 DEF Opened
<1>4. \A n \in Nodes : v[n] <= ver[n] /\ 0 <= ver[n] /\ ver[n] \in Nat
  <2>1. \A n \in Nodes : ver[n] \in Nat /\ v[n] \in {0, ver[n]}
    BY <1>2 DEF TypeInv, TypeOK, Versions, VersionsOf
  <2> HIDE DEF v
  <2> QED BY <2>1
<1> HIDE DEF v
<1>5. RowInv
  <2>1. OneEach(p) /\ Declared(p) \subseteq ScopeOf(p)
    BY <1>1 DEF Valid, OneEach, ScopeOf
  <2>2. Upserted(p) \subseteq Nodes
    BY DeclaredType
  <2>3. \A n \in Nodes : cr.values[n] \in {None, val[n]}
    BY <1>3, BaseIsNow
  <2>4. \A n \in Nodes : cr.values[n] # None => ver[n] > 0
    BY <1>2, <1>4, <2>3 DEF GraphInv
  <2> QED BY <1>3, <1>4, <2>1, <2>2, <2>3, <2>4 DEF RowInv, Past, Settled
<1>6. VotesInv
  BY <1>3, <1>4 DEF Init, VotesInv, Undecided, Zero, Past, Attests
<1>7. \A w \in Requests : Facts(w)
  BY DEF Init, Facts, Bound, InFlight, Fresh, NoJob
<1> QED BY <1>2, <1>5, <1>6, <1>7 DEF ReviewInv

LEMMA AppliedIsReviewed ==
    ASSUME TypeInv, ReviewInv, Next, NEW w \in Requests, NEW n \in Nodes,
           pc[w] = "apply", job'[w].todo # job[w].todo, val'[n] # val[n], n \notin unwatched \cup reused
    PROVE  Cardinality(Reviewers(job[w].row.payload, n, val[n])) >= Required
<1>1. Step(w)
  <2>1. ~OthersWrite
    BY OthersAside DEF Aside
  <2> QED BY <2>1, NextSteps, StepAside DEF Aside
<1>2. Apply(w)
  BY <1>1 DEF Step, Load, State, Record, Anchor, Save, Capture, Store, Plan, Targets, Rebase, Restamp
<1>3. PICK i \in job[w].todo, outcome \in {"written", "refused", "lost"} : ApplyOf(w, i, outcome)
  BY <1>2, ApplyOwn
<1> DEFINE p == cr.payload
<1>4. job[w].row.payload = p /\ TodoFact(w) /\ OneEach(p) /\ i \in DOMAIN p
  BY <1>3 DEF ApplyOf, ReviewInv, Facts, Bound, InFlight, RowInv, TypeInv, TypeOK
<1>5. ApplyEffect(w, p[i])
  <2>1. outcome # "refused"
    BY <1>3 DEF ApplyOf, graph
  <2> QED BY <1>3, <1>4, <2>1 DEF ApplyOf
<1>6. /\ n = p[i].node /\ Fits(w, n)
      /\ p[i].op = "upsert" => val'[n] = p[i].val
  BY <1>5 DEF ApplyEffect, Still
<1>7. Known(endorsed, p, n, val[n])
  BY <1>4, <1>6 DEF TodoFact, Exempt
<1>8. ~Wants(p, n, val[n])
  BY <1>4, <1>6 DEF Wants, OneEach
<1>9. Saw(endorsed, p, n, val[n]) = Reviewers(p, n, val[n])
  BY DEF Saw, Reviewers
<1> QED BY <1>4, <1>7, <1>8, <1>9 DEF Known

\* What a merge writes, enough people approved over what it replaces: approvals,
\* rejections, merges that stop half-way and edits of others overlap in any way,
\* amendments with nothing.
THEOREM MergeAppliesReviewed ==
    ASSUME AmendsAlone
    PROVE  Spec => ReviewedBeforeApplied
<1>1. TypeInv /\ ReviewInv /\ [Next]_vars =>
        [\A w \in Requests, n \in Nodes :
           (pc[w] = "apply" /\ job'[w].todo # job[w].todo /\ val'[n] # val[n]
              /\ n \notin unwatched \cup reused)
           => Cardinality(Reviewers(job[w].row.payload, n, val[n])) >= Required]_vars
  BY AppliedIsReviewed
<1>2. TypeInv /\ ReviewInv /\ [Next]_vars => ReviewInv'
  BY ReviewStep
<1> QED BY <1>1, <1>2, InitType, TypeStep, InitReview, PTL DEF Spec, ReviewedBeforeApplied
=============================================================================
