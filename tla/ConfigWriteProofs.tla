-------------------------- MODULE ConfigWriteProofs --------------------------
(* Theorems about ConfigWrite, for every set of nodes and clients, every      *)
(* shape of the relations and every policy.                                   *)
EXTENDS ConfigWrite, TLAPS

-----------------------------------------------------------------------------
(* Types.  A request under way has a node, and a create has a content.       *)

Active(c) == pc[c] \notin {"idle", "done"}

ReqInv ==
    \A c \in Clients : Active(c) =>
        /\ req[c].node \in Nodes
        /\ req[c].kind = "create" => req[c].val \in Vals

LEMMA NothingType == NoRequest \in Requests /\ NoPlan \in Plans
  BY ConfigWriteAssumption DEF NoRequest, NoPlan, Requests, Kinds, Plans

LEMMA AnswerType ==
    ASSUME TypeOK, NEW c \in Clients, Answer(c)
    PROVE  /\ pc' \in [Clients -> Stages] /\ req' \in [Clients -> Requests]
           /\ cur' \in [Clients -> Nat] /\ plan' \in [Clients -> Plans]
           /\ torn' \in [Clients -> BOOLEAN]
<1>1. "done" \in Stages /\ 0 \in Nat /\ FALSE \in BOOLEAN
  BY DEF Stages
<1>2. QED BY <1>1, NothingType DEF TypeOK, Answer, Goto

LEMMA RefuseType == ASSUME TypeOK, NEW c \in Clients, Refuse(c) PROVE TypeOK'
  BY AnswerType DEF Refuse, TypeOK, graphVars

LEMMA AskedType ==
    ASSUME TypeOK, NEW n \in Nodes,
           NEW r \in Creates(n) \cup (IF Exists(n) THEN Edits(n) \cup Deletes(n) ELSE {})
    PROVE  r \in Requests /\ r.node = n /\ (r.kind = "create" => r.val \in Vals)
<1>1. /\ val[n] \in Vals /\ up[n] \in Nodes \cup {None} /\ ver[n] \in Nat
      /\ ParentsOf[n] \subseteq Nodes
  BY ConfigWriteAssumption DEF TypeOK
<1>2. Content(n) \in (Vals \cup {None}) \X (Nodes \cup {None})
  BY <1>1 DEF Content
<1>3. CASE r \in Creates(n)
  BY <1>1, <1>2, <1>3 DEF Creates, Requests, Kinds
<1>4. CASE r \in Edits(n)
  BY <1>1, <1>2, <1>4 DEF Edits, Requests, Kinds
<1>5. CASE r \in Deletes(n)
  BY <1>1, <1>2, <1>5 DEF Deletes, Requests, Kinds
<1>6. QED BY <1>3, <1>4, <1>5

LEMMA RelinkedType ==
    ASSUME TypeOK, NEW n \in Nodes, NEW p \in Nodes \cup {None}, Relinked(n, p)
    PROVE  /\ up' \in [Nodes -> Nodes \cup {None}] /\ down' \in [Nodes -> SUBSET Nodes]
           /\ dangling' \subseteq Nodes \X Nodes
<1>1. CASE p = None
  BY <1>1 DEF Relinked, TypeOK
<1>2. CASE p # None
  <2>1. up' \in [Nodes -> Nodes \cup {None}]
    BY <1>2 DEF Relinked, TypeOK
  <2>2. down' \in [Nodes -> SUBSET Nodes]
    <3>1. \A q \in Nodes : (IF q = p THEN down[q] \cup {n} ELSE down[q] \ {n}) \in SUBSET Nodes
      BY DEF TypeOK
    <3>2. down' = [q \in Nodes |-> IF q = p THEN down[q] \cup {n} ELSE down[q] \ {n}]
      BY <1>2 DEF Relinked
    <3>3. QED BY <3>1, <3>2
  <2>3. dangling' \subseteq Nodes \X Nodes
    BY <1>2 DEF Relinked, TypeOK
  <2>4. QED BY <2>1, <2>2, <2>3
<1>3. QED BY <1>1, <1>2

LEMMA LateType ==
    ASSUME NEW n \in Nodes, NEW p \in Nodes \cup {None}
    PROVE  LateEdges(n, p) \subseteq Nodes \X Nodes
  BY DEF LateEdges

LEMMA RemovedType ==
    ASSUME TypeOK, NEW ns \in SUBSET Nodes, NEW cut, Removed(ns, cut)
    PROVE  /\ ver' \in [Nodes -> Nat] /\ uid' \in [Nodes -> Nat] /\ val' \in [Nodes -> Vals]
           /\ up' \in [Nodes -> Nodes \cup {None}] /\ down' \in [Nodes -> SUBSET Nodes]
           /\ dangling' \subseteq Nodes \X Nodes
<1>1. ver' \in [Nodes -> Nat] /\ uid' \in [Nodes -> Nat] /\ val' \in [Nodes -> Vals]
  BY DEF Removed, TypeOK
<1>2. up' \in [Nodes -> Nodes \cup {None}] /\ down' \in [Nodes -> SUBSET Nodes]
  BY DEF Removed, TypeOK
<1>3. dangling' \subseteq Nodes \X Nodes
  BY DEF Removed, TypeOK
<1>4. QED BY <1>1, <1>2, <1>3

LEMMA TypesKept == TypeOK /\ ReqInv /\ [Next]_vars => TypeOK'
<1> SUFFICES ASSUME TypeOK, ReqInv, [Next]_vars PROVE TypeOK'
  OBVIOUS
<1>1. ASSUME NEW c \in Clients, Ask(c) PROVE TypeOK'
  <2>1. PICK n \in Nodes : \E r \in Creates(n) \cup (IF Exists(n) THEN Edits(n) \cup Deletes(n) ELSE {}) :
            /\ req' = [req EXCEPT ![c] = r]
            /\ Goto(c, IF r.kind = "cascade" THEN "check" ELSE "preflight")
    BY <1>1 DEF Ask
  <2>2. PICK r \in Requests : /\ req' = [req EXCEPT ![c] = r]
                              /\ Goto(c, IF r.kind = "cascade" THEN "check" ELSE "preflight")
    BY <2>1, AskedType
  <2>3. QED BY <1>1, <2>2 DEF Ask, Goto, TypeOK, graphVars, Stages
<1>2. ASSUME NEW c \in Clients, Preflight(c) PROVE TypeOK'
  <2>1. req[c].node \in Nodes
    BY <1>2 DEF Preflight, ReqInv, Active
  <2>2. PICK fetched \in Nat :
            \/ Refuse(c)
            \/ /\ cur' = [cur EXCEPT ![c] = fetched] /\ Goto(c, "send")
               /\ UNCHANGED <<graphVars, req, plan, torn, stalled, late>>
    BY <1>2, <2>1 DEF Preflight, TypeOK
  <2>3. QED BY <2>2, RefuseType DEF Goto, TypeOK, graphVars, Stages
<1>3. ASSUME NEW c \in Clients, SendUpdate(c) PROVE TypeOK'
  <2>1. /\ req[c].node \in Nodes /\ req[c].link \in Nodes \cup {None}
        /\ req[c].val \in Vals \cup {None} /\ Answer(c)
    BY <1>3 DEF SendUpdate, ReqInv, Active, TypeOK, Requests
  <2>2. CASE Matches(c) /\ Linkable(req[c].link)
    <3>1. Stamp(c) \in Nat /\ Patched(val[req[c].node], req[c].val) \in Vals
      BY <2>1 DEF Stamp, Patched, TypeOK
    <3>2. Relinked(req[c].node, req[c].link) /\ late' = late \cup LateEdges(req[c].node, req[c].link)
      BY <1>3, <2>2 DEF SendUpdate
    <3>3. /\ up' \in [Nodes -> Nodes \cup {None}] /\ down' \in [Nodes -> SUBSET Nodes]
          /\ dangling' \subseteq Nodes \X Nodes /\ late' \subseteq Nodes \X Nodes
      BY <2>1, <3>2, RelinkedType, LateType DEF TypeOK
    <3>4. /\ ver' \in [Nodes -> Nat] /\ val' \in [Nodes -> Vals] /\ uid' \in [Nodes -> Nat]
          /\ stalled' \subseteq Nodes
      BY <1>3, <2>1, <2>2, <3>1 DEF SendUpdate, TypeOK
    <3>5. QED BY <2>1, <3>3, <3>4, AnswerType DEF TypeOK
  <2>3. CASE ~(Matches(c) /\ Linkable(req[c].link))
    BY <1>3, <2>1, <2>3, AnswerType DEF SendUpdate, TypeOK, graphVars
  <2>4. QED BY <2>2, <2>3
<1>4. ASSUME NEW c \in Clients, SendCreate(c) PROVE TypeOK'
  <2>1. /\ req[c].node \in Nodes /\ req[c].link \in Nodes \cup {None}
        /\ req[c].val \in Vals /\ Answer(c)
    BY <1>4 DEF SendCreate, ReqInv, Active, TypeOK, Requests
  <2>2. CASE Linkable(req[c].link)
    <3>2. Relinked(req[c].node, req[c].link) /\ late' = late \cup LateEdges(req[c].node, req[c].link)
      BY <1>4, <2>2 DEF SendCreate
    <3>3. /\ up' \in [Nodes -> Nodes \cup {None}] /\ down' \in [Nodes -> SUBSET Nodes]
          /\ dangling' \subseteq Nodes \X Nodes /\ late' \subseteq Nodes \X Nodes
      BY <2>1, <3>2, RelinkedType, LateType DEF TypeOK
    <3>4. /\ ver' \in [Nodes -> Nat] /\ val' \in [Nodes -> Vals] /\ uid' \in [Nodes -> Nat]
          /\ stalled' \subseteq Nodes
      BY <1>4, <2>1, <2>2 DEF SendCreate, TypeOK
    <3>5. QED BY <2>1, <3>3, <3>4, AnswerType DEF TypeOK
  <2>3. CASE ~Linkable(req[c].link)
    BY <1>4, <2>1, <2>3, AnswerType DEF SendCreate, TypeOK, graphVars
  <2>4. QED BY <2>2, <2>3
<1>5. ASSUME NEW c \in Clients, SendRemove(c) PROVE TypeOK'
  <2>1. req[c].node \in Nodes /\ Answer(c)
    BY <1>5 DEF SendRemove, ReqInv, Active
  <2>2. CASE Matches(c)
    BY <1>5, <2>1, <2>2, RemovedType, AnswerType DEF SendRemove, TypeOK
  <2>3. CASE ~Matches(c)
    BY <1>5, <2>1, <2>3, AnswerType DEF SendRemove, TypeOK, graphVars
  <2>4. QED BY <2>2, <2>3
<1>6. ASSUME NEW c \in Clients, CheckDeleteVersion(c) PROVE TypeOK'
  <2>1. \/ Refuse(c)
        \/ Goto(c, "tree") /\ UNCHANGED <<graphVars, req, cur, plan, torn, stalled, late>>
    BY <1>6 DEF CheckDeleteVersion
  <2>2. QED BY <2>1, RefuseType DEF Goto, TypeOK, graphVars, Stages
<1>7. ASSUME NEW c \in Clients, PlanTree(c) PROVE TypeOK'
  <2>1. req[c].node \in Nodes
    BY <1>7 DEF PlanTree, ReqInv, Active
  <2>2. CASE Refuse(c)
    BY <2>2, RefuseType
  <2>3. CASE ~Refuse(c)
    <3> DEFINE p == [dying |-> Dying(req[c].node), cut |-> SurvivorEdges(Dying(req[c].node)),
                     uid |-> uid, ver |-> [n \in Nodes |-> 0]]
    <3>1. plan' = [plan EXCEPT ![c] = p] /\ Goto(c, "versions")
          /\ UNCHANGED <<graphVars, req, cur, torn, stalled, late>>
      BY <1>7, <2>3 DEF PlanTree
    <3>2. Dying(req[c].node) \subseteq Nodes
      BY <2>1, ConfigWriteAssumption DEF Dying, Hop
    <3>3. SurvivorEdges(Dying(req[c].node)) \subseteq Nodes \X Nodes
      BY <3>2 DEF SurvivorEdges
    <3>4. p \in Plans
      BY <3>2, <3>3 DEF Plans, TypeOK
    <3>5. QED BY <3>1, <3>4 DEF Goto, TypeOK, graphVars, Stages
  <2>4. QED BY <2>2, <2>3
<1>8. ASSUME NEW c \in Clients, PlanVersions(c) PROVE TypeOK'
  <2>1. CASE Refuse(c)
    BY <2>1, RefuseType
  <2>2. CASE ~Refuse(c)
    <3>1. /\ plan' = [plan EXCEPT ![c].ver = ver] /\ Goto(c, "commit")
          /\ torn' = [torn EXCEPT ![c] = plan[c].dying # Dying(req[c].node)]
          /\ UNCHANGED <<graphVars, req, cur, stalled, late>>
      BY <1>8, <2>2 DEF PlanVersions
    <3>2. plan' \in [Clients -> Plans]
      <4> DEFINE p == [plan[c] EXCEPT !.ver = ver]
      <4>1. p \in Plans
        BY ZenonT(40) DEF Plans, TypeOK
      <4>2. plan' = [plan EXCEPT ![c] = p]
        BY <3>1
      <4>3. QED BY <4>1, <4>2 DEF TypeOK
    <3>3. torn' \in [Clients -> BOOLEAN]
      BY <3>1 DEF TypeOK
    <3>4. QED BY <3>1, <3>2, <3>3 DEF Goto, TypeOK, graphVars, Stages
  <2>3. QED BY <2>1, <2>2
<1>9. ASSUME NEW c \in Clients, SendCascade(c) PROVE TypeOK'
  <2>1. plan[c].dying \in SUBSET Nodes /\ Answer(c)
    BY <1>9 DEF SendCascade, TypeOK, Plans
  <2>2. CASE \A n \in plan[c].dying : Unmoved(c, n)
    BY <1>9, <2>1, <2>2, RemovedType, AnswerType DEF SendCascade, TypeOK
  <2>3. CASE ~\A n \in plan[c].dying : Unmoved(c, n)
    BY <1>9, <2>1, <2>3, AnswerType DEF SendCascade, TypeOK, graphVars
  <2>4. QED BY <2>2, <2>3
<1>10. CASE UNCHANGED vars
  BY <1>10 DEF vars, graphVars, clientVars, TypeOK
<1>11. QED BY <1>1, <1>2, <1>3, <1>4, <1>5, <1>6, <1>7, <1>8, <1>9, <1>10 DEF Next

\* A step of one request leaves the others alone.
LEMMA OthersKept ==
    ASSUME TypeOK, NEW c \in Clients, NEW d \in Clients, c # d,
           \/ Ask(c) \/ Preflight(c) \/ SendUpdate(c) \/ SendCreate(c) \/ SendRemove(c)
           \/ CheckDeleteVersion(c) \/ PlanTree(c) \/ PlanVersions(c) \/ SendCascade(c)
    PROVE  pc'[d] = pc[d] /\ req'[d] = req[d] /\ plan'[d] = plan[d] /\ torn'[d] = torn[d]
<1> USE DEF TypeOK, Goto
<1>0. ASSUME Answer(c) PROVE pc'[d] = pc[d] /\ req'[d] = req[d] /\ plan'[d] = plan[d] /\ torn'[d] = torn[d]
  BY <1>0 DEF Answer
<1>1. CASE Ask(c)
  BY <1>1 DEF Ask
<1>2. CASE Preflight(c)
  BY <1>0, <1>2 DEF Preflight, Refuse
<1>3. CASE SendUpdate(c) \/ SendCreate(c) \/ SendRemove(c) \/ SendCascade(c)
  BY <1>0, <1>3 DEF SendUpdate, SendCreate, SendRemove, SendCascade
<1>4. CASE CheckDeleteVersion(c)
  BY <1>0, <1>4 DEF CheckDeleteVersion, Refuse
<1>5. CASE PlanTree(c)
  BY <1>0, <1>5 DEF PlanTree, Refuse
<1>6. CASE PlanVersions(c)
  BY <1>0, <1>6 DEF PlanVersions, Refuse
<1>7. QED BY <1>1, <1>2, <1>3, <1>4, <1>5, <1>6

\* ... and its own goes on as it was asked, or is answered.
LEMMA OwnKept ==
    ASSUME TypeOK, NEW c \in Clients,
           \/ Preflight(c) \/ SendUpdate(c) \/ SendCreate(c) \/ SendRemove(c)
           \/ CheckDeleteVersion(c) \/ PlanTree(c) \/ PlanVersions(c) \/ SendCascade(c)
    PROVE  Active(c) /\ (pc'[c] = "done" \/ req' = req)
<1> USE DEF TypeOK, Goto, Active
<1>0. ASSUME Answer(c) PROVE pc'[c] = "done"
  BY <1>0 DEF Answer
<1>2. CASE Preflight(c)
  BY <1>0, <1>2 DEF Preflight, Refuse
<1>3. CASE SendUpdate(c) \/ SendCreate(c) \/ SendRemove(c) \/ SendCascade(c)
  BY <1>0, <1>3 DEF SendUpdate, SendCreate, SendRemove, SendCascade
<1>4. CASE CheckDeleteVersion(c)
  BY <1>0, <1>4 DEF CheckDeleteVersion, Refuse
<1>5. CASE PlanTree(c)
  BY <1>0, <1>5 DEF PlanTree, Refuse
<1>6. CASE PlanVersions(c)
  BY <1>0, <1>6 DEF PlanVersions, Refuse
<1>7. QED BY <1>2, <1>3, <1>4, <1>5, <1>6

LEMMA ReqKept == TypeOK /\ ReqInv /\ [Next]_vars => ReqInv'
<1> SUFFICES ASSUME TypeOK, ReqInv, [Next]_vars, NEW d \in Clients, Active(d)'
             PROVE  /\ req'[d].node \in Nodes
                    /\ req'[d].kind = "create" => req'[d].val \in Vals
  BY DEF ReqInv
<1>1. CASE UNCHANGED vars
  BY <1>1 DEF vars, clientVars, ReqInv, Active
<1>2. ASSUME NEW c \in Clients, Ask(c), c = d
      PROVE  /\ req'[d].node \in Nodes
             /\ req'[d].kind = "create" => req'[d].val \in Vals
  <2>1. PICK n \in Nodes : \E r \in Creates(n) \cup (IF Exists(n) THEN Edits(n) \cup Deletes(n) ELSE {}) :
            req' = [req EXCEPT ![c] = r]
    BY <1>2 DEF Ask
  <2>2. PICK r : /\ req' = [req EXCEPT ![c] = r] /\ r.node = n
                 /\ r.kind = "create" => r.val \in Vals
    BY <2>1, AskedType
  <2>3. QED BY <1>2, <2>2 DEF TypeOK
<1>3. ASSUME NEW c \in Clients, c = d,
             \/ Preflight(c) \/ SendUpdate(c) \/ SendCreate(c) \/ SendRemove(c)
             \/ CheckDeleteVersion(c) \/ PlanTree(c) \/ PlanVersions(c) \/ SendCascade(c)
      PROVE  /\ req'[d].node \in Nodes
             /\ req'[d].kind = "create" => req'[d].val \in Vals
  BY <1>3, OwnKept DEF ReqInv, Active
<1>4. ASSUME NEW c \in Clients, c # d,
             \/ Ask(c) \/ Preflight(c) \/ SendUpdate(c) \/ SendCreate(c) \/ SendRemove(c)
             \/ CheckDeleteVersion(c) \/ PlanTree(c) \/ PlanVersions(c) \/ SendCascade(c)
      PROVE  /\ req'[d].node \in Nodes
             /\ req'[d].kind = "create" => req'[d].val \in Vals
  BY <1>4, OthersKept DEF ReqInv, Active
<1>5. QED BY <1>1, <1>2, <1>3, <1>4 DEF Next

LEMMA InitType == Init => TypeOK /\ ReqInv
<1> SUFFICES ASSUME Init PROVE TypeOK /\ ReqInv
  OBVIOUS
<1>1. (CHOOSE v \in Vals : TRUE) \in Vals
  BY ConfigWriteAssumption
<1>2. /\ ver \in [Nodes -> Nat] /\ uid \in [Nodes -> Nat] /\ val \in [Nodes -> Vals]
      /\ up \in [Nodes -> Nodes \cup {None}] /\ down \in [Nodes -> SUBSET Nodes]
      /\ dangling \subseteq Nodes \X Nodes /\ late \subseteq Nodes \X Nodes /\ stalled \subseteq Nodes
  BY <1>1 DEF Init
<1>3. /\ pc \in [Clients -> Stages] /\ req \in [Clients -> Requests]
      /\ cur \in [Clients -> Nat] /\ torn \in [Clients -> BOOLEAN] /\ plan \in [Clients -> Plans]
  BY NothingType DEF Init, Stages
<1>4. ReqInv
  BY DEF Init, ReqInv, Active
<1>5. QED BY <1>2, <1>3, <1>4 DEF TypeOK

\* Every variable keeps its type.
THEOREM WriteTypeCorrect == Spec => []TypeOK
<1>1. TypeOK /\ ReqInv /\ [Next]_vars => TypeOK' /\ ReqInv'
  BY TypesKept, ReqKept
<1>2. QED BY <1>1, InitType, PTL DEF Spec

-----------------------------------------------------------------------------
(* The gate.  What a request of an unprivileged caller will write passed it: *)
(* its own node before it is sent, every node of its plan before the delete. *)

GateInv ==
    \A c \in Clients \ Privileged :
        /\ pc[c] = "send" => req[c].node \notin Governed
        /\ pc[c] = "commit" => plan[c].dying \cap Governed = {}

LEMMA GateKept == TypeOK /\ GateInv /\ [Next]_vars => GateInv'
<1> SUFFICES ASSUME TypeOK, GateInv, [Next]_vars, NEW d \in Clients \ Privileged
             PROVE  /\ pc'[d] = "send" => req'[d].node \notin Governed
                    /\ pc'[d] = "commit" => plan'[d].dying \cap Governed = {}
  BY DEF GateInv
<1>1. CASE UNCHANGED vars
  BY <1>1 DEF vars, clientVars, GateInv
<1>2. ASSUME NEW c \in Clients, c # d,
             \/ Ask(c) \/ Preflight(c) \/ SendUpdate(c) \/ SendCreate(c) \/ SendRemove(c)
             \/ CheckDeleteVersion(c) \/ PlanTree(c) \/ PlanVersions(c) \/ SendCascade(c)
      PROVE  /\ pc'[d] = "send" => req'[d].node \notin Governed
             /\ pc'[d] = "commit" => plan'[d].dying \cap Governed = {}
  BY <1>2, OthersKept DEF GateInv
<1>3. CASE Ask(d)
  BY <1>3 DEF Ask, Goto, TypeOK
<1>4. CASE Preflight(d)
  BY <1>4 DEF Preflight, Refuse, Answer, Goto, TypeOK, Gated
<1>5. CASE SendUpdate(d) \/ SendCreate(d) \/ SendRemove(d) \/ SendCascade(d)
  BY <1>5 DEF SendUpdate, SendCreate, SendRemove, SendCascade, Answer, Goto, TypeOK
<1>6. CASE CheckDeleteVersion(d) \/ PlanTree(d)
  BY <1>6 DEF CheckDeleteVersion, PlanTree, Refuse, Answer, Goto, TypeOK
<1>7. CASE PlanVersions(d)
  <2>1. CASE Refuse(d)
    BY <2>1 DEF Refuse, Answer, Goto, TypeOK
  <2>2. CASE ~Refuse(d)
    <3>1. /\ ~Gated(d, plan[d].dying) /\ Goto(d, "commit")
          /\ plan' = [plan EXCEPT ![d].ver = ver]
      BY <1>7, <2>2 DEF PlanVersions, GateScope
    <3>2. plan'[d].dying = plan[d].dying
      BY <3>1 DEF TypeOK, Plans
    <3>3. QED BY <3>1, <3>2 DEF Gated, Goto, TypeOK
  <2>3. QED BY <2>1, <2>2
<1>8. QED BY <1>1, <1>2, <1>3, <1>4, <1>5, <1>6, <1>7 DEF Next

\* What a step of d's request writes is its node, or what its plan deletes.
LEMMA WritesItsOwn ==
    ASSUME TypeOK, ReqInv, NEW d \in Clients, NEW n \in Nodes,
           \/ Ask(d) \/ Preflight(d) \/ SendUpdate(d) \/ SendCreate(d) \/ SendRemove(d)
           \/ CheckDeleteVersion(d) \/ PlanTree(d) \/ PlanVersions(d) \/ SendCascade(d),
           ver'[n] # ver[n] \/ val'[n] # val[n]
    PROVE  \/ pc[d] = "send" /\ req[d].kind # "cascade" /\ n = req[d].node
           \/ pc[d] = "commit" /\ n \in plan[d].dying /\ SendCascade(d)
<1>1. CASE Ask(d) \/ Preflight(d) \/ CheckDeleteVersion(d) \/ PlanTree(d) \/ PlanVersions(d)
  BY <1>1 DEF Ask, Preflight, CheckDeleteVersion, PlanTree, PlanVersions, Refuse, graphVars
<1>2. CASE SendUpdate(d)
  BY <1>2 DEF SendUpdate, graphVars, TypeOK
<1>3. CASE SendCreate(d)
  BY <1>3 DEF SendCreate, graphVars, TypeOK
<1>4. CASE SendRemove(d)
  BY <1>4 DEF SendRemove, Removed, graphVars, TypeOK
<1>5. CASE SendCascade(d)
  BY <1>5 DEF SendCascade, Removed, graphVars, TypeOK
<1>6. QED BY <1>1, <1>2, <1>3, <1>4, <1>5

\* No content of a governed node changes by a step of a caller that the policy
\* does not let through, named by the request or swept along by its cascade.
THEOREM GovernedIsGated == Spec => GovernedNeedsBypass
<1> DEFINE Inv == TypeOK /\ ReqInv /\ GateInv
<1>1. Init => GateInv
  BY DEF Init, GateInv
<1>2. Inv /\ [Next]_vars => Inv'
  BY TypesKept, ReqKept, GateKept
<1>3. Inv /\ [Next]_vars
        => [\A c \in Clients \ Privileged, n \in Governed :
              pc'[c] # pc[c] => ver'[n] = ver[n] /\ val'[n] = val[n]]_vars
  <2> SUFFICES ASSUME Inv, [Next]_vars, NEW c \in Clients \ Privileged, NEW n \in Governed,
                      pc'[c] # pc[c], ver'[n] # ver[n] \/ val'[n] # val[n]
               PROVE  FALSE
    OBVIOUS
  <2>1. n \in Nodes
    BY ConfigWriteAssumption
  <2>2. PICK d \in Clients :
           \/ Ask(d) \/ Preflight(d) \/ SendUpdate(d) \/ SendCreate(d) \/ SendRemove(d)
           \/ CheckDeleteVersion(d) \/ PlanTree(d) \/ PlanVersions(d) \/ SendCascade(d)
    BY DEF Next, vars, clientVars
  <2>3. d = c
    BY <2>2, OthersKept
  <2>4. QED BY <2>1, <2>2, <2>3, WritesItsOwn DEF GateInv
<1>4. QED BY <1>1, <1>2, <1>3, InitType, PTL DEF Spec, GovernedNeedsBypass

-----------------------------------------------------------------------------
(* Optimistic concurrency.  While the writes of a node advance its version,  *)
(* the version a client named is at most the node's, and equal to it only as *)
(* long as the content is what the client saw; or the node was deleted.      *)

Current(c, n) ==
    \/ ver[n] = 0 /\ uid[n] > 0
    \/ /\ ver[n] > 0 /\ req[c].want <= ver[n]
       /\ req[c].want = ver[n] => val[n] = req[c].saw[1] /\ up[n] \in {req[c].saw[2], None}

ReadInv ==
    \A c \in Clients : Active(c) /\ Guarded(c) =>
        /\ req[c].kind # "create"
        /\ req[c].node \notin stalled => Current(c, req[c].node)

\* What a version in a request is when it is asked.
LEMMA AskedRead ==
    ASSUME TypeOK, NEW n \in Nodes, NEW r, r.want > 0,
           r \in Creates(n) \cup (IF Exists(n) THEN Edits(n) \cup Deletes(n) ELSE {})
    PROVE  /\ r.kind # "create" /\ r.node = n /\ Exists(n)
           /\ r.want = ver[n] /\ r.saw = Content(n)
<1>1. r \notin Creates(n)
  BY DEF Creates
<1>2. Exists(n) /\ r \in Edits(n) \cup Deletes(n)
  BY <1>1
<1>3. CASE r \in Edits(n)
  BY <1>2, <1>3 DEF Edits
<1>4. CASE r \in Deletes(n)
  BY <1>2, <1>4 DEF Deletes
<1>5. QED BY <1>2, <1>3, <1>4

\* What a step does to one node.
LEMMA Effect ==
    ASSUME TypeOK, ReqInv, [Next]_vars, NEW n \in Nodes
    PROVE  /\ stalled \subseteq stalled'
           /\ \/ ver'[n] = ver[n] /\ uid'[n] = uid[n] /\ val'[n] = val[n] /\ up'[n] \in {up[n], None}
              \/ ver'[n] = 0 /\ uid'[n] > uid[n]
              \/ n \in stalled'
              \/ ver[n] > 0 /\ ver'[n] > ver[n]
              \/ ver[n] = 0 /\ uid[n] = 0
<1> DEFINE Same == ver'[n] = ver[n] /\ uid'[n] = uid[n] /\ val'[n] = val[n] /\ up'[n] \in {up[n], None}
           Gone == ver'[n] = 0 /\ uid'[n] > uid[n]
<1>0. ASSUME NEW ns, NEW cut, Removed(ns, cut) PROVE Same \/ Gone
  <2>1. CASE n \in ns
    BY <1>0, <2>1 DEF Removed, TypeOK
  <2>2. CASE n \notin ns
    BY <1>0, <2>2 DEF Removed, TypeOK
  <2>3. QED BY <2>1, <2>2
<1>1. CASE UNCHANGED vars
  BY <1>1 DEF vars, graphVars
<1>2. ASSUME NEW c \in Clients, Ask(c) \/ Preflight(c) \/ CheckDeleteVersion(c) \/ PlanTree(c) \/ PlanVersions(c)
      PROVE  stalled' = stalled /\ Same
  BY <1>2 DEF Ask, Preflight, CheckDeleteVersion, PlanTree, PlanVersions, Refuse, graphVars
<1>3. ASSUME NEW c \in Clients, SendUpdate(c)
      PROVE  /\ stalled \subseteq stalled'
             /\ Same \/ n \in stalled' \/ (ver[n] > 0 /\ ver'[n] > ver[n])
  <2>1. CASE ~(Matches(c) /\ Linkable(req[c].link))
    BY <1>3, <2>1 DEF SendUpdate, graphVars
  <2>2. CASE Matches(c) /\ Linkable(req[c].link)
    <3>1. /\ ver' = [ver EXCEPT ![req[c].node] = Stamp(c)] /\ uid' = uid
          /\ val' = [val EXCEPT ![req[c].node] = Patched(@, req[c].val)]
          /\ Relinked(req[c].node, req[c].link)
          /\ stalled' = IF Stamp(c) > ver[req[c].node] THEN stalled ELSE stalled \cup {req[c].node}
      BY <1>3, <2>2 DEF SendUpdate
    <3>2. CASE n = req[c].node
      BY <2>2, <3>1, <3>2 DEF Matches, Exists, TypeOK
    <3>3. CASE n # req[c].node
      <4>1. up'[n] = up[n]
        BY <3>1, <3>3 DEF Relinked, TypeOK
      <4>2. QED BY <3>1, <3>3, <4>1 DEF TypeOK
    <3>4. QED BY <3>2, <3>3
  <2>3. QED BY <2>1, <2>2
<1>4. ASSUME NEW c \in Clients, SendCreate(c)
      PROVE  /\ stalled \subseteq stalled'
             /\ Same \/ n \in stalled' \/ (ver[n] = 0 /\ uid[n] = 0)
  <2>1. CASE ~Linkable(req[c].link)
    BY <1>4, <2>1 DEF SendCreate, graphVars
  <2>2. CASE Linkable(req[c].link)
    <3>1. /\ ver' = [ver EXCEPT ![req[c].node] = 1] /\ uid' = uid
          /\ val' = [val EXCEPT ![req[c].node] = req[c].val]
          /\ Relinked(req[c].node, req[c].link)
          /\ stalled' = IF ver[req[c].node] = 0 /\ uid[req[c].node] = 0
                        THEN stalled ELSE stalled \cup {req[c].node}
      BY <1>4, <2>2 DEF SendCreate
    <3>2. CASE n = req[c].node
      BY <3>1, <3>2
    <3>3. CASE n # req[c].node
      <4>1. up'[n] = up[n]
        BY <3>1, <3>3 DEF Relinked, TypeOK
      <4>2. QED BY <3>1, <3>3, <4>1 DEF TypeOK
    <3>4. QED BY <3>2, <3>3
  <2>3. QED BY <2>1, <2>2
<1>5. ASSUME NEW c \in Clients, SendRemove(c) PROVE stalled' = stalled /\ (Same \/ Gone)
  BY <1>0, <1>5 DEF SendRemove, graphVars
<1>6. ASSUME NEW c \in Clients, SendCascade(c) PROVE stalled' = stalled /\ (Same \/ Gone)
  BY <1>0, <1>6 DEF SendCascade, graphVars
<1>7. QED BY <1>1, <1>2, <1>3, <1>4, <1>5, <1>6 DEF Next

LEMMA ReadKept == TypeOK /\ ReqInv /\ ReadInv /\ [Next]_vars => ReadInv'
<1> SUFFICES ASSUME TypeOK, ReqInv, ReadInv, [Next]_vars, TypeOK',
                    NEW d \in Clients, Active(d)', Guarded(d)'
             PROVE  /\ req'[d].kind # "create"
                    /\ req'[d].node \notin stalled' => Current(d, req[d].node)'
  BY TypesKept DEF ReadInv
<1>1. ASSUME Active(d), req'[d] = req[d]
      PROVE  /\ req'[d].kind # "create"
             /\ req'[d].node \notin stalled' => Current(d, req[d].node)'
  <2> DEFINE n == req[d].node
  <2>1. n \in Nodes /\ req[d].kind # "create" /\ (n \notin stalled => Current(d, n))
    BY <1>1 DEF ReqInv, ReadInv, Guarded
  <2>2. SUFFICES ASSUME n \notin stalled', Current(d, n)
                 PROVE  \/ ver'[n] = 0 /\ uid'[n] > 0
                        \/ /\ ver'[n] > 0 /\ req[d].want <= ver'[n]
                           /\ req[d].want = ver'[n] => val'[n] = req[d].saw[1] /\ up'[n] \in {req[d].saw[2], None}
    BY <1>1, <2>1, Effect DEF Current
  <2>3. ver[n] \in Nat /\ ver'[n] \in Nat /\ uid[n] \in Nat /\ uid'[n] \in Nat /\ req[d].want \in Nat
    BY <2>1 DEF TypeOK, Requests
  <2>4. \/ ver'[n] = ver[n] /\ uid'[n] = uid[n] /\ val'[n] = val[n] /\ up'[n] \in {up[n], None}
        \/ ver'[n] = 0 /\ uid'[n] > uid[n]
        \/ ver[n] > 0 /\ ver'[n] > ver[n]
        \/ ver[n] = 0 /\ uid[n] = 0
    BY <2>1, <2>2, Effect
  <2>5. QED BY <2>2, <2>3, <2>4 DEF Current
<1>2. CASE UNCHANGED vars
  BY <1>1, <1>2 DEF vars, clientVars, Active
<1>3. CASE Ask(d)
  <2>1. PICK n \in Nodes : \E r \in Creates(n) \cup (IF Exists(n) THEN Edits(n) \cup Deletes(n) ELSE {}) :
            req' = [req EXCEPT ![d] = r]
    BY <1>3 DEF Ask
  <2>2. PICK r \in Creates(n) \cup (IF Exists(n) THEN Edits(n) \cup Deletes(n) ELSE {}) :
            req' = [req EXCEPT ![d] = r]
    BY <2>1
  <2>3. req'[d] = r /\ r.want > 0
    BY <2>2 DEF TypeOK, Guarded
  <2>4. r.kind # "create" /\ r.node = n /\ Exists(n) /\ r.want = ver[n] /\ r.saw = Content(n)
    BY <2>2, <2>3, AskedRead
  <2>5. ver[n] \in Nat /\ ver' = ver /\ val' = val /\ up' = up
    BY <1>3 DEF Ask, graphVars, TypeOK
  <2>6. QED BY <2>3, <2>4, <2>5 DEF Current, Exists, Content
<1>4. ASSUME NEW c \in Clients, c # d,
             \/ Ask(c) \/ Preflight(c) \/ SendUpdate(c) \/ SendCreate(c) \/ SendRemove(c)
             \/ CheckDeleteVersion(c) \/ PlanTree(c) \/ PlanVersions(c) \/ SendCascade(c)
      PROVE  Active(d) /\ req'[d] = req[d]
  BY <1>4, OthersKept DEF Active
<1>5. CASE \/ Preflight(d) \/ SendUpdate(d) \/ SendCreate(d) \/ SendRemove(d)
           \/ CheckDeleteVersion(d) \/ PlanTree(d) \/ PlanVersions(d) \/ SendCascade(d)
  BY <1>1, <1>5, OwnKept DEF Active
<1>6. QED BY <1>1, <1>2, <1>3, <1>4, <1>5 DEF Next

\* An edit or a delete that names a version hits the content its client read,
\* while every write of the node advanced its version.
THEOREM GuardedWritesHit == Spec => GuardedHitsWhatItRead
<1> DEFINE Inv == TypeOK /\ ReqInv /\ ReadInv
<1>1. Init => ReadInv
  BY DEF Init, ReadInv, Active
<1>2. Inv /\ [Next]_vars => Inv'
  BY TypesKept, ReqKept, ReadKept
<1>3. Inv /\ [Next]_vars
        => [\A c \in Clients, n \in Nodes \ stalled :
              (pc[c] = "send" /\ pc'[c] = "done" /\ Guarded(c) /\ n = req[c].node /\ ver'[n] # ver[n])
              => val[n] = req[c].saw[1] /\ up[n] \in {req[c].saw[2], None}]_vars
  <2> SUFFICES ASSUME Inv, [Next]_vars, NEW c \in Clients, NEW n \in Nodes \ stalled,
                      pc[c] = "send", pc'[c] = "done", Guarded(c), n = req[c].node, ver'[n] # ver[n]
               PROVE  val[n] = req[c].saw[1] /\ up[n] \in {req[c].saw[2], None}
    OBVIOUS
  <2>1. PICK d \in Clients :
           \/ Ask(d) \/ Preflight(d) \/ SendUpdate(d) \/ SendCreate(d) \/ SendRemove(d)
           \/ CheckDeleteVersion(d) \/ PlanTree(d) \/ PlanVersions(d) \/ SendCascade(d)
    BY DEF Next, vars, graphVars
  <2>2. d = c
    BY <2>1, OthersKept
  <2>3. Current(c, n) /\ req[c].kind # "create"
    BY DEF ReadInv, Active
  <2>4. SendUpdate(c) \/ SendRemove(c)
    BY <2>1, <2>2, <2>3 DEF Ask, Preflight, CheckDeleteVersion, PlanTree, PlanVersions, SendCreate, SendCascade, Refuse, graphVars
  <2>5. Matches(c)
    BY <2>4 DEF SendUpdate, SendRemove, graphVars
  <2>6. QED BY <2>3, <2>5 DEF Matches, Exists, Current, Guarded
<1>4. QED BY <1>1, <1>2, <1>3, InitType, PTL DEF Spec, GuardedHitsWhatItRead

-----------------------------------------------------------------------------
(* A cascade.  Its nodes hang together from its root by edges between them,  *)
(* or one of them was written since the plan; then its version tells.        *)

Linked(n, p) == n \in Owned /\ n \in down[p]

\* Every node of D is within two hops of the root, through D alone.
Coherent(root, D) ==
    /\ root \in D
    /\ \A n \in D : n = root \/ Linked(n, root) \/ \E p \in D : Linked(p, root) /\ Linked(n, p)

Moved(c, n) == n \in stalled \/ uid[n] > plan[c].uid[n] \/ ver[n] > plan[c].ver[n]
Fresh(c, n) == \/ n \in stalled \/ uid[n] > plan[c].uid[n]
               \/ uid[n] = plan[c].uid[n] /\ ver[n] >= plan[c].ver[n] /\ plan[c].ver[n] > 0

PlanInv ==
    \A c \in Clients : pc[c] = "commit" =>
        /\ \A n \in plan[c].dying : Fresh(c, n)
        /\ ~torn[c] => Coherent(req[c].node, plan[c].dying) \/ \E n \in plan[c].dying : Moved(c, n)

\* What hangs together is in the subgraph of its root, and that subgraph does.
LEMMA CoherentIsDying ==
    ASSUME NEW root, NEW D, Coherent(root, D) PROVE D \subseteq Dying(root)
  BY DEF Coherent, Linked, Dying, Hop

LEMMA DyingIsCoherent == ASSUME NEW root PROVE Coherent(root, Dying(root))
  BY DEF Coherent, Linked, Dying, Hop

\* An edge goes only with a write of one of its ends.
LEMMA EdgeEffect ==
    ASSUME TypeOK, ReqInv, [Next]_vars, NEW n \in Nodes, NEW p \in Nodes,
           n \in down[p], n \notin down'[p]
    PROVE  \E m \in {n, p} : m \in stalled' \/ uid'[m] > uid[m] \/ ver'[m] > ver[m]
<1> DEFINE Changed(m) == m \in stalled' \/ uid'[m] > uid[m] \/ ver'[m] > ver[m]
<1>0. ASSUME NEW ns, NEW cut, Removed(ns, cut) PROVE Changed(n) \/ Changed(p)
  <2>1. n \in ns \/ p \in ns
    BY <1>0 DEF Removed, TypeOK
  <2>2. CASE n \in ns
    BY <1>0, <2>2 DEF Removed, TypeOK
  <2>3. CASE p \in ns
    BY <1>0, <2>3 DEF Removed, TypeOK
  <2>4. QED BY <2>1, <2>2, <2>3
<1>1. ASSUME NEW m \in Nodes, NEW q, Relinked(m, q) PROVE m = n
  BY <1>1 DEF Relinked, TypeOK
<1>2. ASSUME NEW c \in Clients, SendUpdate(c) PROVE Changed(n)
  <2>1. Matches(c) /\ Linkable(req[c].link) /\ req[c].node \in Nodes
    BY <1>2 DEF SendUpdate, graphVars, ReqInv, Active
  <2>2. Relinked(req[c].node, req[c].link)
    BY <1>2, <2>1 DEF SendUpdate
  <2>3. req[c].node = n
    BY <1>1, <2>1, <2>2
  <2>4. /\ ver' = [ver EXCEPT ![n] = Stamp(c)]
        /\ stalled' = IF Stamp(c) > ver[n] THEN stalled ELSE stalled \cup {n}
    BY <1>2, <2>1, <2>3 DEF SendUpdate
  <2>5. QED BY <2>4 DEF TypeOK
<1>3. ASSUME NEW c \in Clients, SendCreate(c) PROVE Changed(n)
  <2>1. Linkable(req[c].link) /\ req[c].node \in Nodes
    BY <1>3 DEF SendCreate, graphVars, ReqInv, Active
  <2>2. Relinked(req[c].node, req[c].link)
    BY <1>3, <2>1 DEF SendCreate
  <2>3. req[c].node = n
    BY <1>1, <2>1, <2>2
  <2>4. /\ ver' = [ver EXCEPT ![n] = 1]
        /\ stalled' = IF ver[n] = 0 /\ uid[n] = 0 THEN stalled ELSE stalled \cup {n}
    BY <1>3, <2>1, <2>3 DEF SendCreate
  <2>5. QED BY <2>4 DEF TypeOK
<1>4. ASSUME NEW c \in Clients, SendRemove(c) \/ SendCascade(c) PROVE Changed(n) \/ Changed(p)
  BY <1>0, <1>4 DEF SendRemove, SendCascade, graphVars
<1>5. QED
  BY <1>2, <1>3, <1>4 DEF Next, vars, Ask, Preflight, CheckDeleteVersion, PlanTree, PlanVersions, Refuse, graphVars

LEMMA UidGrows ==
    ASSUME TypeOK, [Next]_vars, NEW n \in Nodes PROVE uid'[n] >= uid[n]
<1>1. uid' = uid => uid'[n] >= uid[n]
  BY DEF TypeOK
<1>2. ASSUME NEW ns, NEW cut, Removed(ns, cut) PROVE uid'[n] >= uid[n]
  BY <1>2 DEF Removed, TypeOK
<1>3. ASSUME NEW c \in Clients,
             \/ Ask(c) \/ Preflight(c) \/ CheckDeleteVersion(c) \/ PlanTree(c) \/ PlanVersions(c)
             \/ SendUpdate(c) \/ SendCreate(c)
      PROVE  uid' = uid
  BY <1>3 DEF Ask, Preflight, CheckDeleteVersion, PlanTree, PlanVersions, SendUpdate, SendCreate, Refuse, graphVars
<1>4. ASSUME NEW c \in Clients, SendRemove(c) \/ SendCascade(c)
      PROVE  uid'[n] >= uid[n]
  BY <1>1, <1>2, <1>4 DEF SendRemove, SendCascade, graphVars
<1>5. QED BY <1>1, <1>3, <1>4 DEF Next, vars, graphVars

\* A plan that is kept stays fresh, and coherent or noticed.
LEMMA PlanStays ==
    ASSUME TypeOK, TypeOK', ReqInv, PlanInv, [Next]_vars, NEW d \in Clients,
           pc[d] = "commit", plan'[d] = plan[d], req'[d] = req[d], torn'[d] = torn[d]
    PROVE  /\ \A n \in plan[d].dying : Fresh(d, n)'
           /\ ~torn[d] => \/ Coherent(req[d].node, plan[d].dying)'
                         \/ \E n \in plan[d].dying : Moved(d, n)'
<1> DEFINE D == plan[d].dying
           root == req[d].node
<1>1. D \subseteq Nodes /\ root \in Nodes
  BY DEF TypeOK, Plans, ReqInv, Active
<1>2. ASSUME NEW n \in D
      PROVE  /\ ver[n] \in Nat /\ ver'[n] \in Nat /\ uid[n] \in Nat /\ uid'[n] \in Nat
             /\ plan[d].ver[n] \in Nat /\ plan[d].uid[n] \in Nat
  BY <1>1 DEF TypeOK, Plans
<1>3. ASSUME NEW n \in D
      PROVE  /\ n \in stalled => n \in stalled'
             /\ \/ ver'[n] = ver[n] /\ uid'[n] = uid[n]
                \/ ver'[n] = 0 /\ uid'[n] > uid[n]
                \/ n \in stalled'
                \/ ver[n] > 0 /\ ver'[n] > ver[n]
                \/ ver[n] = 0 /\ uid[n] = 0
  BY <1>1, Effect
<1>4. ASSUME NEW n \in D PROVE Fresh(d, n)
  BY DEF PlanInv
<1>4a. ASSUME NEW n \in D PROVE uid'[n] >= uid[n]
  BY <1>1, UidGrows
<1>5. ASSUME NEW n \in D PROVE Fresh(d, n)' /\ (Moved(d, n) => Moved(d, n)')
  <2> DEFINE u == plan[d].uid[n]
             v == plan[d].ver[n]
  <2>1. /\ ver[n] \in Nat /\ ver'[n] \in Nat /\ uid[n] \in Nat /\ uid'[n] \in Nat
        /\ v \in Nat /\ u \in Nat /\ uid'[n] >= uid[n]
    BY <1>2, <1>4a
  <2>2. n \in stalled \/ uid[n] > u \/ (uid[n] = u /\ ver[n] >= v /\ v > 0)
    BY <1>4 DEF Fresh
  <2>3. plan'[d].uid[n] = u /\ plan'[d].ver[n] = v
    OBVIOUS
  <2>4. /\ n \in stalled => n \in stalled'
        /\ \/ ver'[n] = ver[n] /\ uid'[n] = uid[n]
           \/ ver'[n] = 0 /\ uid'[n] > uid[n]
           \/ n \in stalled'
           \/ ver[n] > 0 /\ ver'[n] > ver[n]
           \/ ver[n] = 0 /\ uid[n] = 0
    BY <1>3
  <2> HIDE DEF u, v
  <2>5. n \in stalled' \/ uid'[n] > u \/ (uid'[n] = u /\ ver'[n] >= v /\ v > 0)
    BY <2>1, <2>2, <2>4
  <2>6. n \in stalled \/ uid[n] > u \/ ver[n] > v => n \in stalled' \/ uid'[n] > u \/ ver'[n] > v
    BY <2>1, <2>2, <2>4
  <2>7. Fresh(d, n)'
    BY <2>3, <2>5 DEF Fresh
  <2>8. Moved(d, n) => Moved(d, n)'
    BY <2>3, <2>6 DEF Moved, u, v
  <2>9. QED BY <2>7, <2>8
<1>6. ASSUME NEW n \in D, ~Moved(d, n)'
      PROVE  ~(n \in stalled' \/ uid'[n] > uid[n] \/ ver'[n] > ver[n])
  <2>1. n \notin stalled' /\ n \notin stalled /\ ~(uid'[n] > plan[d].uid[n]) /\ ~(ver'[n] > plan[d].ver[n])
    BY <1>3, <1>6 DEF Moved
  <2>2. uid[n] = plan[d].uid[n] /\ ver[n] >= plan[d].ver[n]
    BY <2>1, <1>2, <1>4, <1>4a DEF Fresh
  <2>3. QED BY <2>1, <2>2, <1>2
<1>7. ASSUME Coherent(root, D), \A n \in D : ~Moved(d, n)' PROVE Coherent(root, D)'
  <2>1. ASSUME NEW n \in D PROVE ~(n \in stalled' \/ uid'[n] > uid[n] \/ ver'[n] > ver[n])
    BY <1>6, <1>7
  <2>2. ASSUME NEW n \in D, NEW p \in D, n \in down[p] PROVE n \in down'[p]
    BY <1>1, <2>1, <2>2, EdgeEffect
  <2>3. ASSUME NEW n \in D, NEW p \in D, Linked(n, p) PROVE Linked(n, p)'
    BY <2>2, <2>3 DEF Linked
  <2>4. root \in D
    BY <1>7 DEF Coherent
  <2>5. ASSUME NEW n \in D
        PROVE  n = root \/ Linked(n, root)' \/ \E p \in D : Linked(p, root)' /\ Linked(n, p)'
    BY <1>7, <2>3, <2>4 DEF Coherent
  <2>6. QED BY <2>4, <2>5 DEF Coherent, Linked
<1>8. ASSUME ~torn[d] PROVE Coherent(root, D) \/ \E n \in D : Moved(d, n)
  BY <1>8 DEF PlanInv
<1>9. QED BY <1>5, <1>7, <1>8

LEMMA PlanKept == TypeOK /\ ReqInv /\ PlanInv /\ [Next]_vars => PlanInv'
<1> SUFFICES ASSUME TypeOK, ReqInv, PlanInv, [Next]_vars, TypeOK', NEW d \in Clients, pc'[d] = "commit"
             PROVE  /\ \A n \in plan'[d].dying : Fresh(d, n)'
                    /\ ~torn'[d] => \/ Coherent(req[d].node, plan[d].dying)'
                                   \/ \E n \in plan'[d].dying : Moved(d, n)'
  BY TypesKept DEF PlanInv
<1>1. CASE PlanVersions(d)
  <2> DEFINE D == plan[d].dying
  <2>1. /\ plan' = [plan EXCEPT ![d].ver = ver]
        /\ torn' = [torn EXCEPT ![d] = D # Dying(req[d].node)]
        /\ UNCHANGED <<graphVars, req, stalled>>
        /\ \A n \in D : SameNode(d, n)
    BY <1>1 DEF PlanVersions, Refuse, Answer, Goto, TypeOK
  <2>2. plan'[d].dying = D /\ plan'[d].ver = ver /\ plan'[d].uid = plan[d].uid
    BY <2>1 DEF TypeOK, Plans
  <2>3. ASSUME NEW n \in D PROVE Fresh(d, n)'
    <3>1. ver[n] \in Nat /\ ver[n] > 0 /\ uid[n] = plan[d].uid[n]
      BY <2>1 DEF SameNode, Exists, TypeOK, Plans
    <3>2. QED BY <2>1, <2>2, <3>1 DEF Fresh, graphVars
  <2>4. ASSUME ~torn'[d] PROVE Coherent(req[d].node, plan[d].dying)'
    <3>1. D = Dying(req[d].node)
      BY <2>1, <2>4 DEF TypeOK
    <3>2. Coherent(req[d].node, D)
      BY <3>1, DyingIsCoherent
    <3>3. QED BY <2>1, <2>2, <3>2 DEF Coherent, Linked, graphVars
  <2>5. QED BY <2>2, <2>3, <2>4
<1>2. ASSUME pc[d] = "commit", plan'[d] = plan[d], req'[d] = req[d], torn'[d] = torn[d]
      PROVE  /\ \A n \in plan'[d].dying : Fresh(d, n)'
             /\ ~torn'[d] => \/ Coherent(req[d].node, plan[d].dying)'
                            \/ \E n \in plan'[d].dying : Moved(d, n)'
  <2>1. /\ \A n \in plan[d].dying : Fresh(d, n)'
        /\ ~torn[d] => \/ Coherent(req[d].node, plan[d].dying)'
                      \/ \E n \in plan[d].dying : Moved(d, n)'
    BY <1>2, PlanStays
  <2>2. QED BY <1>2, <2>1
<1>3. CASE UNCHANGED vars
  BY <1>2, <1>3 DEF vars, clientVars
<1>4. ASSUME NEW c \in Clients, c # d,
             \/ Ask(c) \/ Preflight(c) \/ SendUpdate(c) \/ SendCreate(c) \/ SendRemove(c)
             \/ CheckDeleteVersion(c) \/ PlanTree(c) \/ PlanVersions(c) \/ SendCascade(c)
      PROVE  pc[d] = "commit" /\ plan'[d] = plan[d] /\ req'[d] = req[d] /\ torn'[d] = torn[d]
  BY <1>4, OthersKept
<1>5. CASE \/ Ask(d) \/ Preflight(d) \/ SendUpdate(d) \/ SendCreate(d) \/ SendRemove(d)
           \/ CheckDeleteVersion(d) \/ PlanTree(d) \/ SendCascade(d)
  BY <1>5 DEF Ask, Preflight, SendUpdate, SendCreate, SendRemove, CheckDeleteVersion, PlanTree, SendCascade,
     Refuse, Answer, Goto, TypeOK
<1>6. QED BY <1>1, <1>2, <1>3, <1>4, <1>5 DEF Next

\* A cascade deletes only what is in the subgraph of its root at that moment,
\* if its two reads saw one tree and the versions of its nodes advance.
THEOREM CascadesTakeTheirOwn == Spec => CascadeTakesItsOwn
<1> DEFINE Inv == TypeOK /\ ReqInv /\ PlanInv
<1>1. Init => PlanInv
  BY DEF Init, PlanInv
<1>2. Inv /\ [Next]_vars => Inv'
  BY TypesKept, ReqKept, PlanKept
<1>3. Inv /\ [Next]_vars
        => [\A c \in Clients :
              (pc[c] = "commit" /\ pc'[c] = "done" /\ ~torn[c] /\ ver' # ver
                 /\ plan[c].dying \cap stalled = {})
              => plan[c].dying \subseteq Dying(req[c].node)]_vars
  <2> SUFFICES ASSUME Inv, [Next]_vars, NEW c \in Clients, pc[c] = "commit", pc'[c] = "done", ~torn[c],
                      ver' # ver, plan[c].dying \cap stalled = {}
               PROVE  plan[c].dying \subseteq Dying(req[c].node)
    OBVIOUS
  <2>1. PICK d \in Clients :
           \/ Ask(d) \/ Preflight(d) \/ SendUpdate(d) \/ SendCreate(d) \/ SendRemove(d)
           \/ CheckDeleteVersion(d) \/ PlanTree(d) \/ PlanVersions(d) \/ SendCascade(d)
    BY DEF Next, vars, graphVars
  <2>2. d = c
    BY <2>1, OthersKept
  <2>3. SendCascade(c)
    BY <2>1, <2>2 DEF Ask, Preflight, SendUpdate, SendCreate, SendRemove, CheckDeleteVersion, PlanTree, PlanVersions
  <2>4. \A n \in plan[c].dying : uid[n] = plan[c].uid[n] /\ ver[n] = plan[c].ver[n]
    BY <2>3 DEF SendCascade, Unmoved, SameNode, graphVars
  <2>5. \A n \in plan[c].dying : uid[n] \in Nat /\ ver[n] \in Nat
    BY DEF TypeOK, Plans
  <2>6. \A n \in plan[c].dying : ~Moved(c, n)
    BY <2>4, <2>5 DEF Moved
  <2>7. Coherent(req[c].node, plan[c].dying)
    BY <2>6 DEF PlanInv
  <2>8. QED BY <2>7, CoherentIsDying
<1>4. QED BY <1>1, <1>2, <1>3, InitType, PTL DEF Spec, CascadeTakesItsOwn

-----------------------------------------------------------------------------
(* The edges of survivors.  Every edge into the nodes of a plan was there    *)
(* when the tree was read, and its holder is still that node, or it is late. *)

Planned(c) == pc[c] \in {"versions", "commit"}

EdgeInv ==
    \A c \in Clients : Planned(c) =>
        \A m \in Nodes \ plan[c].dying, n \in plan[c].dying : n \in HeldBy(m) =>
            <<m, n>> \in late \/ (<<m, n>> \in plan[c].cut /\ uid[m] = plan[c].uid[m])

\* A new link puts its edges on the late list of the cascades that planned.
LEMMA LinkIsLate ==
    ASSUME TypeOK, NEW d \in Clients, Planned(d), NEW k \in Nodes, NEW q \in Nodes \cup {None},
           Relinked(k, q), NEW m \in Nodes, NEW n \in plan[d].dying, n \in Nodes, n \in HeldBy(m)'
    PROVE  n \in HeldBy(m) \/ <<m, n>> \in LateEdges(k, q)
<1>1. CASE q = None
  BY <1>1 DEF Relinked, HeldBy
<1>2. CASE q # None
  <2>1. /\ up' = [up EXCEPT ![k] = q]
        /\ down' = [p \in Nodes |-> IF p = q THEN down[p] \cup {k} ELSE down[p] \ {k}]
    BY <1>2 DEF Relinked
  <2>2. n \in HeldBy(m) \/ (m = k /\ n = q) \/ (m = q /\ n = k)
    BY <2>1 DEF HeldBy, TypeOK
  <2>3. \/ n \in HeldBy(m)
        \/ {k, q} \cap plan[d].dying # {} /\ <<m, n>> \in {<<k, q>>, <<q, k>>}
    BY <2>2
  <2>4. ASSUME {k, q} \cap plan[d].dying # {} PROVE LateEdges(k, q) = {<<k, q>>, <<q, k>>}
    BY <1>2, <2>4 DEF LateEdges, Planned
  <2>5. QED BY <2>3, <2>4
<1>3. QED BY <1>1, <1>2

\* What a removal leaves: no edge to or from what went.
LEMMA RemovalCuts ==
    ASSUME TypeOK, NEW ns, NEW cut, Removed(ns, cut), NEW m \in Nodes, NEW n \in Nodes, n \in HeldBy(m)'
    PROVE  n \in HeldBy(m) /\ uid'[m] = uid[m]
  BY ConfigWriteAssumption DEF Removed, HeldBy, TypeOK

LEMMA EdgeStays ==
    ASSUME TypeOK, ReqInv, [Next]_vars, NEW d \in Clients, Planned(d),
           NEW m \in Nodes, NEW n \in plan[d].dying, n \in HeldBy(m)'
    PROVE  /\ late \subseteq late'
           /\ <<m, n>> \in late' \/ (n \in HeldBy(m) /\ uid'[m] = uid[m])
<1>0. n \in Nodes
  BY DEF TypeOK, Plans
<1>1. ASSUME UNCHANGED graphVars, late' = late
      PROVE  late \subseteq late' /\ n \in HeldBy(m) /\ uid'[m] = uid[m]
  BY <1>1 DEF graphVars, HeldBy
<1>2. CASE UNCHANGED vars
  BY <1>1, <1>2 DEF vars
<1>3. ASSUME NEW c \in Clients, Ask(c) \/ Preflight(c) \/ CheckDeleteVersion(c) \/ PlanTree(c) \/ PlanVersions(c)
      PROVE  UNCHANGED graphVars /\ late' = late
  BY <1>3 DEF Ask, Preflight, CheckDeleteVersion, PlanTree, PlanVersions, Refuse
<1>4. ASSUME NEW c \in Clients, SendUpdate(c) \/ SendCreate(c)
      PROVE  \/ UNCHANGED graphVars /\ late' = late
             \/ /\ Relinked(req[c].node, req[c].link) /\ uid' = uid
                /\ late' = late \cup LateEdges(req[c].node, req[c].link)
                /\ req[c].node \in Nodes /\ req[c].link \in Nodes \cup {None}
  BY <1>4 DEF SendUpdate, SendCreate, ReqInv, Active, TypeOK, Requests
<1>5. ASSUME NEW c \in Clients, SendUpdate(c) \/ SendCreate(c)
      PROVE  /\ late \subseteq late'
             /\ <<m, n>> \in late' \/ (n \in HeldBy(m) /\ uid'[m] = uid[m])
  <2>1. CASE UNCHANGED graphVars /\ late' = late
    BY <1>1, <2>1
  <2>2. CASE ~(UNCHANGED graphVars /\ late' = late)
    BY <1>0, <1>4, <1>5, <2>2, LinkIsLate
  <2>3. QED BY <2>1, <2>2
<1>6. ASSUME NEW c \in Clients, SendRemove(c) \/ SendCascade(c)
      PROVE  late' = late /\ n \in HeldBy(m) /\ uid'[m] = uid[m]
  <2>1. late' = late /\ (UNCHANGED graphVars \/ \E ns \in {{req[c].node}, plan[c].dying} : \E cut : Removed(ns, cut))
    BY <1>6 DEF SendRemove, SendCascade
  <2>2. QED BY <1>0, <1>1, <2>1, RemovalCuts
<1>7. QED BY <1>1, <1>2, <1>3, <1>5, <1>6 DEF Next

LEMMA EdgesKept == TypeOK /\ ReqInv /\ EdgeInv /\ [Next]_vars => EdgeInv'
<1> SUFFICES ASSUME TypeOK, ReqInv, EdgeInv, [Next]_vars, TypeOK',
                    NEW d \in Clients, pc'[d] \in {"versions", "commit"},
                    NEW m \in Nodes \ plan'[d].dying, NEW n \in plan'[d].dying, n \in HeldBy(m)'
             PROVE  <<m, n>> \in late' \/ (<<m, n>> \in plan'[d].cut /\ uid'[m] = plan'[d].uid[m])
  BY TypesKept DEF EdgeInv, Planned
<1>1. ASSUME Planned(d), plan'[d].dying = plan[d].dying, plan'[d].cut = plan[d].cut, plan'[d].uid = plan[d].uid
      PROVE  <<m, n>> \in late' \/ (<<m, n>> \in plan'[d].cut /\ uid'[m] = plan'[d].uid[m])
  <2>1. /\ late \subseteq late'
        /\ <<m, n>> \in late' \/ (n \in HeldBy(m) /\ uid'[m] = uid[m])
    BY <1>1, EdgeStays
  <2>2. n \in HeldBy(m) => <<m, n>> \in late \/ (<<m, n>> \in plan[d].cut /\ uid[m] = plan[d].uid[m])
    BY <1>1 DEF EdgeInv
  <2>3. QED BY <1>1, <2>1, <2>2
<1>2. CASE PlanTree(d)
  <2>1. pc'[d] # "done"
    OBVIOUS
  <2>2. /\ plan' = [plan EXCEPT ![d] = [dying |-> Dying(req[d].node), cut |-> SurvivorEdges(Dying(req[d].node)),
                                        uid |-> uid, ver |-> [k \in Nodes |-> 0]]]
        /\ UNCHANGED graphVars
    BY <1>2, <2>1 DEF PlanTree, Refuse, Answer, Goto, TypeOK
  <2>3. /\ plan'[d].dying = Dying(req[d].node) /\ plan'[d].cut = SurvivorEdges(Dying(req[d].node))
        /\ plan'[d].uid = uid /\ uid' = uid /\ n \in HeldBy(m)
    BY <2>2 DEF TypeOK, HeldBy, graphVars
  <2>4. QED BY <2>3 DEF SurvivorEdges
<1>3. CASE PlanVersions(d)
  <2>1. plan' = [plan EXCEPT ![d].ver = ver] /\ Planned(d)
    BY <1>3 DEF PlanVersions, Refuse, Answer, Goto, TypeOK, Planned
  <2>2. QED BY <1>1, <2>1 DEF TypeOK, Plans
<1>4. CASE UNCHANGED vars
  BY <1>1, <1>4 DEF vars, clientVars, Planned
<1>5. ASSUME NEW c \in Clients, c # d,
             \/ Ask(c) \/ Preflight(c) \/ SendUpdate(c) \/ SendCreate(c) \/ SendRemove(c)
             \/ CheckDeleteVersion(c) \/ PlanTree(c) \/ PlanVersions(c) \/ SendCascade(c)
      PROVE  Planned(d) /\ plan'[d] = plan[d]
  BY <1>5, OthersKept DEF Planned
<1>6. CASE \/ Ask(d) \/ Preflight(d) \/ SendUpdate(d) \/ SendCreate(d) \/ SendRemove(d)
           \/ CheckDeleteVersion(d) \/ SendCascade(d)
  BY <1>6 DEF Ask, Preflight, SendUpdate, SendCreate, SendRemove, CheckDeleteVersion, SendCascade,
     Refuse, Answer, Goto, TypeOK
<1>7. QED BY <1>1, <1>2, <1>3, <1>4, <1>5, <1>6 DEF Next

LEMMA RepairKept == TypeOK /\ ReqInv /\ EdgeInv /\ EdgesAreRepaired /\ [Next]_vars => EdgesAreRepaired'
<1> SUFFICES ASSUME TypeOK, ReqInv, EdgeInv, EdgesAreRepaired, [Next]_vars PROVE dangling' \subseteq late'
  BY DEF EdgesAreRepaired
<1>1. ASSUME dangling' \subseteq dangling, late \subseteq late' PROVE dangling' \subseteq late'
  BY <1>1 DEF EdgesAreRepaired
<1>2. CASE UNCHANGED vars
  BY <1>1, <1>2 DEF vars, graphVars
<1>3. ASSUME NEW c \in Clients, Ask(c) \/ Preflight(c) \/ CheckDeleteVersion(c) \/ PlanTree(c) \/ PlanVersions(c)
      PROVE  dangling' = dangling /\ late' = late
  BY <1>3 DEF Ask, Preflight, CheckDeleteVersion, PlanTree, PlanVersions, Refuse, graphVars
<1>4. ASSUME NEW c \in Clients, SendUpdate(c) \/ SendCreate(c)
      PROVE  dangling' \subseteq dangling /\ late \subseteq late'
  BY <1>4 DEF SendUpdate, SendCreate, Relinked, graphVars
<1>5. ASSUME NEW c \in Clients, SendRemove(c) PROVE dangling' \subseteq dangling /\ late \subseteq late'
  <2>1. late' = late /\ (Removed({req[c].node}, Nodes \X {req[c].node}) \/ UNCHANGED graphVars)
    BY <1>5 DEF SendRemove
  <2>2. CASE UNCHANGED graphVars
    BY <2>1, <2>2 DEF graphVars
  <2>3. CASE Removed({req[c].node}, Nodes \X {req[c].node})
    BY <2>1, <2>3 DEF Removed
  <2>4. QED BY <2>1, <2>2, <2>3
<1>6. ASSUME NEW c \in Clients, SendCascade(c) PROVE dangling' \subseteq late'
  <2> DEFINE D == plan[c].dying
             cut == {e \in plan[c].cut : uid[e[1]] = plan[c].uid[e[1]]}
  <2>1. late' = late /\ (Removed(D, cut) \/ UNCHANGED graphVars) /\ Planned(c)
    BY <1>6 DEF SendCascade, Planned
  <2>2. CASE UNCHANGED graphVars
    BY <1>1, <2>1, <2>2 DEF graphVars
  <2>3. CASE Removed(D, cut)
    <3>1. D \subseteq Nodes
      BY DEF TypeOK, Plans
    <3>2. ASSUME NEW m \in Nodes \ D, NEW n \in D, n \in HeldBy(m), <<m, n>> \notin cut
          PROVE  <<m, n>> \in late
      BY <2>1, <3>2 DEF EdgeInv
    <3>3. dangling' = {e \in dangling : e[1] \notin D}
                      \cup {e \in (Nodes \ D) \X D : e[2] \in HeldBy(e[1]) /\ e \notin cut}
      BY <2>3 DEF Removed
    <3>4. {e \in (Nodes \ D) \X D : e[2] \in HeldBy(e[1]) /\ e \notin cut} \subseteq late
      BY <3>2
    <3>5. QED BY <2>1, <3>3, <3>4 DEF EdgesAreRepaired
  <2>4. QED BY <2>1, <2>2, <2>3
<1>7. QED BY <1>1, <1>2, <1>3, <1>4, <1>5, <1>6 DEF Next

\* A node that outlives a cascade holds no edge to what the cascade deleted,
\* unless the edge was made after the cascade had read its tree.
THEOREM SurvivorsAreRepaired == Spec => []EdgesAreRepaired
<1> DEFINE Inv == TypeOK /\ ReqInv /\ EdgeInv /\ EdgesAreRepaired
<1>1. Init => EdgeInv /\ EdgesAreRepaired
  BY DEF Init, EdgeInv, Planned, EdgesAreRepaired
<1>2. Inv /\ [Next]_vars => Inv'
  BY TypesKept, ReqKept, EdgesKept, RepairKept
<1>3. QED BY <1>1, <1>2, InitType, PTL DEF Spec
=============================================================================
