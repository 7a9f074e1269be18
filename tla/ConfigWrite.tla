---------------------------- MODULE ConfigWrite ----------------------------
(***************************************************************************)
(* Writes of configuration items: the GraphQL proxy, which stamps versions *)
(* and turns a client's version into a compare-and-set, and the cascade    *)
(* delete of a page, which plans with two reads and deletes with one       *)
(* guarded DQL transaction (internal/handler/graphql.go, delete.go,        *)
(* delete_cascade.go).                                                     *)
(*                                                                         *)
(* A client looks at an item, asks for one write, and is done.  Relations  *)
(* are stored on both sides: up[c] is the edge of a child to its parent,   *)
(* down[p] the inverse edge.  A GraphQL write keeps both sides in step, a  *)
(* DQL delete does not.                                                    *)
(***************************************************************************)
EXTENDS Naturals

CONSTANTS
    Nodes,       \* orbIds
    Existing,    \* the ones that exist at first
    ParentsOf,   \* ParentsOf[n]: what n's edge may point to
    Owned,       \* nodes the page of their parent deletes with it
    Governed,    \* nodes an approval policy protects
    Vals,        \* contents
    Asked,       \* the kinds of write and their targets that clients ask for
    Clients,     \* requests
    Privileged,  \* clients whose role bypasses the policy
    BlindFetch,  \* TRUE when the read of the current state may fail
    None

ASSUME ConfigWriteAssumption ==
    /\ Existing \subseteq Nodes /\ Owned \subseteq Nodes /\ Governed \subseteq Nodes
    /\ ParentsOf \in [Nodes -> SUBSET Nodes]
    /\ Asked \subseteq {"update", "create", "remove", "cascade"} \X Nodes
    /\ Privileged \subseteq Clients
    /\ BlindFetch \in BOOLEAN
    /\ None \notin Nodes \cup Vals /\ Vals # {}

VARIABLES
    ver, val,     \* version (0: absent) and content of a node
    uid,          \* how often the orbId was deleted: a new node has a new uid
    up, down,     \* the edges
    dangling,     \* <<m, n>>: m holds an edge to a deleted n
    pc, req, cur, \* clients: where, the request, the version fetched
    plan, torn,   \*   what a cascade read; its two reads saw different trees
    stalled,      \* nodes written without their version growing
    late          \* edges made after a cascade had planned around them

graphVars  == <<ver, val, uid, up, down, dangling>>
clientVars == <<pc, req, cur, plan, torn>>
vars == <<graphVars, clientVars, stalled, late>>

Exists(n) == ver[n] > 0
Content(n) == <<val[n], up[n]>>

Stages == {"idle", "preflight", "send", "check", "tree", "versions", "commit", "done"}
Kinds  == {"update", "create", "remove", "cascade"}
Requests == [kind : Kinds, node : Nodes \cup {None}, val : Vals \cup {None}, link : Nodes \cup {None},
             want : Nat, saw : (Vals \cup {None}) \X (Nodes \cup {None})]
Plans == [dying : SUBSET Nodes, cut : SUBSET (Nodes \X Nodes),
          uid : [Nodes -> Nat], ver : [Nodes -> Nat]]

NoRequest == [kind |-> "update", node |-> None, val |-> None, link |-> None,
              want |-> 0, saw |-> <<None, None>>]
NoPlan == [dying |-> {}, cut |-> {}, uid |-> [n \in Nodes |-> 0], ver |-> [n \in Nodes |-> 0]]

Init ==
    /\ ver = [n \in Nodes |-> IF n \in Existing THEN 1 ELSE 0]
    /\ val = [n \in Nodes |-> CHOOSE v \in Vals : TRUE]
    /\ uid = [n \in Nodes |-> 0]
    /\ up \in [Nodes -> Nodes \cup {None}]
    /\ \A n \in Nodes : up[n] \in {None} \cup (IF n \in Existing THEN ParentsOf[n] \cap Existing ELSE {})
    /\ down = [p \in Nodes |-> {n \in Nodes : up[n] = p}]
    /\ dangling = {}
    /\ pc = [c \in Clients |-> "idle"]
    /\ req = [c \in Clients |-> NoRequest]
    /\ cur = [c \in Clients |-> 0]
    /\ plan = [c \in Clients |-> NoPlan]
    /\ torn = [c \in Clients |-> FALSE]
    /\ stalled = {} /\ late = {}

Goto(c, stage) == pc' = [pc EXCEPT ![c] = stage]

\* The request is answered; nothing of it is kept.
Answer(c) ==
    /\ Goto(c, "done")
    /\ req' = [req EXCEPT ![c] = NoRequest] /\ cur' = [cur EXCEPT ![c] = 0]
    /\ plan' = [plan EXCEPT ![c] = NoPlan] /\ torn' = [torn EXCEPT ![c] = FALSE]

Refuse(c) == Answer(c) /\ UNCHANGED <<graphVars, stalled, late>>

---------------------------------------------------------------------------
\* What a client may ask for, given what it sees.  An edit or a delete names
\* the version it was read at, or none; an edit patches a field or the edge.
Edits(n) == {[kind |-> "update", node |-> n, val |-> v, link |-> None, want |-> w, saw |-> Content(n)] :
                 v \in Vals \ {val[n]}, w \in {0, ver[n]}}
            \cup {[kind |-> "update", node |-> n, val |-> None, link |-> p, want |-> w, saw |-> Content(n)] :
                 p \in ParentsOf[n] \ {up[n]}, w \in {0, ver[n]}}
Deletes(n) == {[kind |-> k, node |-> n, val |-> None, link |-> None, want |-> w, saw |-> Content(n)] :
                 k \in {"remove", "cascade"}, w \in {0, ver[n]}}
Creates(n) == {[kind |-> "create", node |-> n, val |-> v, link |-> p, want |-> 0, saw |-> Content(n)] :
                 v \in Vals, p \in ParentsOf[n] \cup {None}}

Ask(c) ==
    /\ pc[c] = "idle"
    /\ \E n \in Nodes : \E r \in Creates(n) \cup (IF Exists(n) THEN Edits(n) \cup Deletes(n) ELSE {}) :
          /\ <<r.kind, n>> \in Asked
          /\ req' = [req EXCEPT ![c] = r]
          /\ Goto(c, IF r.kind = "cascade" THEN "check" ELSE "preflight")
    /\ UNCHANGED <<graphVars, cur, plan, torn, stalled, late>>

Guarded(c) == req[c].want > 0

\* checkApprovalPolicy: the gate sees every node the write names.
Gated(c, nodes) == nodes \cap Governed # {} /\ c \notin Privileged

\* Fetch the current version, compare it, stamp its successor, ask the gate.
\* An add names its target in a list, which the fetch does not resolve.
Preflight(c) ==
    LET r == req[c] IN
    /\ pc[c] = "preflight"
    /\ \E fetched \in {IF r.kind = "create" THEN 0 ELSE ver[r.node]} \cup (IF BlindFetch THEN {0} ELSE {}) :
          IF (Guarded(c) /\ fetched # 0 /\ fetched # r.want) \/ Gated(c, {r.node})
          THEN Refuse(c)
          ELSE /\ cur' = [cur EXCEPT ![c] = fetched]
               /\ Goto(c, "send")
               /\ UNCHANGED <<graphVars, req, plan, torn, stalled, late>>

---------------------------------------------------------------------------
\* Node n's edge moves to parent p (or stays), on both sides.
Relinked(n, p) ==
    IF p = None THEN UNCHANGED <<up, down, dangling>> ELSE
    /\ up' = [up EXCEPT ![n] = p]
    /\ down' = [q \in Nodes |-> IF q = p THEN down[q] \cup {n} ELSE down[q] \ {n}]
    /\ dangling' = {e \in dangling : e[1] # n \/ e[2] \notin ParentsOf[n]}

\* The edges of a new link a cascade that has read its tree does not know.
LateEdges(n, p) ==
    IF p # None /\ \E c \in Clients : pc[c] \in {"versions", "commit"} /\ {n, p} \cap plan[c].dying # {}
    THEN {<<n, p>>, <<p, n>>} ELSE {}

\* A link to a node that does not exist is a nested create, and fails.
Linkable(p) == p = None \/ Exists(p)

\* The version predicate injected into the filter of the mutation.
MatchesAny(c) == Exists(req[c].node)
Matches(c) == Exists(req[c].node) /\ (~Guarded(c) \/ ver[req[c].node] = req[c].want)

\* A patch leaves the fields it does not name.
PatchedAll(old, new) == new
Patched(old, new) == IF new = None THEN old ELSE new

Stamp(c) == IF cur[c] = 0 THEN ver[req[c].node] ELSE cur[c] + 1

SendUpdate(c) ==
    LET r == req[c] n == req[c].node IN
    /\ pc[c] = "send" /\ r.kind = "update"
    /\ IF Matches(c) /\ Linkable(r.link)
       THEN /\ ver' = [ver EXCEPT ![n] = Stamp(c)]
            /\ val' = [val EXCEPT ![n] = Patched(@, r.val)]
            /\ Relinked(n, r.link)
            /\ stalled' = IF Stamp(c) > ver[n] THEN stalled ELSE stalled \cup {n}
            /\ late' = late \cup LateEdges(n, r.link)
            /\ UNCHANGED uid
       ELSE UNCHANGED <<graphVars, stalled, late>>
    /\ Answer(c)

\* add(upsert: true) stamps version 1, on a node that exists as well.
SendCreate(c) ==
    LET r == req[c] n == req[c].node IN
    /\ pc[c] = "send" /\ r.kind = "create"
    /\ IF Linkable(r.link)
       THEN /\ ver' = [ver EXCEPT ![n] = 1]
            /\ val' = [val EXCEPT ![n] = r.val]
            /\ Relinked(n, r.link)
            /\ stalled' = IF ver[n] = 0 /\ uid[n] = 0 THEN stalled ELSE stalled \cup {n}
            /\ late' = late \cup LateEdges(n, r.link)
            /\ UNCHANGED uid
       ELSE UNCHANGED <<graphVars, stalled, late>>
    /\ Answer(c)

\* The nodes ns go; an edge to them from outside is cleared when it is in
\* `cut`, and left to a deleted node otherwise.
HeldBy(m) == down[m] \cup ({up[m]} \ {None})

Removed(ns, cut) ==
    /\ ver' = [n \in Nodes |-> IF n \in ns THEN 0 ELSE ver[n]]
    /\ uid' = [n \in Nodes |-> IF n \in ns THEN uid[n] + 1 ELSE uid[n]]
    /\ up' = [n \in Nodes |-> IF n \in ns \/ up[n] \in ns THEN None ELSE up[n]]
    /\ down' = [n \in Nodes |-> IF n \in ns THEN {} ELSE down[n] \ ns]
    /\ dangling' = {e \in dangling : e[1] \notin ns}
                   \cup {e \in (Nodes \ ns) \X ns : e[2] \in HeldBy(e[1]) /\ e \notin cut}
    /\ UNCHANGED val

\* delete{Type} through GraphQL: one node, and the inverse edges with it.
SendRemove(c) ==
    LET n == req[c].node IN
    /\ pc[c] = "send" /\ req[c].kind = "remove"
    /\ IF Matches(c) THEN Removed({n}, Nodes \X {n}) ELSE UNCHANGED graphVars
    /\ Answer(c)
    /\ UNCHANGED <<stalled, late>>

---------------------------------------------------------------------------
\* The declared subgraph of a page: paths of up to two hops.
Hop(ns) == ns \cup {n \in Owned : \E p \in ns : n \in down[p]}
Dying(n) == Hop(Hop({n}))

\* The edges that survivors hold into what dies.
EdgesFromBelow(dying) == {e \in (Nodes \ dying) \X dying : up[e[1]] = e[2]}
SurvivorEdges(dying) == {e \in (Nodes \ dying) \X dying : e[2] \in HeldBy(e[1])}

CheckDeleteVersion(c) ==
    /\ pc[c] = "check"
    /\ IF Guarded(c) /\ ver[req[c].node] # req[c].want
       THEN Refuse(c)
       ELSE Goto(c, "tree") /\ UNCHANGED <<graphVars, req, cur, plan, torn, stalled, late>>

\* planCascade's query.
PlanTree(c) ==
    LET dying == Dying(req[c].node) IN
    /\ pc[c] = "tree"
    /\ IF ~Exists(req[c].node)
       THEN Refuse(c)
       ELSE /\ plan' = [plan EXCEPT ![c] =
                  [dying |-> dying,
                   cut |-> SurvivorEdges(dying),
                   uid |-> uid, ver |-> [n \in Nodes |-> 0]]]
            /\ Goto(c, "versions")
            /\ UNCHANGED <<graphVars, req, cur, torn, stalled, late>>

\* The node the plan read is still that node.
SameNode(c, n) == Exists(n) /\ uid[n] = plan[c].uid[n]

GateRoot(c)  == {req[c].node}
GateScope(c) == plan[c].dying

\* planVersions is a second query; the gate sees every node of the plan.
PlanVersions(c) ==
    LET dying == plan[c].dying IN
    /\ pc[c] = "versions"
    /\ IF Gated(c, GateScope(c)) \/ \E n \in dying : ~SameNode(c, n)
       THEN Refuse(c)
       ELSE /\ plan' = [plan EXCEPT ![c].ver = ver]
            /\ torn' = [torn EXCEPT ![c] = dying # Dying(req[c].node)]
            /\ Goto(c, "commit")
            /\ UNCHANGED <<graphVars, req, cur, stalled, late>>

\* bulkDeleteGuarded: all of it, if every node is at the version planned.
UnmovedAny(c, n) == SameNode(c, n)
Unmoved(c, n) == SameNode(c, n) /\ ver[n] = plan[c].ver[n]

SendCascade(c) ==
    /\ pc[c] = "commit"
    /\ IF \A n \in plan[c].dying : Unmoved(c, n)
       THEN Removed(plan[c].dying, {e \in plan[c].cut : uid[e[1]] = plan[c].uid[e[1]]})
       ELSE UNCHANGED graphVars
    /\ Answer(c)
    /\ UNCHANGED <<stalled, late>>

---------------------------------------------------------------------------
Next == \E c \in Clients :
    \/ Ask(c) \/ Preflight(c)
    \/ SendUpdate(c) \/ SendCreate(c) \/ SendRemove(c)
    \/ CheckDeleteVersion(c) \/ PlanTree(c) \/ PlanVersions(c) \/ SendCascade(c)

Spec == Init /\ [][Next]_vars

---------------------------------------------------------------------------
TypeOK ==
    /\ ver \in [Nodes -> Nat] /\ uid \in [Nodes -> Nat]
    /\ val \in [Nodes -> Vals]
    /\ up \in [Nodes -> Nodes \cup {None}] /\ down \in [Nodes -> SUBSET Nodes]
    /\ dangling \subseteq Nodes \X Nodes /\ late \subseteq Nodes \X Nodes
    /\ stalled \subseteq Nodes
    /\ pc \in [Clients -> Stages] /\ req \in [Clients -> Requests]
    /\ cur \in [Clients -> Nat] /\ torn \in [Clients -> BOOLEAN]
    /\ plan \in [Clients -> Plans]

\* Optimistic concurrency: an edit or a delete that names a version hits the
\* content its client read (but for the edge to a parent deleted since), as
\* long as every write of the node advanced its version.  The fetch, the stamp
\* and the injected predicate of different requests interleave; only together
\* do they make a version name one content.
GuardedHitsWhatItRead ==
    [][\A c \in Clients, n \in Nodes \ stalled :
         (pc[c] = "send" /\ pc'[c] = "done" /\ Guarded(c) /\ n = req[c].node /\ ver'[n] # ver[n])
         => val[n] = req[c].saw[1] /\ up[n] \in {req[c].saw[2], None}]_vars

\* A node that outlives a cascade holds no edge to a node the cascade deleted,
\* unless the edge was made after the cascade had read its tree.
EdgesAreRepaired == dangling \subseteq late

\* A cascade deletes what is in the subgraph of its root when it deletes, if
\* its two reads saw the same tree and the versions advance: a node that moved
\* to another parent meanwhile is not deleted with the old one.
CascadeTakesItsOwn ==
    [][\A c \in Clients :
         (pc[c] = "commit" /\ pc'[c] = "done" /\ ~torn[c] /\ ver' # ver
            /\ plan[c].dying \cap stalled = {})
         => plan[c].dying \subseteq Dying(req[c].node)]_vars

\* No content of a governed node changes by a step of a caller that the policy
\* does not let through, be it named by the request or only by its cascade.
GovernedNeedsBypass ==
    [][\A c \in Clients \ Privileged, n \in Governed :
         pc'[c] # pc[c] => ver'[n] = ver[n] /\ val'[n] = val[n]]_vars
=============================================================================
