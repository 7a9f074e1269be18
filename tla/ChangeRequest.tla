--------------------------- MODULE ChangeRequest ---------------------------
(***************************************************************************)
(* One change request: reviewed, amended, merged into the graph or ended   *)
(* (internal/handler/changerequest.go, changerequest_merge.go,             *)
(* changerequest_base.go).                                                 *)
(*                                                                         *)
(* Every HTTP request loads the row, reads the versions of the graph,      *)
(* decides, and writes the row back field by field; no lock and no         *)
(* transaction spans those steps.  A merge writes the graph one item at a  *)
(* time.  Others edit the graph meanwhile.                                 *)
(*                                                                         *)
(* A hash of a version vector is the vector: 0 for a node that is absent   *)
(* or outside the scope.  A node has one field.                            *)
(***************************************************************************)
EXTENDS Naturals, Sequences, FiniteSets

CONSTANTS
    Nodes, Vals,   \* orbIds; values of a node's field
    Present,       \* the nodes that exist at first
    Pages,         \* Pages[n]: the rest of the subgraph that n's page declares
    Users, Author, \* who acts; who opened the request
    Bypassers,     \* users whose role the policy lets through
    Required,      \* approvals that the policy asks for
    Proposals,     \* changesets: sequences of items
    Requests,      \* HTTP requests, each used once
    Ops,           \* what they ask for
    Alone,         \* the operations that run with no other under way
    Faults,        \* how a write of a merge may fail: "refused", "lost"
    MaxWrites,     \* bound: edits of the graph by others
    None

ASSUME ChangeRequestAssumption ==
    /\ Present \subseteq Nodes /\ Pages \in [Nodes -> SUBSET Nodes]
    /\ Author \in Users /\ Bypassers \subseteq Users /\ Vals # {}
    /\ Required \in Nat /\ MaxWrites \in Nat
    /\ Alone \subseteq Ops /\ Ops \subseteq {"approve", "reject", "close", "amend", "merge"}
    /\ Faults \subseteq {"refused", "lost"}
    /\ None \notin Vals \cup Nodes \cup Requests /\ IsFiniteSet(Users)
    /\ \A p \in Proposals :
          p \in Seq([node : Nodes, op : {"upsert", "delete"}, val : Vals, pinned : BOOLEAN])

VARIABLES
    ver, val,      \* graph: version (0: absent) and content (None: absent)
    cr,            \* the row of the request
    appr,          \* its approvals, one per user
    pc, job,       \* HTTP requests: where, and what they hold
    writes,        \* edits by others so far
    \* what no program variable holds
    endorsed,      \* <<user, changeset, content>>: what an approver had before them
    foreign,       \* foreign[w]: nodes others wrote since merge w read the graph
    unwatched,     \* nodes others wrote while no check of a merge could notice,
                   \* or whose ancestor is older than the versions next to it
    reused         \* nodes whose version does not only grow: deleted, or added anew

graph == <<ver, val>>
ghost == <<endorsed, foreign, unwatched, reused>>
vars  == <<graph, cr, appr, pc, job, writes, ghost>>

Stages   == {"idle", "state", "record", "anchor", "save", "capture", "store",
             "plan", "targets", "apply", "rebase", "restamp", "done"}
Content  == [Nodes -> Vals \cup {None}]
Versions == [Nodes -> Nat]
Row      == [status : {"open", "rejected", "closed", "merged"}, revision : Nat,
             payload : Proposals, want : Versions, scope : SUBSET Nodes,
             hash : Versions, present : SUBSET Nodes, values : Content]
Decision == [decision : {"none", "approved", "rejected"}, hash : Versions, revision : Nat]
Job      == [op : Ops \cup {"none"}, who : Users, row : Row, votes : [Users -> Decision],
             base : Versions, seen : Content, todo : SUBSET Nat, target : Versions,
             applied : SUBSET Nodes, failed : BOOLEAN, lost : BOOLEAN, after : Versions]

Zero        == [n \in Nodes |-> 0]
Nothing     == [n \in Nodes |-> None]
Undecided   == [decision |-> "none", hash |-> Zero, revision |-> 0]

---------------------------------------------------------------------------
\* What a request is captured against (Create, Amend).

Exists(n)   == ver[n] > 0
Declared(p) == {p[i].node : i \in DOMAIN p}
\* The declared nodes, and the page of each that exists.
ScopeOf(p)  == Declared(p) \cup UNION {Pages[n] : n \in {m \in Declared(p) : Exists(m)}}
VersionsOf(scope)  == [n \in Nodes |-> IF n \in scope THEN ver[n] ELSE 0]
PresentIn(v)       == {n \in Nodes : v[n] > 0}
\* The version an item carries, the one its author read.
WantOf(p, v) == [n \in Nodes |-> IF \E i \in DOMAIN p : p[i].node = n /\ p[i].pinned THEN v[n] ELSE 0]
\* The ancestor of every field a changeset sets: a delete and a create have none.
BaseValues(p) == [n \in Nodes |->
    IF \E i \in DOMAIN p : p[i].node = n /\ p[i].op = "upsert" THEN val[n] ELSE None]
HasAncestor(row) == row.values # Nothing

\* What Validate admits: one item per node, a version only for what exists.
Valid(p) == \A i \in DOMAIN p :
    /\ \A j \in DOMAIN p : p[j].node = p[i].node => j = i
    /\ p[i].pinned => Exists(p[i].node)

Opened(p) == LET v == VersionsOf(ScopeOf(p)) IN
    [status |-> "open", revision |-> 1, payload |-> p, want |-> WantOf(p, v),
     scope |-> ScopeOf(p), hash |-> v, present |-> PresentIn(v), values |-> BaseValues(p)]

NoRow == [status |-> "open", revision |-> 0, payload |-> CHOOSE p \in Proposals : TRUE, want |-> Zero,
          scope |-> {}, hash |-> Zero, present |-> {}, values |-> Nothing]
NoJob == [op |-> "none", who |-> Author, row |-> NoRow, votes |-> [u \in Users |-> Undecided],
          base |-> Zero, seen |-> Nothing, todo |-> {}, target |-> Zero,
          applied |-> {}, failed |-> FALSE, lost |-> FALSE, after |-> Zero]

Init ==
    /\ ver = [n \in Nodes |-> IF n \in Present THEN 1 ELSE 0]
    /\ val = [n \in Nodes |-> IF n \in Present THEN CHOOSE v \in Vals : TRUE ELSE None]
    /\ \E p \in Proposals : Valid(p) /\ cr = Opened(p)
    /\ appr = [u \in Users |-> Undecided]
    /\ pc = [w \in Requests |-> "idle"]
    /\ job = [w \in Requests |-> NoJob]
    /\ writes = 0
    /\ endorsed = {} /\ foreign = [w \in Requests |-> {}] /\ unwatched = {} /\ reused = {}

Goto(w, stage) == pc' = [pc EXCEPT ![w] = stage]

Answer(w) ==
    /\ Goto(w, "done")
    /\ job' = [job EXCEPT ![w] = NoJob]
    /\ foreign' = [foreign EXCEPT ![w] = {}]

Refuse(w) == Answer(w) /\ UNCHANGED <<graph, cr, appr, writes, endorsed, unwatched, reused>>

---------------------------------------------------------------------------
\* State: what is derived from a row, its approvals and the versions v.

CountsAnyRevision(a, row, v) == a.decision = "approved" /\ a.hash = v
Counts(a, row, v) == a.decision = "approved" /\ a.hash = v /\ a.revision = row.revision
Approved(row, votes, v) == Cardinality({u \in Users : Counts(votes[u], row, v)}) >= Required
Stale(row, v)   == \E n \in Nodes : row.want[n] > 0 /\ v[n] > 0 /\ v[n] # row.want[n]
Missing(row, v) == \E n \in row.present : v[n] = 0

Mergeable(row, votes, v) ==
    /\ row.status = "open"
    /\ ~Missing(row, v) /\ Approved(row, votes, v) /\ ~Stale(row, v) /\ v = row.hash

Permitted(w, v) ==
    LET j == job[w] IN
    \/ j.op \in {"approve", "reject"} /\ (j.who # Author \/ j.who \in Bypassers)
    \/ j.op \in {"close", "amend"} /\ (j.who = Author \/ j.who \in Bypassers)
    \/ /\ j.op = "merge" /\ Mergeable(j.row, j.votes, v)
       /\ j.who = Author \/ j.who \in Bypassers \/ j.votes[j.who].decision = "approved"

\* Where an operation goes once its guards hold.
First == [approve |-> "record", reject |-> "record", close |-> "save",
          amend |-> "capture", merge |-> "plan"]

InFlight == {w \in Requests : pc[w] \notin {"idle", "done"}}

\* Get: the row and its approvals.
Load(w) ==
    /\ pc[w] = "idle" /\ cr.status = "open"
    /\ \E op \in Ops, u \in Users, p \in Proposals :
          /\ InFlight = {} \/ (op \notin Alone /\ \A x \in InFlight : job[x].op \notin Alone)
          /\ op # "amend" => p = cr.payload
          /\ job' = [job EXCEPT ![w] = [NoJob EXCEPT !.op = op, !.who = u, !.votes = appr,
                                               !.row = [cr EXCEPT !.payload = p]]]
    /\ Goto(w, "state")
    /\ UNCHANGED <<graph, cr, appr, writes, ghost>>

\* State: the versions of the pinned scope; then the guards of the operation.
State(w) ==
    LET v == VersionsOf(job[w].row.scope) IN
    /\ pc[w] = "state"
    /\ IF ~Permitted(w, v)
       THEN Refuse(w)
       ELSE /\ job' = [job EXCEPT ![w].base = v,
                          ![w].seen = IF job[w].op = "approve" THEN val ELSE Nothing]
            /\ Goto(w, First[job[w].op])
            /\ UNCHANGED <<graph, cr, appr, writes, ghost>>

---------------------------------------------------------------------------
\* Decisions.

\* recordDecision: the user's previous decision is replaced.
Record(w) ==
    LET j == job[w] approve == job[w].op = "approve" IN
    /\ pc[w] = "record"
    /\ appr' = [appr EXCEPT ![j.who] =
          [decision |-> IF approve THEN "approved" ELSE "rejected",
           hash |-> j.base, revision |-> j.row.revision]]
    /\ endorsed' = IF approve THEN endorsed \cup {<<j.who, j.row.payload, j.seen>>} ELSE endorsed
    /\ Goto(w, IF approve THEN "anchor" ELSE "save")
    /\ UNCHANGED <<graph, cr, job, writes, foreign, unwatched, reused>>

\* An approval re-anchors the base, and the ancestor if the row it loaded had
\* one: else the ancestor stays that another approval recorded since.
Anchor(w) ==
    LET j == job[w] IN
    /\ pc[w] = "anchor"
    /\ IF j.row.hash # j.base \/ HasAncestor(j.row)
       THEN cr' = [cr EXCEPT !.hash = j.base,
                             !.values = IF HasAncestor(j.row) THEN BaseValues(j.row.payload) ELSE @]
       ELSE UNCHANGED cr
    /\ unwatched' = IF HasAncestor(j.row) THEN unwatched
                    ELSE unwatched \cup {n \in Nodes : cr.values[n] # None}
    /\ Answer(w)
    /\ UNCHANGED <<graph, appr, writes, endorsed, reused>>

EndedAsDerived == [reject |-> "rejected", close |-> "closed", merge |-> "approved"]
Ended == [reject |-> "rejected", close |-> "closed", merge |-> "merged"]

\* Reject, close, merge: the status is set whatever it is by now.
Save(w) ==
    /\ pc[w] = "save"
    /\ cr' = [cr EXCEPT !.status = Ended[job[w].op]]
    /\ Answer(w)
    /\ UNCHANGED <<graph, appr, writes, endorsed, unwatched, reused>>

---------------------------------------------------------------------------
\* Amend: a new changeset, captured like a new request.

Capture(w) ==
    LET p == job[w].row.payload v == VersionsOf(ScopeOf(p)) IN
    /\ pc[w] = "capture"
    /\ IF ~Valid(p)
       THEN Refuse(w)
       ELSE /\ job' = [job EXCEPT ![w].base = v, ![w].row.want = WantOf(p, v), ![w].row.scope = ScopeOf(p)]
            /\ Goto(w, "store")
            /\ UNCHANGED <<graph, cr, appr, writes, ghost>>

\* The snapshot follows the versions, and an ancestor with nothing in it does
\* not replace the previous one.
Store(w) ==
    LET j == job[w] values == BaseValues(job[w].row.payload) IN
    /\ pc[w] = "store"
    /\ cr' = [cr EXCEPT !.payload = j.row.payload, !.revision = j.row.revision + 1,
                        !.want = j.row.want, !.scope = j.row.scope, !.hash = j.base,
                        !.present = PresentIn(j.base),
                        !.values = IF values # Nothing THEN values ELSE @]
    /\ Answer(w)
    /\ UNCHANGED <<graph, appr, writes, endorsed, unwatched, reused>>

---------------------------------------------------------------------------
\* Merge.

\* The three outcomes of a field, where an ancestor was recorded.
Satisfied(item)      == item.op = "upsert" /\ val[item.node] = item.val
Conflicts(row, item) == /\ item.op = "upsert" /\ row.values[item.node] # None
                        /\ ~Satisfied(item) /\ val[item.node] # row.values[item.node]

\* planMerge keeps the items that still have a field to write.
DropsUnmoved(row, item) == item.op = "delete" \/ row.values[item.node] = val[item.node]
Drops(row, item) == \/ item.op = "delete"
                    \/ row.values[item.node] # None /\ Satisfied(item)

Plan(w) ==
    LET row == job[w].row p == job[w].row.payload IN
    /\ pc[w] = "plan"
    /\ IF HasAncestor(row) /\ \E i \in DOMAIN p : Conflicts(row, p[i])
       THEN Refuse(w)
       ELSE /\ job' = [job EXCEPT ![w].todo =
                          {i \in DOMAIN p : HasAncestor(row) => ~Drops(row, p[i])}]
            /\ Goto(w, "targets")
            /\ UNCHANGED <<graph, cr, appr, writes, ghost>>

\* fetchMergeTargets
Targets(w) ==
    /\ pc[w] = "targets"
    /\ job' = [job EXCEPT ![w].target = ver]
    /\ Goto(w, IF job[w].todo = {} THEN "save" ELSE "apply")
    /\ UNCHANGED <<graph, cr, appr, writes, ghost>>

\* A write of the graph by `who`: the merges under way that have read it see
\* a foreign write, noticed or not.
Unnoticed(w, n) ==
    \/ pc[w] = "plan" /\ job[w].row.values[n] = None
    \/ pc[w] = "targets"
    \/ pc[w] = "apply" /\ job[w].target[n] = 0

Wrote(who, n, version, content) ==
    LET others == {w \in Requests \ {who} : job[w].op = "merge" /\ pc[w] \notin {"state", "done"}} IN
    /\ ver' = [ver EXCEPT ![n] = version]
    /\ val' = [val EXCEPT ![n] = content]
    /\ foreign' = [w \in Requests |-> IF w \in others THEN foreign[w] \cup {n} ELSE foreign[w]]
    /\ unwatched' = IF \E w \in others : Unnoticed(w, n) THEN unwatched \cup {n} ELSE unwatched
    /\ reused' = IF version > ver[n] THEN reused ELSE reused \cup {n}

\* applyItem: an update or delete of the version fetched, an upsert of what was
\* absent.
Fits(w, n) == job[w].target[n] \in {0, ver[n]}

Written(w, item) ==
    LET n == item.node old == job[w].target[item.node] IN
    \/ item.op = "upsert" /\ Wrote(w, n, old + 1, item.val)
    \/ item.op = "delete" /\ old > 0 /\ Wrote(w, n, 0, None)
    \/ item.op = "delete" /\ old = 0 /\ UNCHANGED <<graph, foreign, unwatched, reused>>

\* The items that are left after item i: none after a failure.
Left(w, i, failed) == IF failed THEN {} ELSE job[w].todo \ {i}

Apply(w) ==
    /\ pc[w] = "apply"
    /\ \E i \in job[w].todo :
          LET item == job[w].row.payload[i] IN
          /\ \A k \in job[w].todo : i <= k
          /\ \E outcome \in {"written", "refused"} \cup Faults :
                /\ outcome = "refused" => "refused" \in Faults \/ ~Fits(w, item.node)
                /\ outcome # "refused" => Fits(w, item.node)
                /\ IF outcome = "refused"
                   THEN UNCHANGED <<graph, foreign, unwatched, reused>>
                   ELSE Written(w, item)
                /\ LET failed == outcome # "written" left == Left(w, i, outcome # "written") IN
                   /\ job' = [job EXCEPT ![w].todo = left,
                                 ![w].applied = IF failed THEN @ ELSE @ \cup {item.node},
                                 ![w].failed = failed, ![w].lost = outcome = "lost"]
                   /\ Goto(w, IF failed THEN "rebase" ELSE IF left = {} THEN "save" ELSE "apply")
    /\ UNCHANGED <<cr, appr, writes, endorsed>>

\* rebaseOrStale: the base follows a merge that stopped half-way, if nothing
\* but its own items moved.
Moved(before, after) == {n \in Nodes : before[n] # after[n]}

Rebase(w) ==
    LET j == job[w] after == VersionsOf(job[w].row.scope) IN
    /\ pc[w] = "rebase"
    /\ IF Moved(j.base, after) \subseteq j.applied /\ after # j.row.hash
       THEN /\ cr' = [cr EXCEPT !.hash = after]
            /\ job' = [job EXCEPT ![w].after = after]
            /\ unwatched' = unwatched \cup (foreign[w] \cap j.applied)
            /\ Goto(w, "restamp")
            /\ UNCHANGED foreign
       ELSE Answer(w) /\ UNCHANGED <<cr, unwatched>>
    /\ UNCHANGED <<graph, appr, writes, endorsed, reused>>

\* ... and with it the approvals that counted.
CarriedLate(a, w) == a.decision # "none" /\ a.hash = job[w].after
Carried(a, w)     == a.decision # "none" /\ a.hash = job[w].base

Restamp(w) ==
    /\ pc[w] = "restamp"
    /\ appr' = [u \in Users |->
          IF Carried(appr[u], w) THEN [appr[u] EXCEPT !.hash = job[w].after] ELSE appr[u]]
    /\ Answer(w)
    /\ UNCHANGED <<graph, cr, writes, endorsed, unwatched, reused>>

---------------------------------------------------------------------------
\* The graph is written by others as well, with a version that grows, or anew.
OthersWrite ==
    /\ writes < MaxWrites
    /\ writes' = writes + 1
    /\ \E n \in Nodes :
          \/ \E v \in Vals \ {val[n]} : Exists(n) /\ Wrote(None, n, ver[n] + 1, v)
          \/ \E v \in Vals : Wrote(None, n, 1, v)
          \/ Exists(n) /\ Wrote(None, n, 0, None)
    /\ UNCHANGED <<cr, appr, pc, job, endorsed>>

Next ==
    \/ \E w \in Requests :
          \/ Load(w) \/ State(w) \/ Record(w) \/ Anchor(w) \/ Save(w)
          \/ Capture(w) \/ Store(w)
          \/ Plan(w) \/ Targets(w) \/ Apply(w) \/ Rebase(w) \/ Restamp(w)
    \/ OthersWrite

Spec == Init /\ [][Next]_vars
---------------------------------------------------------------------------
TypeOK ==
    /\ ver \in Versions /\ val \in Content
    /\ cr \in Row /\ appr \in [Users -> Decision]
    /\ pc \in [Requests -> Stages] /\ job \in [Requests -> Job]
    /\ writes \in 0..MaxWrites
    /\ endorsed \subseteq Users \X Proposals \X Content
    /\ foreign \in [Requests -> SUBSET Nodes]
    /\ unwatched \subseteq Nodes /\ reused \subseteq Nodes

\* The people who approved this changeset with content x of n before them; the
\* author only if the policy lets the author through.
Reviewers(p, n, x) ==
    {u \in (Users \ {Author}) \cup Bypassers : \E e \in endorsed : e[1] = u /\ e[2] = p /\ e[3][n] = x}

\* What a merge changes, enough people approved: this changeset, over what it
\* replaces.  The approvals, the amendments, the edits of others and the merge
\* that reads them all interleave; a node is exempt once it was written where
\* the merge does not look, or its version started anew.
ReviewedBeforeApplied ==
    [][\A w \in Requests, n \in Nodes :
         (pc[w] = "apply" /\ job'[w].todo # job[w].todo /\ val'[n] # val[n]
            /\ n \notin unwatched \cup reused)
         => Cardinality(Reviewers(job[w].row.payload, n, val[n])) >= Required]_vars

Holds(item) == val[item.node] = IF item.op = "upsert" THEN item.val ELSE None

Merges(w) == pc[w] = "save" /\ job[w].op = "merge" /\ pc'[w] = "done"

\* A request is marked merged when every item took effect, but for what others
\* wrote meanwhile, and for the deletes of a changeset with an ancestor.
MergedIsApplied ==
    [][\A w \in Requests : Merges(w) =>
         \A i \in DOMAIN job[w].row.payload : LET item == job[w].row.payload[i] IN
            \/ item.node \in foreign[w] \/ Holds(item)
            \/ item.op = "delete" /\ HasAncestor(job[w].row)]_vars

\* A merge that stops half-way, alone, leaves a request that can be merged again.
StoppedAlone(w) ==
    /\ pc[w] \in {"rebase", "restamp"} /\ pc'[w] = "done" /\ ~job[w].lost
    /\ foreign[w] = {} /\ appr = job[w].votes
    /\ cr = IF pc[w] = "rebase" THEN job[w].row ELSE [job[w].row EXCEPT !.hash = job[w].after]

\* ... if no item names a version or is a delete.
RetryKeepsApproval ==
    [][\A w \in Requests :
         (StoppedAlone(w)
            /\ \A i \in DOMAIN cr.payload : cr.payload[i].op = "upsert" /\ ~cr.payload[i].pinned)
         => Mergeable(cr', appr', VersionsOf(cr.scope)')]_vars
=============================================================================
