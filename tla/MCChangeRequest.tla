-------------------------- MODULE MCChangeRequest --------------------------
(* Instances of ChangeRequest: a page s with an owned settings node t. *)
EXTENDS ChangeRequest, TLC

CONSTANTS s, t, a, b, author, r1, q1, q2, q3, q4

Owns == s :> {t} @@ t :> {}

Set(n, v, p) == [node |-> n, op |-> "upsert", val |-> v, pinned |-> p]
Del(n) == [node |-> n, op |-> "delete", val |-> a, pinned |-> FALSE]

\* An update and a create, an update alone, a create alone, a delete.
Changesets == {<<Set(s, b, FALSE), Set(t, b, FALSE)>>, <<Set(s, b, TRUE)>>, <<Del(s)>>}
Rivals == {<<Set(s, b, FALSE)>>, <<Set(s, b, FALSE), Set(t, b, FALSE)>>}
Pinned == {<<Set(s, b, TRUE), Set(t, b, TRUE)>>}

AllOps == {"approve", "reject", "close", "amend", "merge"}
Alike == Permutations(Requests)
=============================================================================
