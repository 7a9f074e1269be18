-------------------------- MODULE MCGuardedExport --------------------------
(* Instances of GuardedExport for TLC. *)
EXTENDS GuardedExport

CONSTANTS server, idrac, on, text

At(i) == <<i, 0>>
\* A server with a link out of the data center and its controller, which is on; or
\* the bare server.
Racked == [i \in Nodes |->
             CASE i = server -> Node(At(i), None, 1, {At(idrac), At(Elsewhere)})
               [] i = idrac  -> Node(At(i), on, 1, {})
               [] OTHER      -> Node(At(i), None, 1, {})]
Begin == {Racked, [i \in Nodes \ {idrac} |-> Node(At(i), None, 1, {})]}
Halves == {{idrac}, Nodes \ {idrac}}
=============================================================================
