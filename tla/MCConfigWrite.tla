--------------------------- MODULE MCConfigWrite ---------------------------
(* Instances of ConfigWrite for TLC: two servers, the settings of one of     *)
(* them, a cluster node that runs on it.                                     *)
EXTENDS ConfigWrite, TLC

CONSTANTS c1, c2, c3

ServerParts == [n \in {"s", "t", "idrac", "knode"} |->
                   IF n = "idrac" THEN {"s", "t"} ELSE IF n = "knode" THEN {"s"} ELSE {}]
Writes == {"update", "remove"} \X {"idrac"} \cup {<<"update", "s">>} \cup {"create"} \X {"idrac", "knode"}
          \cup {"cascade"} \X {"s", "idrac"}
Alike == Permutations({c1, c2})
=============================================================================
