------------------------- MODULE MCDivergenceIngest -------------------------
(* Instances of DivergenceIngest for TLC: two fields of one server.          *)
EXTENDS DivergenceIngest

Override(p) == [pair |-> p, value |-> "on"]
OneField  == {Override("ssh")}
TwoFields == {Override("ssh"), Override("dns")}
TwoValues == {Override("ssh"), [pair |-> "ssh", value |-> "off"]}
OneServer == [p \in Pairs |-> "server"]
=============================================================================
