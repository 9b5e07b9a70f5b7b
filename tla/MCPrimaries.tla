---------------------------- MODULE MCPrimaries ----------------------------
(* Two primaries and one tenant, which its hash puts on the second.         *)
EXTENDS Primaries

TheTenant == [k \in Keys |-> CHOOSE ws \in Workspaces : TRUE]
SecondPrimary == [ws \in Workspaces |-> 3]
GateOne == [ws \in Workspaces |-> 1]
=============================================================================
