---------------------------- MODULE MCFlowTable ----------------------------
(* Connections for FlowTable: the client begins one, the other is begun    *)
(* from outside; in TwoClients both ends are clients.                      *)
EXTENDS FlowTable

CONSTANTS Client, Neighbour, Router

OneClient == {[init |-> Client, resp |-> Router], [init |-> Router, resp |-> Client]}
TwoClients == {[init |-> Client, resp |-> Neighbour]}

=============================================================================
