------------------------------ MODULE MCPorts ------------------------------
(* Ports.tla on small instances for TLC. *)
EXTENDS Ports, TLC

Here == {Wild, Loop, "10.0.0.1"}
TwoHomed == Here \cup {"10.0.0.2"}
Everywhere == Here \cup {"192.0.2.1"}

ServerSymmetry == Permutations(Servers)

Module(keys, beside, binds, publics, deletes, patient, others) ==
  [keys |-> keys, beside |-> beside, binds |-> binds, publics |-> publics,
   deletes |-> deletes, patient |-> patient, aliens |-> others]

\* One module per kind: a query port of its own, a query port beside the main
\* one, a bind address, a public address; users who wait and users who do not.
AloneFleets ==
  {Module({"port", "queryport"}, FALSE, {}, {}, FALSE, TRUE, {}),
   Module({"port"}, TRUE, {}, {}, FALSE, TRUE, {2}),
   Module({"port"}, TRUE, {}, {}, FALSE, FALSE, {}),
   Module({"port"}, FALSE, {Wild, "10.0.0.1", "192.0.2.1"}, {}, TRUE, TRUE, {}),
   Module({"port"}, FALSE, {}, {"192.0.2.1"}, TRUE, FALSE, {})}

\* Servers on the two addresses of the host, with the port in common.
DeletingFleet == {Module({"port"}, FALSE, {"10.0.0.1", "10.0.0.2"}, {}, TRUE, TRUE, {})}
OneKeyFleet == {Module({"port"}, FALSE, {}, {}, FALSE, TRUE, {})}
=============================================================================
