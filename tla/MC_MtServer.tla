---------------------------- MODULE MC_MtServer ----------------------------
(* Instances of MtServer: clients, and one connection for each request.    *)
EXTENDS MtServer
CONSTANTS c1, c2
TwoClients == {c1, c2}
Four == 1..4
=============================================================================
