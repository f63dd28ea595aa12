---------------------------- MODULE MC_MpServer ----------------------------
(* An instance of MpServer: clients, and one connection for each request.  *)
EXTENDS MpServer
CONSTANTS c1, c2
TwoClients == {c1, c2}
Five == 1..5
=============================================================================
