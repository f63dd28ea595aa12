---------------------------- MODULE MC_Datagram ----------------------------
(***************************************************************************)
(* Datagram for TLC: three clients whose pids have one, four and five      *)
(* digits: addresses are cut by one, three and four bytes, and the longest *)
(* can turn into the second.                                               *)
(***************************************************************************)
EXTENDS Datagram, TLC

Lengths == ("c1" :> 8) @@ ("c2" :> 11) @@ ("c3" :> 12)
=============================================================================
