--------------------------- MODULE MC_ProcReader ---------------------------
(* An instance of ProcReader with one file of each kind.                   *)
EXTENDS ProcReader
FourFiles == <<"stat", "exe", "maps", "calculations">>
=============================================================================
