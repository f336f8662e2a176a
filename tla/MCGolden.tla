-------------------------------- MODULE MCGolden --------------------------------
(***************************************************************************)
(* Two released tags with two entries each, three processes that import.   *)
(***************************************************************************)
EXTENDS Golden
===============================================================================
