-------------------------------- MODULE MCRelease --------------------------------
(***************************************************************************)
(* Two versions, and as many commits and runs as two releases, an imported *)
(* corpus and a repeated run need.                                         *)
(***************************************************************************)
EXTENDS Release

CONSTANTS v1, v2
===============================================================================
