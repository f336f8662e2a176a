----------------------------- MODULE MCHdiffEncode -----------------------------
(***************************************************************************)
(* Streams of up to two and a half chunks, frames of up to two and a half  *)
(* pieces, and every room HDiffPatch may leave for them.                   *)
(***************************************************************************)
EXTENDS HdiffEncode

MCRequests ==
    [base : {0, RAW_MAX + 1}, target : {0, RAW_MAX + 1}, frame : {[source |-> 1, size |-> 1]}, room : {1}]
    \cup [base : {0}, target : {0}, frame : [source : 0..5, size : 1..5], room : 0..5]
===============================================================================
