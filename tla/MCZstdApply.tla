------------------------------- MODULE MCZstdApply -------------------------------
(***************************************************************************)
(* Every payload of at most MaxUnits units, whose header states the size,  *)
(* another or none, and payloads of two units whose window is refused,     *)
(* into every target size up to one beyond the limit.                      *)
(***************************************************************************)
EXTENDS ZstdApply, MCStreams

Streams == UNION {Inputs(n, {1}, {0}) : n \in 1..MaxUnits} \cup Inputs(2, {1}, {WINDOW_LOG_MAX + 1})

MCRequests ==
    [src : Streams, header : {"frame"}, base : {0},
     target : 0..(RAW_MAX + 1), null : {FALSE}]
    \cup [src : {Blank(n) : n \in 0..(PAYLOAD_MAX + 1)}, header : Headers \ {"frame"},
          base : {0, RAW_MAX + 1}, target : {0, RAW_MAX + 1}, null : BOOLEAN]
===============================================================================
