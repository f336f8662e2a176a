--------------------------- MODULE MCFrameDecompress ---------------------------
(***************************************************************************)
(* Every input of at most MaxUnits units and MaxOutput bytes, under every  *)
(* bound up to one beyond the limit, with first headers that state no      *)
(* size, the truth, too little and too much; when one states none, what    *)
(* is made of it is any of Claims.                                         *)
(***************************************************************************)
EXTENDS FrameDecompress, MCStreams

CONSTANTS Windows, Claims

\* The header whose window matters is the first unit or the last.
Streams == UNION {Inputs(n, {1, n}, Windows) : n \in 1..MaxUnits}

MCRequests ==
    {r \in [src : Streams, null : {FALSE}, max_output : 0..(FRAME_MAX + 1),
            claimed : Claims \cup 0..MaxOutput] :
        IF r.src.stated[0] = -1 THEN r.claimed \in Claims ELSE r.claimed = r.src.stated[0]}
    \cup [src : {Blank(0), Blank(1), Blank(FRAME_MAX + 1)}, null : BOOLEAN,
          max_output : {0, FRAME_MAX + 1}, claimed : {0}]
===============================================================================
