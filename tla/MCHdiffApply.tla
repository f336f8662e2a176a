------------------------------ MODULE MCHdiffApply ------------------------------
(***************************************************************************)
(* Every encoded part of at most MaxUnits units behind a header of one     *)
(* byte, in a delta that states its size or misstates it by one byte, and  *)
(* asking for wide windows when the buffer holds it whole; and headers     *)
(* that do not fit the delta, the buffers or the limits.                   *)
(***************************************************************************)
EXTENDS HdiffApply, MCStreams

Info(compressed, uncompressed) ==
    [valid |-> TRUE, oldDataSize |-> 1, newDataSize |-> 1, stepMemSize |-> 1,
     compressedSize |-> compressed, uncompressedSize |-> uncompressed,
     diffDataPos |-> 1, compressType |-> "zstd"]

Request(s, i) ==
    [base |-> 1, target |-> 1, pn |-> 1 + s.len, null |-> FALSE, part |-> s, info |-> i]

Windows(n) == IF n <= BUFFER THEN {0, WINDOW_LOG_MAX + 1} ELSE {0}

\* What units after a malformed one hold is never decoded: they are taken to hold nothing.
Parts(n) == {s \in Inputs(n, {1}, Windows(n)) : \A i \in s.bad..n : s.cum[i] = s.cum[s.bad - 1]}

Decodable ==
    UNION {{Request(s, Info(s.len, u)) : u \in ((s.cum[s.len] - 1)..(s.cum[s.len] + 1)) \cap 0..MaxOutput} :
           s \in UNION {Parts(n) : n \in 1..MaxUnits}}

\* Headers that lie about one thing, over a part of two units.
Forged ==
    LET i == Info(2, 1) IN
    {i, [i EXCEPT !.valid = FALSE], [i EXCEPT !.oldDataSize = 2], [i EXCEPT !.newDataSize = 0],
     [i EXCEPT !.stepMemSize = STEP_MAX + 1], [i EXCEPT !.uncompressedSize = PAYLOAD_MAX + 1],
     [i EXCEPT !.compressedSize = 1], [i EXCEPT !.compressedSize = 3],
     [i EXCEPT !.compressType = "other"], [i EXCEPT !.compressType = ""],
     [i EXCEPT !.compressedSize = 0, !.uncompressedSize = 2],
     [i EXCEPT !.compressedSize = 0, !.uncompressedSize = 2, !.compressType = ""]}

Headers == {Request(Blank(2), i) : i \in Forged} \cup {[Request(Blank(2), Info(2, 1)) EXCEPT !.info.diffDataPos = 9]}

Oversized ==
    {[Request(Blank(2), Info(2, 1)) EXCEPT !.base = b, !.target = t, !.null = z] :
        b \in {1, RAW_MAX + 1}, t \in {1, RAW_MAX + 1}, z \in BOOLEAN}
    \cup {Request(Blank(PAYLOAD_MAX), Info(PAYLOAD_MAX, 1))}

MCRequests == Decodable \cup Headers \cup Oversized
===============================================================================
