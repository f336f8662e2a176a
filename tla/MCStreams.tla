-------------------------------- MODULE MCStreams --------------------------------
(***************************************************************************)
(* Small inputs for the decoders: every cut into units, every content of   *)
(* the units, every set of frame ends and every place of a malformed unit. *)
(* Headers state no content size, or each the size of its frame, or the    *)
(* first one a size that is not its frame's, which makes it malformed.     *)
(***************************************************************************)
EXTENDS ZstdStream

CONSTANTS MaxUnits, MaxOutput, MaxUnitOutput

Contents(n) ==
    {c \in [0..n -> 0..MaxOutput] :
        /\ c[0] = 0
        /\ \A i \in 1..n : c[i - 1] <= c[i] /\ c[i] <= c[i - 1] + MaxUnitOutput}

Unstated(n) == [p \in 0..n |-> -1]

\* The sizes of the frames of s.
Sizes(s) == [p \in 0..s.len |-> IF \E e \in s.ends : FrameAt(s, p, e)
                                THEN LET e == CHOOSE x \in s.ends : FrameAt(s, p, x) IN s.cum[e] - s.cum[p]
                                ELSE -1]

Forgeries(s) ==
    {[Unstated(s.len) EXCEPT ![0] = n] :
        n \in IF \E e \in s.ends : FrameAt(s, 0, e) /\ e < s.bad THEN {} ELSE {0, MaxUnitOutput}}

Stating(s) == {[s EXCEPT !.stated = f] : f \in {Unstated(s.len), Sizes(s)} \cup Forgeries(s)}

Inputs(n, heads, windows) ==
    UNION {Stating(s) : s \in
        {s \in [len : {n}, cum : Contents(n), ends : SUBSET (1..n), bad : 1..(n + 1),
                head : heads, window : windows, stated : {Unstated(n)}] :
            \A e \in s.ends : s.cum[e] = s.cum[e - 1]}}

\* An input of n units without content.
Blank(n) == [len |-> n, cum |-> [i \in 0..n |-> 0], ends |-> {}, bad |-> n + 1,
             head |-> 1, window |-> 0, stated |-> Unstated(n)]
===============================================================================
