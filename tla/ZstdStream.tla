------------------------------ MODULE ZstdStream ------------------------------
(***************************************************************************)
(* What src/native/bridge.cpp relies on from zstd's streaming decoder,     *)
(* ZSTD_decompressStream.  zstd is a library outside this repository, so   *)
(* this module states a contract, not an implementation.                   *)
(*                                                                         *)
(* A compressed input is cut into UNITS, the smallest pieces the decoder   *)
(* takes in one go (a header, a block, a checksum, a skippable frame, the  *)
(* last byte of a frame).  An input s is a record                          *)
(*   len     the number of units;                                          *)
(*   cum     cum[i] is how many bytes the first i units decode to;         *)
(*   ends    the units that complete a frame.  zstd keeps the last byte of *)
(*           a frame back until all its output is flushed, so such a unit  *)
(*           adds no output;                                               *)
(*   bad     the first unit that is malformed (corruption, a dictionary,   *)
(*           garbage after a frame), len + 1 when there is none;           *)
(*   head    the frame header that asks for the widest window, window the  *)
(*           base-2 logarithm of that window.  The other headers of the    *)
(*           input are taken to ask for windows every decoder grants;      *)
(*   stated  stated[p] is the content size that the header of the frame    *)
(*           after unit p states, -1 when it states none, or none is       *)
(*           there.  A frame whose size is not the stated one is malformed.*)
(*                                                                         *)
(* A decoder is a record: pos units taken, flushed bytes delivered.  The   *)
(* bytes it has decoded and not yet delivered number cum[pos] - flushed.   *)
(***************************************************************************)
EXTENDS Integers

\* No frame is completed strictly after unit p and before unit q: one call never
\* decodes past the end of a frame.
SameFrame(s, p, q) == \A e \in s.ends : ~(p < e /\ e < q)

\* A frame begins after unit p and ends with unit e.
FrameAt(s, p, e) == p \in {0} \cup s.ends /\ e \in s.ends /\ p < e /\ SameFrame(s, p, e)

IsStream(s) ==
    /\ s.len \in Nat
    /\ s.cum \in [0..s.len -> Nat]
    /\ s.cum[0] = 0
    /\ \A i, j \in 0..s.len : i <= j => s.cum[i] <= s.cum[j]
    /\ s.ends \in SUBSET (1..s.len)
    /\ \A e \in s.ends : s.cum[e] = s.cum[e - 1]
    /\ s.bad \in 1..(s.len + 1)
    /\ s.head \in 1..(s.len + 1)
    /\ s.window \in Nat
    /\ s.stated \in [0..s.len -> Nat \cup {-1}]
    /\ \A p \in 0..s.len, e \in s.ends :
           FrameAt(s, p, e) /\ e < s.bad /\ s.stated[p] # -1 => s.cum[e] - s.cum[p] = s.stated[p]

Fresh == [pos |-> 0, flushed |-> 0]

\* The first unit that decoder, with that window limit (a logarithm), rejects.
TooWide(s, limit, d) == s.window > limit /\ d.pos < s.head /\ s.head < s.bad
Bad(s, limit, d) == IF TooWide(s, limit, d) THEN s.head ELSE s.bad

(***************************************************************************)
(* One call with units d.pos+1 .. avail as input and room bytes of output. *)
(* Output is delivered before further input is taken.  The decoder may     *)
(* stop after any progress; it makes none only when it is starved.  It     *)
(* allocates only while it takes input.                                    *)
(***************************************************************************)
Advances(s, limit, d, r) ==
    /\ r.pos # d.pos \/ r.flushed # d.flushed
    /\ r.pos < Bad(s, limit, d)
    /\ r.flushed <= s.cum[r.pos]
    /\ r.pos > d.pos => s.cum[r.pos - 1] <= r.flushed
    /\ SameFrame(s, d.pos, r.pos)

Starved(s, d, avail) == d.pos = avail /\ d.flushed = s.cum[d.pos]

Rejects(s, limit, d, avail, room) ==
    /\ d.pos < Bad(s, limit, d) /\ Bad(s, limit, d) <= avail
    /\ s.cum[Bad(s, limit, d) - 1] <= d.flushed + room
    /\ SameFrame(s, d.pos, Bad(s, limit, d))

(***************************************************************************)
(* A frame that lies in the input whole, and whose stated size fits the    *)
(* output, may be decoded in one pass, straight into the output.  zstd     *)
(* then allocates no window and does not look at the window limit, and it  *)
(* reports a malformed frame whatever its content takes.                   *)
(***************************************************************************)
OnePass(s, d, avail, room, e) ==
    /\ FrameAt(s, d.pos, e) /\ e <= avail
    /\ d.flushed = s.cum[d.pos]
    /\ s.stated[d.pos] \in 0..room

Passes(s, d, avail, room, r) ==
    /\ OnePass(s, d, avail, room, r.pos) /\ r.pos < s.bad
    /\ r.flushed = s.cum[r.pos]

PassFails(s, d, avail, room) ==
    \E e \in s.ends : OnePass(s, d, avail, room, e) /\ d.pos < s.bad /\ s.bad <= e

\* The outcomes of a call: "done" is the return value 0 (a frame is decoded and
\* flushed), "more" any other hint, the others are zstd error codes.
DecompressStream(s, limit, d, avail, room) ==
    {r \in [pos     : d.pos..avail,
            flushed : d.flushed..(d.flushed + room),
            ret     : {"done", "more", "corrupt", "window", "memory"}] :
        \/ /\ Advances(s, limit, d, r)
           /\ r.ret = IF r.pos # d.pos /\ r.pos \in s.ends THEN "done" ELSE "more"
        \/ r.ret = "done" /\ Passes(s, d, avail, room, r)
        \/ /\ r.pos = d.pos /\ r.flushed = d.flushed
           /\ \/ r.ret = "more" /\ Starved(s, d, avail)
              \/ /\ r.ret = IF TooWide(s, limit, d) THEN "window" ELSE "corrupt"
                 /\ Rejects(s, limit, d, avail, room)
              \/ r.ret = "corrupt" /\ PassFails(s, d, avail, room)
              \/ r.ret = "memory" /\ d.pos < avail}
===============================================================================
