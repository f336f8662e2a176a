---------------------------- MODULE BoundedDecode ----------------------------
(***************************************************************************)
(* What phd_zstd_decompress promises (src/native/bridge.h, lines 20-22 and *)
(* 73-77): one step from the request to an outcome that the compressed     *)
(* input and the bound allow, however the decoder cuts its work and the    *)
(* buffer grows.  bridge.h says that wide windows are refused.  The code   *)
(* keeps less: a frame that needs no window, because its stated size fits  *)
(* the bound, may be decoded in one pass whatever window its header asks   *)
(* for.  Whether it is depends on the room the buffer happens to have.     *)
(***************************************************************************)
EXTENDS ZstdStream

CONSTANTS Requests,    \* the calls considered
          FRAME_MAX,   \* limit of the input and of the bound
          StreamLog    \* windows up to 2^StreamLog are always accepted

VARIABLES request, outcome

NoOutcome == [status |-> "NONE", size |-> 0]

Outcome(status, size) == [status |-> status, size |-> size]

\* Windows above max(2^StreamLog, bound rounded up to a power of two) are refused.
Refused(w, bound) == w > StreamLog /\ 2^(w - 1) >= bound
RefusedAt(s, bound) == IF Refused(s.window, bound) /\ s.head < s.bad THEN s.head ELSE s.bad

\* Unit u is in a frame whose stated size fits in n bytes with all that comes before it:
\* one that may be decoded in one pass.
FitsOnePass(s, u, n) ==
    \E p \in 0..s.len, e \in s.ends :
        /\ FrameAt(s, p, e) /\ p < u /\ u <= e
        /\ s.stated[p] # -1 /\ s.cum[p] + s.stated[p] <= n

\* The units a decode under the bound may stop at: the wide window, or the malformed
\* unit when the frame of the wide window may be decoded in one pass.  One byte is
\* decoded beyond the bound to find out that it is exceeded.
Stops(s, bound) ==
    {RefusedAt(s, bound)} \cup (IF FitsOnePass(s, s.head, bound + 1) THEN {s.bad} ELSE {})

\* The input stops where a frame does.
Complete(s) == s.len \in s.ends

\* Some prefix of the input before unit bad decodes to more than bound bytes.
Exceeds(s, bad, bound) == \E i \in 0..s.len : i < bad /\ s.cum[i] > bound

\* The outcomes a decode of s under the bound may have when it stops at unit bad.  A
\* unit that is rejected is reported as such when at most one byte was produced in
\* excess before it, or when its frame is decoded in one pass.
DecodedTo(s, bound, bad, o) ==
    \/ /\ o = Outcome("OK", s.cum[s.len])
       /\ bad > s.len /\ Complete(s) /\ s.cum[s.len] <= bound
    \/ o = Outcome("LIMIT", 0) /\ Exceeds(s, bad, bound)
    \/ /\ o = Outcome(IF bad < s.bad THEN "WINDOW" ELSE "ZSTD", 0)
       /\ bad <= s.len
       /\ s.cum[bad - 1] <= bound + 1 \/ (bad = s.bad /\ FitsOnePass(s, bad, bound + 1))
    \/ /\ o = Outcome("INVALID", 0)
       /\ bad > s.len /\ ~Complete(s) /\ s.cum[s.len] <= bound

Decoded(s, bound, o) ==
    o = Outcome("ALLOC", 0) \/ \E bad \in Stops(s, bound) : DecodedTo(s, bound, bad, o)

Unreadable(r) == r.null /\ r.src.len > 0
TooLarge(r) == r.src.len > FRAME_MAX \/ r.max_output > FRAME_MAX
Accepted(r) == ~Unreadable(r) /\ ~TooLarge(r) /\ r.src.len > 0

Allowed(r, o) ==
    \/ Unreadable(r) /\ o = Outcome("OPTION", 0)
    \/ ~Unreadable(r) /\ TooLarge(r) /\ o = Outcome("LIMIT", 0)
    \/ ~Unreadable(r) /\ ~TooLarge(r) /\ r.src.len = 0 /\ o = Outcome("INVALID", 0)
    \/ Accepted(r) /\ Decoded(r.src, r.max_output, o)

Init == request \in Requests /\ outcome = NoOutcome

Decode ==
    /\ outcome = NoOutcome
    /\ Allowed(request, outcome')
    /\ UNCHANGED request

Spec == Init /\ [][Decode]_<<request, outcome>>
===============================================================================
