------------------------------ MODULE ExactDecode ------------------------------
(***************************************************************************)
(* What phd_zstd_apply promises (src/native/bridge.h, 56-57 and 64-68): it *)
(* decodes exactly one frame, with a window of at most 2^WINDOW_LOG_MAX    *)
(* and nothing after it, into exactly target bytes, or it fails.  One step *)
(* from the request to a status that depends on the input alone, never on  *)
(* how input and output are cut into chunks.                               *)
(***************************************************************************)
EXTENDS ZstdStream

CONSTANTS Requests, RAW_MAX, PAYLOAD_MAX, WINDOW_LOG_MAX

VARIABLES request, outcome

\* Unit u belongs to the first frame: no frame is completed before it.
InFirst(s, u) == \A e \in s.ends : u <= e

\* The input is one whole frame that decodes to n bytes, and nothing else.
OneFrame(s, n) ==
    /\ s.bad > s.len
    /\ s.ends = {s.len}
    /\ s.cum[s.len] = n

\* Some accepted prefix of the first frame decodes to more than n bytes.
Exceeds(s, n) == \E i \in 0..s.len : i < s.bad /\ InFirst(s, i) /\ s.cum[i] > n

\* The first frame decodes to n bytes or fewer, but it is not OneFrame(s, n).
Mismatch(s, n) ==
    /\ ~OneFrame(s, n)
    /\ \E e \in s.ends : InFirst(s, e) /\ e < s.bad /\ s.cum[e] <= n

\* Unit u is in a first frame whose stated size is n: zstd may decode it in one pass, and
\* then reports that it is malformed however much it decodes to.
InOnePass(s, n, u) == s.stated[0] = n /\ \E e \in s.ends : InFirst(s, e) /\ u <= e

Truncated(s, n) == s.bad > s.len /\ s.ends = {} /\ s.cum[s.len] <= n

\* The statuses a decode of the first frame of s into n bytes may end with.
Decoded(s, n, status) ==
    \/ status = "ALLOC"
    \/ status = "OK" /\ OneFrame(s, n)
    \/ status = "LIMIT" /\ Exceeds(s, n)
    \/ status = "INVALID" /\ (Mismatch(s, n) \/ Truncated(s, n))
    \/ /\ status = "ZSTD"
       /\ s.bad <= s.len /\ InFirst(s, s.bad)
       /\ s.cum[s.bad - 1] <= n + 1 \/ InOnePass(s, n, s.bad)

TooLarge(r) == r.base > RAW_MAX \/ r.target > RAW_MAX \/ r.src.len > PAYLOAD_MAX

\* What the header alone decides, in the order it is decided.
HeaderStatus(r) ==
    CASE r.null                              -> "OPTION"
      [] ~r.null /\ TooLarge(r)              -> "LIMIT"
      [] ~r.null /\ ~TooLarge(r) /\ r.header = "malformed" -> "ZSTD"
      [] ~r.null /\ ~TooLarge(r) /\ r.header \in {"cut", "skippable"} -> "INVALID"
      [] ~r.null /\ ~TooLarge(r) /\ r.header = "frame"  ->
            IF r.src.window > WINDOW_LOG_MAX THEN "LIMIT"
            ELSE IF r.src.stated[0] \notin {-1, r.target} THEN "INVALID" ELSE "DECODE"

Allowed(r, status) ==
    IF HeaderStatus(r) = "DECODE" THEN Decoded(r.src, r.target, status)
    ELSE status = HeaderStatus(r)

Init == request \in Requests /\ outcome = "NONE"

Decode ==
    /\ outcome = "NONE"
    /\ Allowed(request, outcome')
    /\ UNCHANGED request

Spec == Init /\ [][Decode]_<<request, outcome>>
===============================================================================
