------------------------- MODULE FrameDecompressProofs -------------------------
(***************************************************************************)
(* Proofs about FrameDecompress for every set of requests and every value  *)
(* of the limits: its invariants, and that it implements BoundedDecode.    *)
(***************************************************************************)
EXTENDS FrameDecompress, TLAPS

\* The call has passed its checks and has not returned.
Running == pc \in {"window", "reserve", "decode", "release"}

\* Nothing is decoded or stored before the first reservation.
Idle == pc \in {"start", "window", "reserve"} =>
    dec = Fresh /\ size = 0 /\ capacity = 0 /\ data = 0

WindowInv ==
    /\ pc = "start" => window = MinLog
    /\ pc = "window" => window = MinLog \/ 2^(window - 1) < max_output
    /\ pc \in {"reserve", "decode", "release"} =>
           ((src.window > window) <=> Promise!Refused(src.window, max_output))

\* Every live block has one owner: the buffer, the context or the result.
OwnerInv ==
    /\ heap = data + ctx + (IF result.status = "OK" THEN 1 ELSE 0)
    /\ ctx = IF pc \in {"window", "reserve", "decode"} THEN 1 ELSE 0
    /\ pc = "done" => data = 0
    /\ data = 0 /\ pc \in {"decode", "release"} => capacity = 0

\* The decoder may have taken unit q: it is not malformed, and the wide window is ahead
\* of it or was passed with its frame in one go.
Reaches(q) ==
    /\ q < src.bad
    /\ src.window > window /\ src.head < src.bad =>
           q < src.head \/ Promise!FitsOnePass(src, src.head, max_output + 1)

DecoderInv ==
    pc \in {"decode", "release"} =>
        /\ dec.pos \in 0..src.len
        /\ Reaches(dec.pos)
        /\ dec.flushed <= src.cum[dec.pos]
        /\ pc = "decode" /\ dec.pos = src.len => src.len \notin src.ends
        /\ pc = "release" => dec.pos = src.len /\ src.len \in src.ends /\ size = src.cum[src.len]

\* Until the result is released, the buffer stays in proportion to the bound.
Proportion == pc # "done" => 2 * capacity <= 3 * max_output

ResultInv ==
    /\ Running => Promise!Accepted(request)
    /\ pc # "done" => result = NoResult
    /\ pc = "done" => Promise!Allowed(request, result) /\ result # NoResult

Inv ==
    /\ TypeOK /\ InPlace /\ AtMostOneByteBeyond /\ ReservationBounded
    /\ Proportion /\ Idle /\ WindowInv /\ OwnerInv /\ DecoderInv /\ ResultInv

-------------------------------------------------------------------------------
\* The outcomes of a call of the decoder, by the cases its callers tell apart.
LEMMA CallCases ==
    ASSUME NEW s, NEW w, NEW avail \in Nat, NEW n, NEW d, d.pos \in Nat,
           NEW r \in DecompressStream(s, w, d, avail, n)
    PROVE  /\ r.pos \in d.pos..avail /\ r.flushed \in d.flushed..(d.flushed + n)
           /\ r.ret \in {"done", "more", "corrupt", "window", "memory"}
           /\ r.ret \in {"done", "more"} =>
                  \/ Advances(s, w, d, r)
                  \/ r.ret = "done" /\ Passes(s, d, avail, n, r)
                  \/ r.ret = "more" /\ r.pos = d.pos /\ r.flushed = d.flushed
                     /\ Starved(s, d, avail)
           /\ r.ret = "done" => r.pos \in s.ends /\ r.pos # d.pos
           /\ r.ret = "more" /\ r.pos # d.pos => r.pos \notin s.ends
           /\ r.ret = "more" /\ r.pos = d.pos /\ r.flushed = d.flushed => Starved(s, d, avail)
           /\ r.ret = "window" => Rejects(s, w, d, avail, n) /\ TooWide(s, w, d)
           /\ r.ret = "corrupt" =>
                  \/ Rejects(s, w, d, avail, n) /\ ~TooWide(s, w, d)
                  \/ PassFails(s, d, avail, n)
  BY DEF DecompressStream, Advances, Passes, OnePass, FrameAt

\* The types of a request's parts.
LEMMA RequestType ==
    ASSUME request \in Requests
    PROVE  /\ request.null \in BOOLEAN /\ max_output \in Nat /\ request.claimed \in Nat
           /\ src.len \in Nat /\ src.bad \in 1..(src.len + 1) /\ src.head \in 1..(src.len + 1)
           /\ src.window \in Nat /\ src.window <= WINDOW_LOG_MAX + 1
           /\ \A i \in 0..src.len : src.cum[i] \in Nat
           /\ src.ends \subseteq 1..src.len
           /\ \A e \in src.ends : src.cum[e] = src.cum[e - 1]
           /\ \A p \in 0..src.len : src.stated[p] \in Nat \cup {-1}
  BY RequestsAssumption DEF IsRequest, IsStream, src, max_output

LEMMA WithinBound == ASSUME NEW a \in Nat, NEW b \in Nat, a <= b PROVE 2 * a <= 3 * b
  OBVIOUS

LEMMA InitInv == Init => Inv
<1> SUFFICES ASSUME Init PROVE Inv
  OBVIOUS
<1>1. max_output \in Nat
  BY RequestType DEF Init
<1>2. TypeOK
  BY LimitsAssumption DEF Init, TypeOK, Fresh, NoResult, Statuses
<1>3. InPlace /\ AtMostOneByteBeyond /\ ReservationBounded /\ Proportion
  BY <1>1 DEF Init, InPlace, AtMostOneByteBeyond, ReservationBounded, Proportion, Fresh
<1>4. Idle /\ WindowInv /\ DecoderInv
  BY DEF Init, Idle, WindowInv, DecoderInv
<1>5. OwnerInv
  BY DEF Init, OwnerInv, NoResult
<1>6. ResultInv
  BY DEF Init, ResultInv, Running
<1> QED
  BY <1>2, <1>3, <1>4, <1>5, <1>6 DEF Inv

-------------------------------------------------------------------------------
\* The window limit the loop ends with refuses the windows the interface says.
LEMMA WindowLimit ==
    ASSUME Inv, pc = "window", ~NeedsWider
    PROVE  (src.window > max(window, StreamLog)) <=> Promise!Refused(src.window, max_output)
<1> DEFINE w == src.window
<1>1. /\ request \in Requests /\ window \in MinLog..WINDOW_LOG_MAX /\ Promise!Accepted(request)
      /\ window = MinLog \/ 2^(window - 1) < max_output
  BY DEF Inv, TypeOK, WindowInv, ResultInv, Running
<1>2. w \in Nat /\ w <= WINDOW_LOG_MAX + 1 /\ max_output \in Nat
  BY <1>1, RequestType
<1>3. max_output <= FRAME_MAX
  BY <1>1, <1>2, LimitsAssumption DEF Promise!Accepted, Promise!TooLarge, max_output
<1>4. max_output <= 2^window
  <2>1. CASE window < WINDOW_LOG_MAX
    BY <1>1, <1>2, <2>1, LimitsAssumption, WindowAssumption DEF NeedsWider
  <2>2. CASE window = WINDOW_LOG_MAX
    BY <1>2, <1>3, <2>2, LimitsAssumption, WindowAssumption
  <2> QED
    BY <1>1, <2>1, <2>2, LimitsAssumption
<1>5. ASSUME w > max(window, StreamLog) PROVE w > StreamLog /\ 2^(w - 1) >= max_output
  <2>1. w > StreamLog /\ w > window
    BY <1>1, <1>2, <1>5, LimitsAssumption DEF max
  <2>2. window \in 0..WINDOW_LOG_MAX /\ w - 1 \in 0..WINDOW_LOG_MAX /\ window <= w - 1
    BY <1>1, <1>2, <2>1, LimitsAssumption
  <2>3. 2^window <= 2^(w - 1) /\ 2^window \in Nat /\ 2^(w - 1) \in Nat
    BY <2>2, WindowAssumption
  <2> QED
    BY <1>2, <1>4, <2>1, <2>3
<1>6. ASSUME w > StreamLog, 2^(w - 1) >= max_output PROVE w > max(window, StreamLog)
  <2>1. CASE window = MinLog
    BY <1>2, <1>6, <2>1, LimitsAssumption DEF max
  <2>2. CASE window # MinLog /\ w <= window
    <3>1. w - 1 \in 0..WINDOW_LOG_MAX /\ window - 1 \in 0..WINDOW_LOG_MAX /\ w - 1 <= window - 1
      BY <1>1, <1>2, <1>6, <2>2, LimitsAssumption
    <3>2. 2^(w - 1) <= 2^(window - 1) /\ 2^(w - 1) \in Nat /\ 2^(window - 1) \in Nat
      BY <3>1, WindowAssumption
    <3> QED
      BY <1>1, <1>2, <1>6, <2>2, <3>2
  <2>3. CASE w > window
    BY <1>1, <1>2, <1>6, <2>3, LimitsAssumption DEF max
  <2> QED
    BY <1>1, <1>2, <2>1, <2>2, <2>3, LimitsAssumption
<1> QED
  BY <1>5, <1>6 DEF Promise!Refused

\* What the decoder may have taken lies before a unit the interface lets it stop at.
LEMMA BeforeStop ==
    ASSUME Inv, pc \in {"decode", "release"}, NEW q \in Nat, Reaches(q)
    PROVE  \E bad \in Promise!Stops(src, max_output) : q < bad /\ bad \in 1..(src.len + 1)
<1>1. request \in Requests /\ ((src.window > window) <=> Promise!Refused(src.window, max_output))
  BY DEF Inv, TypeOK, WindowInv
<1>2. src.bad \in 1..(src.len + 1) /\ src.head \in 1..(src.len + 1) /\ src.len \in Nat
  BY <1>1, RequestType
<1>3. CASE src.window > window /\ src.head < src.bad
  <2>1. Promise!RefusedAt(src, max_output) = src.head
    BY <1>1, <1>3 DEF Promise!RefusedAt
  <2>2. CASE q < src.head
    BY <1>2, <2>1, <2>2 DEF Promise!Stops
  <2>3. CASE Promise!FitsOnePass(src, src.head, max_output + 1)
    BY <1>2, <2>3 DEF Promise!Stops, Reaches
  <2> QED
    BY <1>3, <2>2, <2>3 DEF Reaches
<1>4. CASE ~(src.window > window /\ src.head < src.bad)
  <2>1. Promise!RefusedAt(src, max_output) = src.bad
    BY <1>1, <1>4 DEF Promise!RefusedAt
  <2> QED
    BY <1>2, <2>1 DEF Promise!Stops, Reaches
<1> QED
  BY <1>3, <1>4

\* A frame the decoder may take in one pass is one whose stated size fits.
LEMMA PassFits ==
    ASSUME Inv, pc = "decode",
           NEW n \in Nat, size + n <= max_output + 1,
           NEW e \in src.ends, OnePass(src, dec, src.len, n, e),
           NEW u \in Nat, dec.pos < u, u <= e
    PROVE  Promise!FitsOnePass(src, u, max_output + 1)
<1>1. /\ request \in Requests /\ dec.pos \in 0..src.len /\ size = dec.flushed
      /\ max_output \in Nat /\ size \in Nat
  BY RequestType DEF Inv, TypeOK, InPlace, DecoderInv
<1>2. src.stated[dec.pos] \in Nat \cup {-1} /\ src.cum[dec.pos] \in Nat /\ src.len \in Nat
  BY <1>1, RequestType
<1>3. /\ FrameAt(src, dec.pos, e) /\ src.cum[dec.pos] = size
      /\ src.stated[dec.pos] \in 0..n
  BY <1>1 DEF OnePass
<1>4. src.stated[dec.pos] # -1 /\ src.cum[dec.pos] + src.stated[dec.pos] <= max_output + 1
  BY <1>1, <1>2, <1>3
<1> QED
  BY <1>1, <1>3, <1>4 DEF Promise!FitsOnePass, FrameAt, SameFrame, Promise!FrameAt, Promise!SameFrame

\* The room a turn of the loop decodes into: some, inside the block and the bound.
LEMMA Room ==
    ASSUME Inv, pc = "decode", size # max_output
    PROVE  /\ room \in 1..(max_output - size)
           /\ grown \in Nat /\ size + room <= grown
           /\ 2 * grown <= 3 * max_output
           /\ grown > 0
           /\ ~Short => grown = capacity /\ data = 1
           /\ size \in Nat /\ max_output \in Nat /\ capacity \in Nat /\ data \in 0..1
           /\ size < max_output
<1>1. /\ request \in Requests /\ size \in Nat /\ capacity \in Nat /\ data \in 0..1
      /\ size <= capacity /\ size <= max_output /\ 2 * capacity <= 3 * max_output
      /\ data = 0 => capacity = 0
  BY DEF Inv, TypeOK, InPlace, OwnerInv, Proportion
<1>2. max_output \in Nat /\ size < max_output
  BY <1>1, RequestType
<1>3. minimum \in 1..(max_output - size)
  BY <1>1, <1>2, LimitsAssumption DEF minimum, min
<1>4. CASE Short
  <2>1. capacity - size < minimum
    BY <1>4 DEF Short
  <2>2. grown = max(size + minimum, capacity + capacity \div 2)
    BY <1>4 DEF grown
  <2>3. capacity < max_output
    BY <1>1, <1>2, <1>3, <2>1
  <2>4. grown \in Nat /\ size + minimum <= grown /\ 2 * grown <= 3 * max_output
    BY <1>1, <1>2, <1>3, <2>2, <2>3 DEF max
  <2>5. room \in 1..(max_output - size) /\ size + room <= grown
    BY <1>1, <1>2, <1>3, <2>4 DEF room, min
  <2> QED
    BY <1>1, <1>2, <1>4, <2>4, <2>5
<1>5. CASE ~Short
  <2>1. ~(capacity - size < minimum) /\ grown = capacity
    BY <1>5 DEF Short, grown
  <2>2. capacity - size >= minimum
    BY <1>1, <1>3, <2>1
  <2>3. room \in 1..(max_output - size) /\ size + room <= grown
    BY <1>1, <1>2, <1>3, <2>1, <2>2 DEF room, min
  <2> QED
    BY <1>1, <1>2, <1>3, <1>5, <2>1, <2>2, <2>3
<1> QED
  BY <1>4, <1>5

\* An exception ends the call with nothing allocated, and with an outcome the
\* interface allows when its status is.
LEMMA ThrowKeepsInv ==
    ASSUME Inv, pc # "done",
           NEW status \in Statuses \ {"OK"}, Throw(status),
           dec' \in [pos : Nat, flushed : Nat], dec'.flushed <= max_output + 1,
           Promise!Allowed(request, PhdResult(status, 0))
    PROVE  Inv'
<1> USE DEF Throw
<1>1. max_output' = max_output /\ result'.status = status /\ result' = [status |-> status, size |-> 0]
  BY DEF max_output, PhdResult
<1>2. heap' = 0 /\ data' = 0 /\ ctx' = 0
  BY DEF Inv, TypeOK, OwnerInv, ResultInv, NoResult
<1>3. TypeOK'
  <2>1. result' \in [status : Statuses \cup {"NONE"}, size : Nat]
    BY <1>1
  <2> QED
    BY <1>2, <2>1 DEF Inv, TypeOK
<1>4. InPlace' /\ AtMostOneByteBeyond' /\ ReservationBounded' /\ Proportion'
  BY <1>1 DEF Inv, InPlace, AtMostOneByteBeyond, ReservationBounded, Proportion
<1>5. Idle' /\ WindowInv' /\ DecoderInv'
  BY DEF Idle, WindowInv, DecoderInv
<1>6. OwnerInv'
  BY <1>1, <1>2 DEF OwnerInv
<1>7. ResultInv'
  <2>1. result' # NoResult
    BY <1>1 DEF NoResult, Statuses
  <2>2. Promise!Allowed(request, result)'
    BY DEF Throw
  <2> QED
    BY <2>1, <2>2 DEF ResultInv, Running
<1> QED
  BY <1>3, <1>4, <1>5, <1>6, <1>7 DEF Inv

\* What every lemma on a step of the loop starts from.
LEMMA Decoding ==
    ASSUME Inv, pc = "decode"
    PROVE  /\ request \in Requests /\ dec \in [pos : 0..src.len, flushed : Nat]
           /\ max_output \in Nat /\ size \in Nat /\ window \in Nat
           /\ size = dec.flushed /\ size <= max_output
           /\ Promise!Accepted(request) /\ result = NoResult /\ ctx = 1
           /\ data \in 0..1 /\ heap = data + 1
           /\ Reaches(dec.pos)
           /\ dec.flushed <= src.cum[dec.pos]
           /\ dec.pos = src.len => src.len \notin src.ends
<1>1. /\ request \in Requests /\ dec \in [pos : Nat, flushed : Nat]
      /\ size \in Nat /\ data \in 0..1 /\ window \in Nat
  BY LimitsAssumption DEF Inv, TypeOK
<1>2. max_output \in Nat
  BY <1>1, RequestType
<1>3. dec.pos \in 0..src.len
  BY DEF Inv, DecoderInv
<1>4. result = NoResult /\ result.status # "OK"
  BY DEF Inv, ResultInv, NoResult
<1>5. ctx = 1 /\ heap = data + 1
  BY <1>1, <1>4 DEF Inv, OwnerInv
<1>6. Promise!Accepted(request)
  BY DEF Inv, ResultInv, Running
<1> QED
  BY <1>1, <1>2, <1>3, <1>4, <1>5, <1>6 DEF Inv, InPlace, DecoderInv

\* Data the decoder rejects with at most n <= bound + 1 - flushed bytes before it
\* is an outcome the interface allows, as is the failure of an allocation.
LEMMA ErrorAllowed ==
    ASSUME Inv, pc = "decode",
           NEW n \in Nat, size + n <= max_output + 1,
           NEW r \in DecompressStream(src, window, dec, src.len, n),
           r.ret \notin {"done", "more"}
    PROVE  /\ ErrorStatus(r.ret) \in Statuses \ {"OK"}
           /\ Promise!Allowed(request, PhdResult(ErrorStatus(r.ret), 0))
<1>0. /\ request \in Requests /\ dec.pos \in Nat /\ dec.flushed = size /\ size \in Nat
      /\ src.len \in Nat /\ src.bad \in 1..(src.len + 1) /\ src.head \in 1..(src.len + 1)
      /\ \A i \in 0..src.len : src.cum[i] \in Nat
      /\ src.ends \subseteq 1..src.len
      /\ max_output \in Nat /\ Reaches(dec.pos) /\ Promise!Accepted(request)
      /\ ((src.window > window) <=> Promise!Refused(src.window, max_output))
  BY Decoding, RequestType DEF Inv, WindowInv
<1>1. CASE r.ret = "memory"
  <2>1. ErrorStatus(r.ret) = "ALLOC"
    BY <1>1 DEF ErrorStatus
  <2> QED
    BY <2>1, Decoding
    DEF Statuses, Promise!Allowed, Promise!Decoded, Promise!Outcome, PhdResult
<1>2. CASE r.ret = "window"
  <2>1. Rejects(src, window, dec, src.len, n) /\ TooWide(src, window, dec)
    BY <1>2, <1>0, CallCases
  <2>2. Promise!RefusedAt(src, max_output) = src.head /\ src.head < src.bad
    BY <1>0, <2>1 DEF TooWide, Promise!RefusedAt
  <2>3. src.head <= src.len /\ src.cum[src.head - 1] <= max_output + 1
    <3>1. src.head <= src.len /\ src.cum[src.head - 1] <= dec.flushed + n
      BY <2>1 DEF Rejects, Bad
    <3>2. src.cum[src.head - 1] \in Nat
      BY <1>0, <3>1
    <3> QED
      BY <1>0, <3>1, <3>2
  <2>4. ErrorStatus(r.ret) = "WINDOW"
    BY <1>2 DEF ErrorStatus
  <2>5. Promise!DecodedTo(src, max_output, src.head, PhdResult("WINDOW", 0))
    BY <2>2, <2>3 DEF Promise!DecodedTo, Promise!Outcome, PhdResult
  <2>6. Promise!Decoded(src, max_output, PhdResult("WINDOW", 0))
    BY <2>2, <2>5 DEF Promise!Decoded, Promise!Stops
  <2> QED
    BY <1>0, <2>4, <2>6 DEF Statuses, Promise!Allowed, src, max_output
<1>3. CASE r.ret = "corrupt"
  <2>1. ErrorStatus(r.ret) = "ZSTD"
    BY <1>3 DEF ErrorStatus
  <2>2. /\ src.bad <= src.len
        /\ src.cum[src.bad - 1] <= max_output + 1 \/ Promise!FitsOnePass(src, src.bad, max_output + 1)
        /\ src.bad \in Promise!Stops(src, max_output)
    <3>1. CASE Rejects(src, window, dec, src.len, n) /\ ~TooWide(src, window, dec)
      <4>1. src.bad <= src.len /\ src.cum[src.bad - 1] <= dec.flushed + n
        BY <3>1 DEF Rejects, Bad
      <4>2. src.cum[src.bad - 1] \in Nat
        BY <1>0, <4>1
      <4>3. src.cum[src.bad - 1] <= max_output + 1
        BY <1>0, <4>1, <4>2
      <4>4. CASE src.window > window /\ src.head < src.bad
        <5>1. ~(dec.pos < src.head)
          BY <3>1, <4>4 DEF TooWide
        <5>2. Promise!FitsOnePass(src, src.head, max_output + 1)
          BY <1>0, <4>4, <5>1 DEF Reaches
        <5> QED
          BY <4>1, <4>3, <5>2 DEF Promise!Stops
      <4>5. CASE ~(src.window > window /\ src.head < src.bad)
        BY <1>0, <4>1, <4>3, <4>5 DEF Promise!Stops, Promise!RefusedAt
      <4> QED
        BY <4>4, <4>5
    <3>2. CASE PassFails(src, dec, src.len, n)
      <4>1. PICK e \in src.ends : OnePass(src, dec, src.len, n, e) /\ dec.pos < src.bad /\ src.bad <= e
        BY <3>2 DEF PassFails
      <4>2. e \in 1..src.len /\ src.bad <= src.len
        BY <1>0, <4>1
      <4>3. Promise!FitsOnePass(src, src.bad, max_output + 1)
        BY <1>0, <4>1, <4>2, PassFits
      <4>4. CASE src.window > window /\ src.head < src.bad
        <5>1. CASE dec.pos < src.head
          <6>1. src.head <= e
            BY <1>0, <4>1, <4>2, <4>4
          <6>2. Promise!FitsOnePass(src, src.head, max_output + 1)
            BY <1>0, <4>1, <5>1, <6>1, PassFits
          <6> QED
            BY <4>2, <4>3, <6>2 DEF Promise!Stops
        <5>2. CASE ~(dec.pos < src.head)
          <6>1. Promise!FitsOnePass(src, src.head, max_output + 1)
            BY <1>0, <4>4, <5>2 DEF Reaches
          <6> QED
            BY <4>2, <4>3, <6>1 DEF Promise!Stops
        <5> QED
          BY <5>1, <5>2
      <4>5. CASE ~(src.window > window /\ src.head < src.bad)
        BY <1>0, <4>2, <4>3, <4>5 DEF Promise!Stops, Promise!RefusedAt
      <4> QED
        BY <4>4, <4>5
    <3> QED
      BY <1>0, <1>3, <3>1, <3>2, CallCases
  <2>3. Promise!DecodedTo(src, max_output, src.bad, PhdResult("ZSTD", 0))
    BY <1>0, <2>2 DEF Promise!DecodedTo, Promise!Outcome, PhdResult
  <2>4. Promise!Decoded(src, max_output, PhdResult("ZSTD", 0))
    BY <2>2, <2>3 DEF Promise!Decoded
  <2> QED
    BY <1>0, <2>1, <2>4 DEF Statuses, Promise!Allowed, src, max_output
<1> QED
  BY <1>0, <1>1, <1>2, <1>3, CallCases

\* A starved decoder that has not met the end of a frame is at an input cut short.
LEMMA StarvedAllowed ==
    ASSUME Inv, pc = "decode", Starved(src, dec, src.len)
    PROVE  Promise!Allowed(request, PhdResult("INVALID", 0))
<1>1. dec.pos = src.len /\ dec.flushed = src.cum[src.len] /\ src.len \notin src.ends
  BY Decoding DEF Starved
<1>2. PICK bad \in Promise!Stops(src, max_output) : src.len < bad /\ bad \in 1..(src.len + 1)
  BY <1>1, Decoding, BeforeStop, RequestType
<1>3. src.cum[src.len] <= max_output /\ bad > src.len
  BY <1>1, <1>2, Decoding, RequestType
<1>4. Promise!DecodedTo(src, max_output, bad, PhdResult("INVALID", 0))
  BY <1>1, <1>3 DEF Promise!DecodedTo, Promise!Complete, Promise!Outcome, PhdResult
<1>5. Promise!Decoded(src, max_output, PhdResult("INVALID", 0))
  BY <1>4 DEF Promise!Decoded
<1> QED
  BY <1>5, Decoding DEF Promise!Allowed, src, max_output

\* A byte delivered past the bound means that the input holds too much.
LEMMA ExcessAllowed ==
    ASSUME Inv, pc = "decode", size = max_output,
           NEW r, Reaches(r.pos), r.flushed <= src.cum[r.pos], r.pos \in 0..src.len,
           r.flushed \in Nat, r.flushed > dec.flushed
    PROVE  Promise!Allowed(request, PhdResult("LIMIT", 0))
<1>1. PICK bad \in Promise!Stops(src, max_output) : r.pos < bad
  BY Decoding, BeforeStop, RequestType
<1>2. src.cum[r.pos] \in Nat /\ src.cum[r.pos] > max_output
  BY Decoding, RequestType
<1>3. Promise!Exceeds(src, bad, max_output)
  BY <1>1, <1>2 DEF Promise!Exceeds
<1>4. Promise!Decoded(src, max_output, PhdResult("LIMIT", 0))
  BY <1>1, <1>3 DEF Promise!Decoded, Promise!DecodedTo, Promise!Outcome, PhdResult
<1> QED
  BY <1>4, Decoding DEF Promise!Allowed, src, max_output

\* Allocation may fail wherever the call has started.
LEMMA AllocAllowed ==
    ASSUME Promise!Accepted(request)
    PROVE  Promise!Allowed(request, PhdResult("ALLOC", 0))
  BY DEF Promise!Allowed, Promise!Decoded, Promise!Outcome, PhdResult

-------------------------------------------------------------------------------
\* One lemma for each group of actions: the step keeps the invariant.
LEMMA StartStep == ASSUME Inv, Refuse \/ CreateContext PROVE Inv'
<1>1. request \in Requests /\ max_output \in Nat /\ src.len \in Nat
  BY RequestType DEF Inv, TypeOK
<1>2. CASE Refuse
  <2>1. /\ pc = "start" /\ pc # "done" /\ dec' = dec /\ dec \in [pos : Nat, flushed : Nat]
        /\ dec.flushed <= max_output + 1
    BY <1>2 DEF Refuse, Inv, TypeOK, AtMostOneByteBeyond
  <2>2. PICK status \in {"OPTION", "LIMIT", "INVALID", "ALLOC"} :
            Throw(status) /\ Promise!Allowed(request, PhdResult(status, 0))
    BY <1>1, <1>2, AllocAllowed
    DEF Refuse, Unreadable, TooLarge, src, max_output, Promise!Allowed, Promise!Unreadable,
        Promise!TooLarge, Promise!Accepted, Promise!Outcome, PhdResult
  <2>3. status \in Statuses \ {"OK"}
    BY DEF Statuses
  <2> QED
    BY <2>1, <2>2, <2>3, ThrowKeepsInv
<1>3. CASE CreateContext
  <2> USE <1>3 DEF CreateContext, buffer
  <2>1. heap = 0 /\ ctx = 0 /\ data = 0 /\ window' = window /\ result = NoResult
    BY DEF Inv, OwnerInv, Idle, ResultInv, NoResult
  <2>2. TypeOK'
    BY <2>1 DEF Inv, TypeOK
  <2>3. InPlace' /\ AtMostOneByteBeyond' /\ ReservationBounded' /\ Proportion' /\ Idle'
    BY DEF Inv, InPlace, AtMostOneByteBeyond, ReservationBounded, Proportion, Idle, max_output
  <2>7. DecoderInv'
    BY DEF DecoderInv
  <2>4. OwnerInv'
    BY <2>1 DEF OwnerInv, NoResult
  <2>5. ResultInv'
    BY <2>1 DEF ResultInv, Running, Promise!Accepted, Promise!Unreadable, Promise!TooLarge,
        Unreadable, TooLarge, src, max_output
  <2>6. WindowInv'
    BY DEF Inv, WindowInv
  <2> QED
    BY <2>2, <2>3, <2>4, <2>5, <2>6, <2>7 DEF Inv
<1> QED
  BY <1>2, <1>3

LEMMA WindowStep == ASSUME Inv, WidenWindow \/ SetWindow PROVE Inv'
<1>1. /\ request \in Requests /\ window \in MinLog..WINDOW_LOG_MAX /\ max_output \in Nat
      /\ pc = "window" /\ request' = request
      /\ UNCHANGED <<dec, size, capacity, data, ctx, heap, result>>
  BY RequestType DEF Inv, TypeOK, WidenWindow, SetWindow, buffer
<1>2. max_output' = max_output /\ src' = src
  BY <1>1 DEF max_output, src
<1>3. pc' \in {"window", "reserve"} /\ window' \in MinLog..WINDOW_LOG_MAX
  BY <1>1, LimitsAssumption DEF WidenWindow, SetWindow, NeedsWider, max
<1>4. /\ TypeOK' /\ InPlace' /\ AtMostOneByteBeyond' /\ ReservationBounded' /\ Proportion'
      /\ Idle' /\ DecoderInv'
  BY <1>1, <1>2, <1>3
  DEF Inv, TypeOK, InPlace, AtMostOneByteBeyond, ReservationBounded, Proportion, Idle, DecoderInv
<1>5. OwnerInv'
  BY <1>1, <1>3 DEF Inv, OwnerInv
<1>6. ResultInv'
  BY <1>1, <1>3 DEF Inv, ResultInv, Running
<1>7. WindowInv'
  <2>1. CASE WidenWindow
    <3>1. pc' = "window" /\ window' - 1 = window /\ 2^window < max_output
      BY <1>1, <2>1, LimitsAssumption DEF WidenWindow, NeedsWider
    <3> QED
      BY <1>2, <3>1 DEF WindowInv
  <2>2. CASE SetWindow
    <3>1. pc' = "reserve" /\ window' = max(window, StreamLog) /\ ~NeedsWider
      BY <2>2 DEF SetWindow
    <3>2. (src.window > window') <=> Promise!Refused(src.window, max_output)
      BY <1>1, <3>1, WindowLimit
    <3> QED
      BY <1>2, <3>1, <3>2 DEF WindowInv, Promise!Refused
  <2> QED
    BY <2>1, <2>2
<1> QED
  BY <1>4, <1>5, <1>6, <1>7 DEF Inv

LEMMA ReserveStep == ASSUME Inv, Reserve \/ ReserveFails PROVE Inv'
<1>1. /\ request \in Requests /\ max_output \in Nat /\ src.len \in Nat /\ pc = "reserve"
      /\ \A i \in 0..src.len : src.cum[i] \in Nat
      /\ request.claimed \in Nat
  BY RequestType DEF Inv, TypeOK, Reserve, ReserveFails
<1>2. /\ dec = Fresh /\ size = 0 /\ capacity = 0 /\ data = 0 /\ ctx = 1 /\ heap = 1
      /\ result = NoResult /\ Promise!Accepted(request) /\ dec \in [pos : Nat, flushed : Nat]
      /\ dec.flushed <= max_output + 1
  BY <1>1 DEF Inv, TypeOK, Idle, OwnerInv, ResultInv, Running, NoResult, AtMostOneByteBeyond
<1>3. CASE ReserveFails
  <2>1. Throw("ALLOC") /\ dec' = dec /\ pc # "done"
    BY <1>1, <1>3 DEF ReserveFails
  <2> QED
    BY <1>2, <2>1, AllocAllowed, ThrowKeepsInv DEF Statuses
<1>4. CASE Reserve
  <2>1. /\ reservation \in 0..max_output /\ pc' = "decode"
        /\ UNCHANGED <<request, window, dec, size, ctx, result>>
        /\ max_output' = max_output /\ src' = src
    BY <1>1, <1>4, LimitsAssumption DEF Reserve, reservation, min, max_output, src
  <2>2. /\ capacity' \in 0..max_output /\ data' \in 0..1 /\ heap' = 1 + data'
        /\ data' = 0 => capacity' = 0
        /\ capacity' \in Nat /\ heap' \in 0..2 /\ size' = 0 /\ dec'.flushed = 0
    BY <1>1, <1>2, <1>4, <2>1 DEF Reserve, GrowTo, Fresh
  <2>3. TypeOK'
    <3>1. window' \in MinLog..WINDOW_LOG_MAX /\ result' \in [status : Statuses \cup {"NONE"}, size : Nat]
      BY <2>1 DEF Inv, TypeOK
    <3>2. dec' \in [pos : Nat, flushed : Nat] /\ size' \in Nat /\ ctx' \in 0..1
      BY <1>2, <2>1
    <3> QED
      BY <1>1, <2>1, <2>2, <3>1, <3>2 DEF TypeOK
  <2>4. InPlace' /\ AtMostOneByteBeyond' /\ ReservationBounded' /\ Proportion' /\ Idle'
    <3>1. capacity' \in Nat /\ capacity' <= max_output
      BY <1>1, <2>2
    <3>2. 2 * capacity' <= 3 * max_output
      BY <1>1, <3>1, WithinBound
    <3>3. ReservationBounded' /\ Proportion'
      BY <2>1, <3>2 DEF ReservationBounded, Proportion
    <3>4. InPlace' /\ AtMostOneByteBeyond'
      BY <1>1, <2>1, <2>2 DEF InPlace, AtMostOneByteBeyond
    <3> QED
      BY <2>1, <3>3, <3>4 DEF Idle
  <2>5. WindowInv'
    BY <1>1, <2>1 DEF Inv, WindowInv, Promise!Refused
  <2>6. OwnerInv'
    BY <1>2, <2>1, <2>2 DEF OwnerInv, NoResult
  <2>7. ResultInv'
    BY <1>2, <2>1 DEF ResultInv, Running
  <2>8. DecoderInv'
    <3>1. src.len > 0
      BY <1>2 DEF Promise!Accepted, src
    <3>2. 0 < src.bad /\ 0 < src.head /\ dec'.pos = 0 /\ dec'.flushed = 0 /\ src.cum[0] \in Nat
      BY <1>1, <1>2, <2>1, RequestType DEF Fresh
    <3>3. Reaches(dec.pos)'
      BY <2>1, <3>2 DEF Reaches
    <3> QED
      BY <1>1, <2>1, <3>1, <3>2, <3>3 DEF DecoderInv
  <2> QED
    BY <2>3, <2>4, <2>5, <2>6, <2>7, <2>8 DEF Inv
<1> QED
  BY <1>3, <1>4

\* A turn of the loop below the bound that fails.
LEMMA PartFailsStep == ASSUME Inv, SpareFails \/ DecodePartFails PROVE Inv'
<1>1. /\ pc = "decode" /\ pc # "done" /\ size # max_output /\ dec' = dec
      /\ dec \in [pos : Nat, flushed : Nat] /\ dec.flushed <= max_output + 1
  BY DEF SpareFails, DecodePartFails, Inv, TypeOK, AtMostOneByteBeyond
<1>2. room \in Nat /\ size + room <= max_output + 1
  BY <1>1, Room
<1>4. src.len \in Nat /\ dec.pos \in Nat
  BY <1>1, Decoding, RequestType
<1>3. PICK status \in Statuses \ {"OK"} :
          Throw(status) /\ Promise!Allowed(request, PhdResult(status, 0))
  <2>1. CASE SpareFails
    <3>1. Throw("ALLOC") /\ "ALLOC" \in Statuses \ {"OK"}
      BY <2>1 DEF SpareFails, Statuses
    <3> QED
      BY <1>1, <3>1, AllocAllowed, Decoding
  <2>2. CASE DecodePartFails
    <3>1. PICK r \in DecompressStream(src, window, dec, src.len, room) :
            \/ r.ret \notin {"done", "more"} /\ Throw(ErrorStatus(r.ret))
            \/ r.ret = "more" /\ r.pos = dec.pos /\ r.flushed = dec.flushed /\ Throw("INVALID")
      BY <2>2 DEF DecodePartFails
    <3>2. CASE r.ret \notin {"done", "more"}
      <4>1. Throw(ErrorStatus(r.ret))
        BY <3>1, <3>2
      <4> QED
        BY <1>1, <1>2, <3>2, <4>1, ErrorAllowed
    <3>3. CASE r.ret = "more" /\ r.pos = dec.pos /\ r.flushed = dec.flushed
      <4>1. Starved(src, dec, src.len)
        BY <1>4, <3>3, CallCases
      <4>2. Throw("INVALID") /\ "INVALID" \in Statuses \ {"OK"}
        BY <3>1, <3>3 DEF Statuses
      <4> QED
        BY <1>1, <4>1, <4>2, StarvedAllowed
    <3> QED
      BY <3>1, <3>2, <3>3
  <2> QED
    BY <2>1, <2>2
<1> QED
  BY <1>1, <1>3, ThrowKeepsInv

\* What a call that goes on or ends the input leaves behind.
LEMMA TurnDecoder ==
    ASSUME Inv, pc = "decode",
           NEW n \in Nat, size + n <= max_output + 1,
           NEW r \in DecompressStream(src, window, dec, src.len, n),
           r.ret \in {"done", "more"},
           r.ret = "done" \/ r.pos # dec.pos \/ r.flushed # dec.flushed
    PROVE  /\ r.pos \in 0..src.len /\ r.flushed \in dec.flushed..(dec.flushed + n)
           /\ r.flushed \in Nat
           /\ Reaches(r.pos) /\ r.flushed <= src.cum[r.pos]
           /\ r.ret = "done" /\ r.pos = src.len =>
                  src.len \in src.ends /\ r.flushed = src.cum[src.len]
           /\ ~(r.ret = "done" /\ r.pos = src.len) =>
                  (r.pos = src.len => src.len \notin src.ends)
<1>1. /\ dec \in [pos : 0..src.len, flushed : Nat] /\ window \in Nat /\ request \in Requests
      /\ src.len \in Nat /\ dec.pos \in Nat /\ Reaches(dec.pos)
      /\ src.bad \in Nat /\ src.head \in 1..(src.len + 1)
      /\ \A i \in 0..src.len : src.cum[i] \in Nat
      /\ dec.pos = src.len => src.len \notin src.ends
  BY Decoding, RequestType
<1>2. r.pos \in dec.pos..src.len /\ r.flushed \in dec.flushed..(dec.flushed + n)
  BY <1>1, CallCases
<1>3. Advances(src, window, dec, r) \/ (r.ret = "done" /\ Passes(src, dec, src.len, n, r))
  BY <1>1, CallCases
<1>4. Reaches(r.pos) /\ r.flushed <= src.cum[r.pos]
  <2>1. CASE Advances(src, window, dec, r)
    <3>1. r.pos < Bad(src, window, dec) /\ r.flushed <= src.cum[r.pos]
      BY <2>1 DEF Advances
    <3>2. CASE TooWide(src, window, dec)
      BY <1>1, <1>2, <3>1, <3>2 DEF Bad, TooWide, Reaches
    <3>3. CASE ~TooWide(src, window, dec)
      BY <1>1, <1>2, <3>1, <3>3 DEF Bad, TooWide, Reaches
    <3> QED
      BY <3>1, <3>2, <3>3
  <2>2. CASE Passes(src, dec, src.len, n, r)
    <3>1. /\ OnePass(src, dec, src.len, n, r.pos) /\ r.pos < src.bad /\ r.pos \in src.ends
          /\ r.flushed = src.cum[r.pos] /\ r.pos \in Nat
      BY <1>1, <1>2, <2>2 DEF Passes, OnePass, FrameAt
    <3>2. ASSUME dec.pos < src.head, src.head <= r.pos
          PROVE  Promise!FitsOnePass(src, src.head, max_output + 1)
      BY <1>1, <3>1, <3>2, PassFits
    <3>3. Reaches(r.pos)
      BY <1>1, <3>1, <3>2 DEF Reaches
    <3> QED
      BY <1>1, <1>2, <3>1, <3>3
  <2> QED
    BY <1>3, <2>1, <2>2
<1>5. ASSUME r.ret = "done", r.pos = src.len
      PROVE  src.len \in src.ends /\ r.flushed = src.cum[src.len]
  <2>1. src.len \in src.ends /\ r.pos # dec.pos /\ src.cum[src.len] \in Nat
    BY <1>1, <1>5, CallCases
  <2>2. CASE Advances(src, window, dec, r)
    <3>1. src.cum[src.len - 1] <= r.flushed /\ src.cum[src.len] = src.cum[src.len - 1]
      BY <1>1, <1>2, <1>5, <2>1, <2>2, RequestType DEF Advances
    <3> QED
      BY <1>1, <1>2, <1>4, <1>5, <2>1, <3>1
  <2>3. CASE Passes(src, dec, src.len, n, r)
    BY <1>5, <2>1, <2>3 DEF Passes
  <2> QED
    BY <1>3, <2>2, <2>3
<1>6. ASSUME ~(r.ret = "done" /\ r.pos = src.len), r.pos = src.len PROVE src.len \notin src.ends
  BY <1>1, <1>6, CallCases
<1> QED
  BY <1>1, <1>2, <1>4, <1>5, <1>6

\* A turn at the bound that fails.
LEMMA FullFailsStep == ASSUME Inv, DecodeFullFails PROVE Inv'
<1>1. pc = "decode" /\ pc # "done" /\ size = max_output
  BY DEF DecodeFullFails
<1>2. /\ dec \in [pos : 0..src.len, flushed : Nat] /\ window \in Nat /\ request \in Requests
      /\ size = dec.flushed /\ max_output \in Nat /\ size + 1 <= max_output + 1
      /\ src.len \in Nat
  BY <1>1, Decoding, RequestType
<1>3. PICK r \in DecompressStream(src, window, dec, src.len, 1) :
        \/ /\ r.ret \notin {"done", "more"}
           /\ Throw(ErrorStatus(r.ret))
           /\ UNCHANGED dec
        \/ /\ r.ret \in {"done", "more"} /\ r.flushed # dec.flushed
           /\ Throw("LIMIT")
           /\ dec' = [pos |-> r.pos, flushed |-> r.flushed]
        \/ /\ r.ret = "more" /\ r.flushed = dec.flushed /\ r.pos = dec.pos
           /\ Throw("INVALID")
           /\ UNCHANGED dec
  BY DEF DecodeFullFails
<1>4. r.pos \in 0..src.len /\ r.flushed \in Nat /\ r.flushed \in dec.flushed..(dec.flushed + 1)
  BY <1>2, CallCases
<1>5. CASE r.ret \notin {"done", "more"}
  <2>1. Throw(ErrorStatus(r.ret)) /\ dec' = dec
    BY <1>3, <1>5
  <2>2. /\ ErrorStatus(r.ret) \in Statuses \ {"OK"}
        /\ Promise!Allowed(request, PhdResult(ErrorStatus(r.ret), 0))
    BY <1>1, <1>2, <1>5, ErrorAllowed
  <2> QED
    BY <1>1, <1>2, <2>1, <2>2, ThrowKeepsInv DEF Inv, TypeOK, AtMostOneByteBeyond
<1>6. CASE r.ret \in {"done", "more"} /\ r.flushed # dec.flushed
  <2>1. Throw("LIMIT") /\ dec' = [pos |-> r.pos, flushed |-> r.flushed]
    BY <1>3, <1>6
  <2>2. r.flushed > dec.flushed /\ r.flushed <= max_output + 1
    BY <1>1, <1>2, <1>4, <1>6
  <2>3. Reaches(r.pos) /\ r.flushed <= src.cum[r.pos]
    BY <1>1, <1>2, <1>6, TurnDecoder
  <2>4. Promise!Allowed(request, PhdResult("LIMIT", 0))
    BY <1>1, <1>4, <2>2, <2>3, ExcessAllowed
  <2>5. "LIMIT" \in Statuses \ {"OK"}
    BY DEF Statuses
  <2>6. dec' \in [pos : Nat, flushed : Nat] /\ dec'.flushed <= max_output + 1
    BY <1>2, <1>4, <2>1, <2>2
  <2> QED
    BY <1>1, <2>1, <2>4, <2>5, <2>6, ThrowKeepsInv
<1>7. CASE r.ret = "more" /\ r.flushed = dec.flushed /\ r.pos = dec.pos
  <2>1. Throw("INVALID") /\ dec' = dec /\ "INVALID" \in Statuses \ {"OK"}
    BY <1>3, <1>7 DEF Statuses
  <2>2. Starved(src, dec, src.len)
    BY <1>2, <1>7, CallCases
  <2>3. Promise!Allowed(request, PhdResult("INVALID", 0))
    BY <1>1, <2>2, StarvedAllowed
  <2> QED
    BY <1>1, <2>1, <2>3, ThrowKeepsInv DEF Inv, TypeOK, AtMostOneByteBeyond
<1> QED
  BY <1>3, <1>5, <1>6, <1>7

\* A turn that succeeds, whichever branch it takes: the decoder has advanced, the
\* buffer has taken what it delivered, and a block that was missing is there.
LEMMA TurnKeepsInv ==
    ASSUME Inv, pc = "decode", UNCHANGED <<request, window, result>>,
           dec' \in [pos : 0..src.len, flushed : Nat],
           Reaches(dec'.pos), dec'.flushed <= src.cum[dec'.pos],
           size' = dec'.flushed, size' <= max_output,
           capacity' \in Nat, size' <= capacity', 2 * capacity' <= 3 * max_output,
           data' \in 0..1, data' = 0 => capacity' = 0,
           heap' = data' + ctx',
           \/ /\ pc' = "release" /\ ctx' = 0
              /\ dec'.pos = src.len /\ src.len \in src.ends /\ size' = src.cum[src.len]
           \/ /\ pc' = "decode" /\ ctx' = 1
              /\ dec'.pos = src.len => src.len \notin src.ends
    PROVE  Inv'
<1>1. max_output' = max_output /\ src' = src
  BY DEF max_output, src
<1>2. max_output \in Nat /\ result = NoResult /\ Promise!Accepted(request) /\ src.len \in Nat
  BY Decoding, RequestType
<1>3. TypeOK'
  <2>1. window' \in MinLog..WINDOW_LOG_MAX /\ result' \in [status : Statuses \cup {"NONE"}, size : Nat]
        /\ request' \in Requests
    BY DEF Inv, TypeOK
  <2>2. dec' \in [pos : Nat, flushed : Nat]
    BY <1>2
  <2>3. size' \in Nat /\ ctx' \in 0..1 /\ heap' \in 0..2
    BY <2>2
  <2> QED
    BY <2>1, <2>2, <2>3 DEF TypeOK
<1>4. InPlace' /\ AtMostOneByteBeyond' /\ ReservationBounded' /\ Proportion' /\ Idle'
  <2>1. dec'.flushed <= max_output + 1
    BY <1>2
  <2> QED
    BY <1>1, <2>1 DEF InPlace, AtMostOneByteBeyond, ReservationBounded, Proportion, Idle
<1>5. WindowInv'
  BY <1>1 DEF Inv, WindowInv, Promise!Refused
<1>6. OwnerInv'
  <2>1. result'.status # "OK"
    BY <1>2 DEF NoResult
  <2> QED
    BY <2>1 DEF OwnerInv
<1>7. DecoderInv'
  <2>1. Reaches(dec.pos)'
    BY <1>1 DEF Reaches, Promise!FitsOnePass, Promise!FrameAt, Promise!SameFrame
  <2> QED
    BY <1>1, <2>1 DEF DecoderInv
<1>8. ResultInv'
  BY <1>2 DEF ResultInv, Running
<1> QED
  BY <1>3, <1>4, <1>5, <1>6, <1>7, <1>8 DEF Inv

LEMMA PartStep == ASSUME Inv, DecodePart PROVE Inv'
<1>1. pc = "decode" /\ size # max_output /\ UNCHANGED <<request, window, result>>
  BY DEF DecodePart
<1>2. PICK r \in DecompressStream(src, window, dec, src.len, room) :
        /\ r.ret \in {"done", "more"}
        /\ dec' = [pos |-> r.pos, flushed |-> r.flushed]
        /\ size' = size + (r.flushed - dec.flushed)
        /\ \/ /\ r.ret = "done" /\ r.pos = src.len
              /\ Return
              /\ capacity' = grown /\ data' = 1
              /\ heap' = heap + (1 - data) - ctx
           \/ /\ ~(r.ret = "done" /\ r.pos = src.len)
              /\ r.pos # dec.pos \/ r.flushed # dec.flushed
              /\ Spare
              /\ UNCHANGED <<pc, ctx>>
  BY DEF DecodePart
<1>3. /\ room \in 1..(max_output - size) /\ room \in Nat
      /\ grown \in Nat /\ size + room <= grown /\ 2 * grown <= 3 * max_output /\ grown > 0
      /\ ~Short => grown = capacity /\ data = 1
      /\ size \in Nat /\ max_output \in Nat /\ size = dec.flushed
      /\ data \in 0..1 /\ heap = data + 1 /\ ctx = 1
  BY <1>1, Room, Decoding
<1>4. capacity' = grown /\ data' = 1 /\ heap' = data' + ctx'
  BY <1>2, <1>3 DEF Return, Spare, GrowTo
<1>5. r.ret = "done" \/ r.pos # dec.pos \/ r.flushed # dec.flushed
  BY <1>2
<1>9. size + room <= max_output + 1
  BY <1>3
<1>6. /\ r.pos \in 0..src.len /\ r.flushed \in dec.flushed..(dec.flushed + room)
      /\ r.flushed \in Nat /\ Reaches(r.pos) /\ r.flushed <= src.cum[r.pos]
      /\ r.ret = "done" /\ r.pos = src.len => src.len \in src.ends /\ r.flushed = src.cum[src.len]
      /\ ~(r.ret = "done" /\ r.pos = src.len) => (r.pos = src.len => src.len \notin src.ends)
  BY <1>1, <1>2, <1>3, <1>5, <1>9, TurnDecoder
<1>7. size' = r.flushed /\ size' <= max_output /\ size' <= grown
  BY <1>2, <1>3, <1>6
<1>8. \/ /\ pc' = "release" /\ ctx' = 0
         /\ r.pos = src.len /\ src.len \in src.ends /\ size' = src.cum[src.len]
      \/ /\ pc' = "decode" /\ ctx' = 1
         /\ r.pos = src.len => src.len \notin src.ends
  BY <1>1, <1>2, <1>3, <1>6, <1>7 DEF Return
<1> QED
  BY <1>1, <1>2, <1>3, <1>4, <1>6, <1>7, <1>8, TurnKeepsInv

LEMMA FullStep == ASSUME Inv, DecodeFull PROVE Inv'
<1>1. pc = "decode" /\ size = max_output /\ UNCHANGED <<request, window, buffer, result>>
  BY DEF DecodeFull
<1>2. PICK r \in DecompressStream(src, window, dec, src.len, 1) :
        /\ r.ret \in {"done", "more"}
        /\ r.flushed = dec.flushed
        /\ dec' = [pos |-> r.pos, flushed |-> r.flushed]
        /\ \/ /\ r.ret = "done" /\ r.pos = src.len
              /\ Return
              /\ heap' = heap - ctx
           \/ /\ ~(r.ret = "done" /\ r.pos = src.len)
              /\ r.pos # dec.pos
              /\ UNCHANGED <<pc, ctx, heap>>
  BY DEF DecodeFull
<1>3. /\ size \in Nat /\ max_output \in Nat /\ size = dec.flushed
      /\ data \in 0..1 /\ heap = data + 1 /\ ctx = 1
      /\ UNCHANGED <<size, capacity, data>>
  BY <1>1, Decoding DEF buffer
<1>4. /\ capacity \in Nat /\ size <= capacity /\ 2 * capacity <= 3 * max_output
      /\ data = 0 => capacity = 0
  BY <1>1 DEF Inv, TypeOK, InPlace, Proportion, OwnerInv
<1>5. r.ret = "done" \/ r.pos # dec.pos \/ r.flushed # dec.flushed
  BY <1>2
<1>6. /\ r.pos \in 0..src.len /\ r.flushed \in Nat
      /\ Reaches(r.pos) /\ r.flushed <= src.cum[r.pos]
      /\ r.ret = "done" /\ r.pos = src.len => src.len \in src.ends /\ r.flushed = src.cum[src.len]
      /\ ~(r.ret = "done" /\ r.pos = src.len) => (r.pos = src.len => src.len \notin src.ends)
  BY <1>1, <1>2, <1>3, <1>5, TurnDecoder
<1>7. \/ /\ pc' = "release" /\ ctx' = 0 /\ heap' = data' + ctx'
         /\ r.pos = src.len /\ src.len \in src.ends /\ size' = src.cum[src.len]
      \/ /\ pc' = "decode" /\ ctx' = 1 /\ heap' = data' + ctx'
         /\ r.pos = src.len => src.len \notin src.ends
  BY <1>1, <1>2, <1>3, <1>6 DEF Return
<1> QED
  BY <1>1, <1>2, <1>3, <1>4, <1>6, <1>7, TurnKeepsInv

LEMMA ReleaseStep == ASSUME Inv, Release \/ ReleaseFails PROVE Inv'
<1>1. /\ pc = "release" /\ pc # "done" /\ dec' = dec
      /\ dec \in [pos : Nat, flushed : Nat] /\ dec.flushed <= max_output + 1
      /\ Promise!Accepted(request) /\ result = NoResult /\ request \in Requests
      /\ size \in Nat /\ size <= max_output
      /\ dec.pos = src.len /\ src.len \in src.ends /\ size = src.cum[src.len]
      /\ Reaches(dec.pos) /\ data \in 0..1 /\ heap = data + ctx /\ ctx = 0
      /\ capacity \in Nat /\ 2 * capacity <= 3 * max_output
  BY DEF Release, ReleaseFails, Inv, TypeOK, AtMostOneByteBeyond, InPlace, DecoderInv, ResultInv,
         OwnerInv, Proportion, Running, NoResult
<1>2. CASE ReleaseFails
  <2>1. Throw("ALLOC") /\ "ALLOC" \in Statuses \ {"OK"}
    BY <1>2 DEF ReleaseFails, Statuses
  <2> QED
    BY <1>1, <2>1, AllocAllowed, ThrowKeepsInv
<1>3. CASE Release
  <2>1. /\ result' = [status |-> "OK", size |-> size] /\ data' = 0 /\ heap' = 1 /\ pc' = "done"
        /\ UNCHANGED <<request, window, dec, size, ctx>>
        /\ capacity' = 1 \/ capacity' = capacity
        /\ max_output' = max_output
    BY <1>1, <1>3 DEF Release, PhdResult, max_output
  <2>2. Promise!Allowed(request, [status |-> "OK", size |-> size])
    <3>1. PICK bad \in Promise!Stops(src, max_output) : src.len < bad /\ bad \in 1..(src.len + 1)
      BY <1>1, BeforeStop
    <3>3. bad > src.len
      BY <1>1, <3>1, RequestType
    <3>2. Promise!Decoded(src, max_output, [status |-> "OK", size |-> size])
      BY <1>1, <3>1, <3>3 DEF Promise!Decoded, Promise!DecodedTo, Promise!Complete, Promise!Outcome
    <3> QED
      BY <1>1, <3>2 DEF Promise!Allowed, src, max_output
  <2>3. TypeOK'
    <3>1. result' \in [status : Statuses \cup {"NONE"}, size : Nat]
      BY <1>1, <2>1 DEF Statuses
    <3> QED
      BY <1>1, <2>1, <3>1 DEF Inv, TypeOK
  <2>4. InPlace' /\ AtMostOneByteBeyond' /\ Proportion' /\ Idle' /\ WindowInv' /\ DecoderInv'
    BY <2>1 DEF Inv, InPlace, AtMostOneByteBeyond, Proportion, Idle, WindowInv, DecoderInv
  <2>7. ReservationBounded'
    BY <1>1, <2>1 DEF ReservationBounded
  <2>5. OwnerInv'
    BY <1>1, <2>1 DEF OwnerInv
  <2>6. ResultInv'
    BY <2>1, <2>2 DEF ResultInv, Running, NoResult
  <2> QED
    BY <2>3, <2>4, <2>5, <2>6, <2>7 DEF Inv
<1> QED
  BY <1>2, <1>3

LEMMA StutterStep == ASSUME Inv, UNCHANGED vars PROVE Inv'
<1> USE DEF vars, max_output, src
<1>1. TypeOK' /\ InPlace' /\ AtMostOneByteBeyond' /\ ReservationBounded' /\ Proportion' /\ Idle'
  BY DEF Inv, TypeOK, InPlace, AtMostOneByteBeyond, ReservationBounded, Proportion, Idle
<1>2. WindowInv'
  BY DEF Inv, WindowInv, Promise!Refused
<1>3. OwnerInv' /\ ResultInv'
  BY DEF Inv, OwnerInv, ResultInv, Running
<1>4. DecoderInv'
  BY DEF Inv, DecoderInv, Reaches, Promise!FitsOnePass, Promise!FrameAt, Promise!SameFrame
<1> QED
  BY <1>1, <1>2, <1>3, <1>4 DEF Inv

LEMMA NextInv == ASSUME Inv, [Next]_vars PROVE Inv'
  BY StartStep, WindowStep, ReserveStep, PartFailsStep, PartStep, FullStep, FullFailsStep,
     ReleaseStep, StutterStep
  DEF Next

-------------------------------------------------------------------------------
\* The invariant holds in every state of every call.
THEOREM Invariance == Spec => []Inv
<1>1. Init => Inv
  BY InitInv
<1>2. Inv /\ [Next]_vars => Inv'
  BY NextInv
<1> QED
  BY <1>1, <1>2, PTL DEF Spec

\* Every variable keeps its type.
THEOREM TypeCorrect == Spec => []TypeOK
<1>1. Inv => TypeOK
  BY DEF Inv
<1> QED
  BY <1>1, Invariance, PTL

\* The buffer holds what the decoder delivered, inside its block and the bound.
THEOREM Safety == Spec => []InPlace
<1>1. Inv => InPlace
  BY DEF Inv
<1> QED
  BY <1>1, Invariance, PTL

\* Decoding stops one byte beyond the bound, and the block stays within one and a half
\* times the bound, or is the one byte of an empty result, whatever a header claims.
THEOREM BoundedOutput == Spec => []Bounded
<1>1. Inv => Bounded
  BY DEF Inv, Bounded
<1> QED
  BY <1>1, Invariance, PTL

\* A call that has returned owns nothing but the block of a successful result.
THEOREM NothingLeaks == Spec => []NoLeak
<1>1. Inv => NoLeak
  BY DEF Inv, OwnerInv, NoLeak, TypeOK
<1> QED
  BY <1>1, Invariance, PTL

\* The call implements the interface: from request to an outcome it allows in one step.
THEOREM Implements == Spec => KeepsPromise
<1>1. Init => Promise!Init
  BY DEF Init, Promise!Init, NoResult, Promise!NoOutcome
<1>2. Inv /\ Inv' /\ [Next]_vars => [Promise!Decode]_<<request, result>>
  <2> SUFFICES ASSUME Inv, Inv', [Next]_vars, <<request, result>>' # <<request, result>>
               PROVE  Promise!Decode
    OBVIOUS
  <2>1. request' = request
    BY DEF Next, vars, Refuse, CreateContext, WidenWindow, SetWindow, Reserve, ReserveFails,
           SpareFails, DecodePart, DecodePartFails, DecodeFull, DecodeFullFails, Release,
           ReleaseFails, Throw
  <2>2. pc # "done"
    BY <2>1 DEF Next, vars, Refuse, CreateContext, WidenWindow, SetWindow, Reserve, ReserveFails,
           SpareFails, DecodePart, DecodePartFails, DecodeFull, DecodeFullFails, Release,
           ReleaseFails
  <2>3. result = NoResult /\ result' # NoResult
    BY <2>1, <2>2 DEF Inv, ResultInv
  <2>4. pc' = "done"
    BY <2>3 DEF Inv, ResultInv
  <2>5. Promise!Allowed(request, result)'
    BY <2>4 DEF Inv, ResultInv
  <2> QED
    BY <2>1, <2>3, <2>5 DEF Promise!Decode, Promise!NoOutcome, NoResult, Promise!Allowed,
           Promise!Unreadable, Promise!TooLarge, Promise!Accepted
<1> QED
  BY <1>1, <1>2, Invariance, PTL DEF Spec, KeepsPromise, Promise!Spec
-------------------------------------------------------------------------------
(***************************************************************************)
(* How long a call takes.                                                  *)
(***************************************************************************)
Rank ==
    CASE pc = "start" -> 5 [] pc = "window" -> 4 [] pc = "reserve" -> 3
      [] pc = "decode" -> 2 [] pc = "release" -> 1

Widenings == IF pc \in {"start", "window"} THEN WINDOW_LOG_MAX - window ELSE 0

\* What is still to be done: widenings of the window, input to take, output to fill, and
\* the steps around the loops.
StepsLeft ==
    IF pc = "done" THEN 0 ELSE Rank + Widenings + (src.len - dec.pos) + (max_output - size)

LEMMA StepsLeftType ==
    ASSUME Inv
    PROVE  /\ StepsLeft \in Nat
           /\ pc # "done" =>
                  /\ StepsLeft > 0 /\ Rank \in 1..5 /\ Widenings \in Nat
                  /\ dec.pos \in 0..src.len /\ size \in 0..max_output
           /\ src.len \in Nat /\ max_output \in Nat
<1>1. src.len \in Nat /\ max_output \in Nat
  BY RequestType DEF Inv, TypeOK
<1>2. ASSUME pc # "done" PROVE Rank \in 1..5 /\ Widenings \in Nat
  BY <1>2, LimitsAssumption DEF Inv, TypeOK, Rank, Widenings
<1>3. ASSUME pc # "done" PROVE dec.pos \in 0..src.len /\ size \in 0..max_output
  <2>1. CASE pc \in {"start", "window", "reserve"}
    BY <1>1, <2>1 DEF Inv, Idle, Fresh
  <2>2. CASE pc \in {"decode", "release"}
    BY <1>1, <2>2 DEF Inv, TypeOK, InPlace, DecoderInv
  <2> QED
    BY <1>3, <2>1, <2>2 DEF Inv, TypeOK
<1>4. CASE pc # "done"
  BY <1>1, <1>2, <1>3, <1>4 DEF StepsLeft
<1>5. CASE pc = "done"
  BY <1>1, <1>5 DEF StepsLeft
<1> QED
  BY <1>1, <1>2, <1>3, <1>4, <1>5

\* A turn of the loop that does not fail takes input, fills output or ends the input.
LEMMA TurnAdvances ==
    ASSUME Inv, DecodePart \/ DecodeFull
    PROVE  /\ dec.pos <= dec'.pos /\ size <= size'
           /\ pc' = "decode" => dec.pos < dec'.pos \/ size < size'
           /\ pc' \in {"decode", "release"}
<1>1. pc = "decode" /\ size \in Nat /\ size = dec.flushed /\ dec.pos \in 0..src.len
  BY Decoding DEF DecodePart, DecodeFull
<1>2. src.len \in Nat /\ dec.pos \in Nat
  BY <1>1, StepsLeftType
<1>3. CASE DecodePart
  <2>1. PICK r \in DecompressStream(src, window, dec, src.len, room) :
          /\ dec' = [pos |-> r.pos, flushed |-> r.flushed]
          /\ size' = size + (r.flushed - dec.flushed)
          /\ \/ Return
             \/ (r.pos # dec.pos \/ r.flushed # dec.flushed) /\ UNCHANGED <<pc, ctx>>
    BY <1>3 DEF DecodePart
  <2>2. room \in Nat
    BY <1>1, <1>3, Room DEF DecodePart
  <2>3. r.pos \in dec.pos..src.len /\ r.flushed \in dec.flushed..(dec.flushed + room)
    BY <1>2, CallCases
  <2>4. r.pos \in Nat /\ r.flushed \in Nat /\ dec.pos <= r.pos /\ size <= r.flushed
    BY <1>1, <1>2, <2>2, <2>3
  <2>5. dec'.pos = r.pos /\ size' = r.flushed
    BY <1>1, <2>1, <2>4
  <2>6. CASE Return
    BY <2>4, <2>5, <2>6 DEF Return
  <2>7. CASE r.pos # dec.pos /\ UNCHANGED <<pc, ctx>>
    BY <1>1, <2>4, <2>5, <2>7
  <2>8. CASE r.flushed # dec.flushed /\ UNCHANGED <<pc, ctx>>
    BY <1>1, <2>4, <2>5, <2>8
  <2> QED
    BY <2>1, <2>6, <2>7, <2>8
<1>4. CASE DecodeFull
  <2>1. PICK r \in DecompressStream(src, window, dec, src.len, 1) :
          /\ dec' = [pos |-> r.pos, flushed |-> r.flushed]
          /\ Return \/ (r.pos # dec.pos /\ UNCHANGED <<pc, ctx>>)
    BY <1>4 DEF DecodeFull
  <2>2. r.pos \in dec.pos..src.len
    BY <1>2, CallCases
  <2>3. dec'.pos = r.pos /\ r.pos \in Nat /\ dec.pos <= r.pos /\ size' = size
    BY <1>1, <1>2, <1>4, <2>1, <2>2 DEF DecodeFull, buffer
  <2>4. CASE Return
    BY <1>1, <2>3, <2>4 DEF Return
  <2>5. CASE r.pos # dec.pos /\ UNCHANGED <<pc, ctx>>
    BY <1>1, <2>3, <2>5
  <2> QED
    BY <2>1, <2>4, <2>5
<1> QED
  BY <1>3, <1>4

LEMMA StepsDecrease == ASSUME Inv, Inv', Next PROVE StepsLeft' < StepsLeft
<1>1. /\ pc # "done" /\ src' = src /\ max_output' = max_output
  BY DEF Next, Refuse, CreateContext, WidenWindow, SetWindow, Reserve, ReserveFails, SpareFails,
         DecodePart, DecodePartFails, DecodeFull, DecodeFullFails, Release, ReleaseFails, Throw,
         src, max_output
<1>2. CASE pc' = "done"
  BY <1>1, <1>2, StepsLeftType DEF StepsLeft
<1>3. CASE pc' # "done"
  <2>1. PICK k, w, p, f, l, v, q, g, n, m :
          /\ k = Rank /\ w = Widenings /\ p = dec.pos /\ f = size
          /\ l = Rank' /\ v = Widenings' /\ q = dec'.pos /\ g = size'
          /\ n = src.len /\ m = max_output
    OBVIOUS
  <2>2. StepsLeft = k + w + (n - p) + (m - f) /\ StepsLeft' = l + v + (n - q) + (m - g)
    BY <1>1, <1>3, <2>1 DEF StepsLeft
  <2>3. /\ k \in Nat /\ w \in Nat /\ p \in Nat /\ f \in Nat /\ n \in Nat /\ m \in Nat
        /\ l \in Nat /\ v \in Nat /\ q \in Nat /\ g \in Nat
    <3>1. k \in Nat /\ w \in Nat /\ p \in Nat /\ f \in Nat /\ n \in Nat /\ m \in Nat
      BY <1>1, <2>1, StepsLeftType
    <3>2. window' \in Nat /\ window' <= WINDOW_LOG_MAX /\ WINDOW_LOG_MAX \in Nat
      BY LimitsAssumption DEF Inv, TypeOK
    <3>3. l \in Nat /\ v \in Nat
      BY <1>3, <2>1, <3>2 DEF Inv, TypeOK, Rank, Widenings
    <3>4. q \in Nat /\ g \in Nat
      BY <2>1 DEF Inv, TypeOK
    <3> QED
      BY <3>1, <3>3, <3>4
  <2>4. CASE WidenWindow
    <3>1. window \in Nat /\ WINDOW_LOG_MAX \in Nat /\ window' = window + 1
      BY <2>4, LimitsAssumption DEF WidenWindow, Inv, TypeOK
    <3>2. w = WINDOW_LOG_MAX - window /\ v = WINDOW_LOG_MAX - (window + 1)
      BY <2>1, <2>4, <3>1 DEF WidenWindow, Widenings
    <3>3. l = k /\ q = p /\ g = f /\ v < w
      BY <2>1, <2>4, <3>1, <3>2 DEF WidenWindow, Rank, buffer
    <3> QED
      BY <2>2, <2>3, <3>3
  <2>5. CASE CreateContext \/ SetWindow \/ Reserve
    <3>1. l < k /\ q = p /\ g = f
      BY <2>1, <2>5 DEF CreateContext, SetWindow, Reserve, Rank, buffer
    <3>2. v = w \/ v = 0
      BY <2>1, <2>5 DEF CreateContext, SetWindow, Reserve, Widenings
    <3> QED
      BY <2>2, <2>3, <3>1, <3>2
  <2>6. CASE DecodePart \/ DecodeFull
    <3>1. /\ p <= q /\ f <= g /\ (pc' = "decode" => p < q \/ f < g)
          /\ pc' \in {"decode", "release"}
      BY <2>1, <2>6, TurnAdvances
    <3>2. k = 2 /\ w = 0 /\ v = 0
      BY <2>1, <2>6, <3>1 DEF DecodePart, DecodeFull, Rank, Widenings
    <3>3. CASE pc' = "decode"
      <4>1. l = 2 /\ (p < q \/ f < g)
        BY <2>1, <3>1, <3>3 DEF Rank
      <4> QED
        BY <2>2, <2>3, <3>1, <3>2, <4>1
    <3>4. CASE pc' = "release"
      <4>1. l = 1
        BY <2>1, <3>4 DEF Rank
      <4> QED
        BY <2>2, <2>3, <3>1, <3>2, <4>1
    <3> QED
      BY <3>1, <3>3, <3>4
  <2> QED
    BY <1>3, <2>4, <2>5, <2>6
       DEF Next, Refuse, ReserveFails, SpareFails, DecodePartFails, DecodeFullFails, Release,
           ReleaseFails, Throw
<1> QED
  BY <1>2, <1>3

\* Every step brings a call nearer to its end, for every input, bound and claim: it returns
\* after at most 5 steps, one more for each power of two the window can grow by, each unit
\* of the input and each byte of the bound.
THEOREM BoundedSteps ==
    Spec => /\ StepsLeft = 5 + (WINDOW_LOG_MAX - MinLog) + src.len + max_output
            /\ [](StepsLeft \in Nat)
            /\ [][StepsLeft' < StepsLeft]_vars
<1>1. Init => StepsLeft = 5 + (WINDOW_LOG_MAX - MinLog) + src.len + max_output
  <2> SUFFICES ASSUME Init
               PROVE  StepsLeft = 5 + (WINDOW_LOG_MAX - MinLog) + src.len + max_output
    OBVIOUS
  <2>1. src.len \in Nat /\ max_output \in Nat
    BY RequestType DEF Init
  <2> QED
    BY <2>1, LimitsAssumption DEF Init, StepsLeft, Rank, Widenings, Fresh
<1>2. Inv => StepsLeft \in Nat
  BY StepsLeftType
<1>3. Inv /\ Inv' /\ [Next]_vars => [StepsLeft' < StepsLeft]_vars
  BY StepsDecrease
<1> QED
  BY <1>1, <1>2, <1>3, Invariance, PTL DEF Spec

LEMMA Answer ==
    ASSUME Inv, pc = "decode", NEW n \in Nat \ {0}
    PROVE  DecompressStream(src, window, dec, src.len, n) # {}
<1>1. /\ request \in Requests /\ src.len \in Nat /\ dec.pos \in 0..src.len /\ dec.flushed \in Nat
      /\ dec.pos < Bad(src, window, dec) /\ dec.flushed <= src.cum[dec.pos]
      /\ src.cum[dec.pos] \in Nat
      /\ src.ends \subseteq 1..src.len
  BY Decoding, RequestType DEF Reaches, Bad, TooWide
<1>2. CASE dec.pos < src.len
  <2> DEFINE r == [pos |-> dec.pos, flushed |-> dec.flushed, ret |-> "memory"]
  <2>1. r \in DecompressStream(src, window, dec, src.len, n)
    BY <1>1, <1>2 DEF DecompressStream
  <2> QED
    BY <2>1
<1>3. CASE dec.pos = src.len /\ dec.flushed = src.cum[dec.pos]
  <2> DEFINE r == [pos |-> dec.pos, flushed |-> dec.flushed, ret |-> "more"]
  <2>1. r \in DecompressStream(src, window, dec, src.len, n)
    BY <1>1, <1>3 DEF DecompressStream, Starved
  <2> QED
    BY <2>1
<1>4. CASE dec.pos = src.len /\ dec.flushed # src.cum[dec.pos]
  <2> DEFINE r == [pos |-> dec.pos, flushed |-> dec.flushed + 1, ret |-> "more"]
  <2>1. r.pos = dec.pos /\ r.flushed = dec.flushed + 1 /\ r.flushed <= src.cum[dec.pos]
    BY <1>1, <1>4
  <2>2. Advances(src, window, dec, r)
    BY <1>1, <2>1 DEF Advances, SameFrame
  <2>3. r \in [pos : dec.pos..src.len, flushed : dec.flushed..(dec.flushed + n),
               ret : {"done", "more", "corrupt", "window", "memory"}]
    BY <1>1, <1>4
  <2>4. r \in DecompressStream(src, window, dec, src.len, n)
    BY <2>2, <2>3 DEF DecompressStream
  <2> QED
    BY <2>4
<1> QED
  BY <1>1, <1>2, <1>3, <1>4

\* The loop never waits: below the bound and at the bound, zstd has an answer to the next
\* call, whatever has been taken and delivered so far.
THEOREM AlwaysAnswered ==
    Spec => [](pc = "decode" =>
                  DecompressStream(src, window, dec, src.len,
                                   IF size = max_output THEN 1 ELSE room) # {})
<1>1. ASSUME Inv, pc = "decode"
      PROVE  DecompressStream(src, window, dec, src.len,
                              IF size = max_output THEN 1 ELSE room) # {}
  <2>1. CASE size = max_output
    BY <1>1, <2>1, Answer
  <2>2. CASE size # max_output
    <3>1. room \in Nat \ {0}
      BY <1>1, <2>2, Room
    <3> QED
      BY <1>1, <2>2, <3>1, Answer
  <2> QED
    BY <2>1, <2>2
<1> QED
  BY <1>1, Invariance, PTL
===============================================================================
