----------------------------- MODULE ZstdApplyProofs -----------------------------
(***************************************************************************)
(* Proofs about ZstdApply for every set of requests and every value of the *)
(* limits: its invariants, and that it implements ExactDecode.             *)
(***************************************************************************)
EXTENDS ZstdApply, TLAPS

\* Nothing is decoded before the header is accepted.
StartInv ==
    /\ pc \in {"start", "header"} => dec = Fresh /\ read = 0 /\ written = 0
    /\ pc = "header" => Passed
    /\ pc \in {"decode", "check"} => Promise!HeaderStatus(request) = "DECODE"

\* The decoder stays inside the first frame, and stops where it ends.
DecoderInv ==
    pc \in {"decode", "check"} =>
        /\ dec.pos \in 0..dn
        /\ dec.pos < src.bad
        /\ dec.flushed <= src.cum[dec.pos]
        /\ pc = "decode" => \A e \in src.ends : dec.pos < e
        /\ pc = "check" => /\ dec.pos \in src.ends /\ Promise!InFirst(src, dec.pos)
                           /\ dec.flushed = src.cum[dec.pos]

ResultInv ==
    /\ pc # "done" => status = "NONE"
    /\ pc = "done" => Promise!Allowed(request, status) /\ status # "NONE"

Inv == TypeOK /\ InOrder /\ AtMostOneByteBeyond /\ StartInv /\ DecoderInv /\ ResultInv

-------------------------------------------------------------------------------
\* A turn of the decoder goes on inside the frame, or is starved, or is an error.
LEMMA CallCases ==
    ASSUME NEW r \in Outcomes, dec.pos \in Nat
    PROVE  /\ r.pos \in dec.pos..chunkEnd /\ r.flushed \in dec.flushed..(dec.flushed + room)
           /\ r.ret \in {"done", "more", "corrupt", "window", "memory"}
           /\ r.ret \in {"done", "more"} =>
                  \/ Advances(src, WINDOW_LOG_MAX, dec, r)
                  \/ r.ret = "done" /\ Passes(src, dec, chunkEnd, room, r)
                  \/ r.ret = "more" /\ ~Progress(r)
           /\ r.ret = "done" => r.pos \in src.ends /\ r.pos # dec.pos
           /\ r.ret = "more" /\ r.pos # dec.pos => r.pos \notin src.ends
           /\ r.ret = "more" /\ ~Progress(r) => Starved(src, dec, chunkEnd)
           /\ r.ret \in {"corrupt", "window"} =>
                  \/ Rejects(src, WINDOW_LOG_MAX, dec, chunkEnd, room)
                  \/ PassFails(src, dec, chunkEnd, room)
  BY DEF Outcomes, DecompressStream, Advances, Passes, OnePass, FrameAt, Progress

\* The types of a request's parts.
LEMMA RequestType ==
    ASSUME request \in Requests
    PROVE  /\ request.null \in BOOLEAN /\ tn \in Nat /\ dn \in Nat /\ src.len = dn
           /\ request.header \in Headers
           /\ src.bad \in 1..(dn + 1) /\ src.head = 1 /\ src.window \in Nat
           /\ \A i \in 0..dn : src.cum[i] \in Nat
           /\ src.ends \subseteq 1..dn
           /\ \A e \in src.ends : src.cum[e] = src.cum[e - 1]
           /\ src.stated[0] \in Nat \cup {-1}
<1>1. IsRequest(request)
  BY RequestsAssumption
<1>2. src.stated \in [0..src.len -> Nat \cup {-1}] /\ 0 \in 0..src.len
  BY <1>1 DEF IsRequest, IsStream, src
<1>3. src.stated[0] \in Nat \cup {-1}
  BY <1>2
<1> QED
  BY <1>1, <1>3 DEF IsRequest, IsStream, src, dn, tn

LEMMA InitInv == Init => Inv
<1> SUFFICES ASSUME Init PROVE Inv
  OBVIOUS
<1>1. tn \in Nat
  BY RequestType DEF Init
<1>2. TypeOK
  BY DEF Init, TypeOK, Fresh
<1>3. InOrder /\ AtMostOneByteBeyond
  BY <1>1 DEF Init, InOrder, AtMostOneByteBeyond, Fresh
<1>4. StartInv /\ DecoderInv /\ ResultInv
  BY DEF Init, StartInv, DecoderInv, ResultInv
<1> QED
  BY <1>2, <1>3, <1>4 DEF Inv

\* The checks before decoding decide what the interface says they decide.
LEMMA SizesDecide ==
    ASSUME pc = "start", CheckSizes
    PROVE  \/ pc' = "done" /\ status' \in Statuses /\ Promise!Allowed(request, status')
           \/ pc' = "header" /\ Passed /\ status' = status
<1>1. CASE request.null /\ Return("OPTION")
  BY <1>1 DEF Return, Statuses, Promise!Allowed, Promise!HeaderStatus
<1>2. CASE ~request.null /\ TooLarge /\ Return("LIMIT")
  BY <1>2 DEF Return, Statuses, Promise!Allowed, Promise!HeaderStatus, TooLarge, Promise!TooLarge,
      tn, dn
<1>3. CASE Passed /\ pc' = "header" /\ UNCHANGED status
  BY <1>3
<1> QED
  BY <1>1, <1>2, <1>3 DEF CheckSizes

LEMMA HeaderDecides ==
    ASSUME Inv, pc = "header", CheckHeader
    PROVE  \/ pc' = "done" /\ status' \in Statuses /\ Promise!Allowed(request, status')
           \/ pc' = "decode" /\ Promise!HeaderStatus(request) = "DECODE" /\ status' = status
<1>1. /\ request.null \in BOOLEAN /\ ~request.null /\ ~Promise!TooLarge(request)
      /\ src.window \in Nat /\ request.header \in Headers
  BY RequestType DEF Inv, TypeOK, StartInv, Passed, TooLarge, Promise!TooLarge, tn, dn
<1>2. CASE request.header = "malformed"
  <2>1. Promise!HeaderStatus(request) = "ZSTD"
    BY <1>1, <1>2 DEF Promise!HeaderStatus
  <2> QED
    BY <1>2, <2>1 DEF CheckHeader, Return, Statuses, Promise!Allowed
<1>3. CASE request.header \in {"cut", "skippable"}
  <2>1. Promise!HeaderStatus(request) = "INVALID"
    BY <1>1, <1>3 DEF Promise!HeaderStatus
  <2> QED
    BY <1>3, <2>1 DEF CheckHeader, Return, Statuses, Promise!Allowed
<1>4. CASE request.header = "frame"
  <2>1. Promise!HeaderStatus(request) =
            IF ~Fits THEN "LIMIT" ELSE IF ~Matches THEN "INVALID" ELSE "DECODE"
    BY <1>1, <1>4, LimitsAssumption DEF Promise!HeaderStatus, Fits, Matches, src, tn
  <2>2. \/ ~Fits /\ Return("LIMIT")
        \/ Fits /\ ~Matches /\ Return("INVALID")
        \/ Fits /\ Matches /\ Return("ALLOC")
        \/ Fits /\ Matches /\ pc' = "decode" /\ UNCHANGED status
    BY <1>4 DEF CheckHeader
  <2> QED
    BY <2>1, <2>2 DEF Return, Statuses, Promise!Allowed, Promise!Decoded
<1> QED
  BY <1>1, <1>2, <1>3, <1>4 DEF Headers

-------------------------------------------------------------------------------
\* What every lemma on a turn of the loop starts from.
LEMMA Decoding ==
    ASSUME Inv, pc = "decode"
    PROVE  /\ request \in Requests /\ tn \in Nat /\ dn \in Nat /\ src.len = dn
           /\ dec \in [pos : 0..dn, flushed : Nat]
           /\ read = dec.pos /\ written = dec.flushed /\ written <= tn
           /\ status = "NONE" /\ Promise!HeaderStatus(request) = "DECODE"
           /\ dec.pos < src.bad /\ dec.flushed <= src.cum[dec.pos]
           /\ \A e \in src.ends : dec.pos < e
           /\ room \in Nat /\ room > 0 /\ room <= tn - written + 1
           /\ chunkEnd \in dec.pos..dn
           /\ dec.pos < dn => dec.pos < chunkEnd
<1>1. request \in Requests /\ dec \in [pos : Nat, flushed : Nat]
  BY DEF Inv, TypeOK
<1>2. tn \in Nat /\ dn \in Nat /\ src.len = dn
  BY <1>1, RequestType
<1>3. read = dec.pos /\ written = dec.flushed /\ written <= tn /\ status = "NONE" /\ dec.pos \in 0..dn
  BY DEF Inv, InOrder, ResultInv, DecoderInv
<1>4. room \in Nat /\ room > 0 /\ room <= tn - written + 1
  BY <1>1, <1>2, <1>3, LimitsAssumption DEF room, min
<1>5. chunkEnd \in dec.pos..dn /\ (dec.pos < dn => dec.pos < chunkEnd)
  BY <1>1, <1>2, <1>3, LimitsAssumption DEF chunkEnd, min
<1> QED
  BY <1>1, <1>2, <1>3, <1>4, <1>5 DEF Inv, DecoderInv, StartInv

\* The limit the decoder is given refuses nothing the header check let through.
LEMMA SameBad ==
    ASSUME Inv, pc = "decode"
    PROVE  Bad(src, WINDOW_LOG_MAX, dec) = src.bad /\ src.stated[0] \in {-1, tn}
<1>1. src.window \in Nat
  BY RequestType DEF Inv, TypeOK
<1>2. Promise!HeaderStatus(request) = "DECODE" /\ request.header \in Headers /\ request.null \in BOOLEAN
  BY RequestType DEF Inv, TypeOK, StartInv
<1>3. ~(request.src.window > WINDOW_LOG_MAX) /\ request.src.stated[0] \in {-1, request.target}
  BY <1>2 DEF Promise!HeaderStatus, Headers
<1> QED
  BY <1>3 DEF Bad, TooWide, src, tn

\* What may be decoded in one pass is the first frame, and its size is the target's.
LEMMA OnlyFirst ==
    ASSUME Inv, pc = "decode", NEW e \in src.ends, OnePass(src, dec, chunkEnd, room, e)
    PROVE  /\ src.stated[0] = tn /\ Promise!InFirst(src, e) /\ e \in 1..dn
           /\ dec.pos = 0 /\ SameFrame(src, 0, e)
<1>1. FrameAt(src, dec.pos, e) /\ src.stated[dec.pos] \in 0..room
  BY DEF OnePass
<1>2. /\ request \in Requests /\ src.ends \subseteq 1..dn /\ dn \in Nat /\ tn \in Nat
      /\ \A x \in src.ends : dec.pos < x
  BY Decoding, RequestType
<1>3. dec.pos \notin src.ends
  BY <1>2
<1>4. dec.pos = 0 /\ SameFrame(src, 0, e)
  BY <1>1, <1>3 DEF FrameAt
<1>5. src.stated[0] # -1
  BY <1>1, <1>4, Decoding
<1>6. Promise!InFirst(src, e)
  BY <1>2, <1>4 DEF SameFrame, Promise!InFirst
<1> QED
  BY <1>2, <1>4, <1>5, <1>6, SameBad

LEMMA FailureAllowed ==
    ASSUME Inv, pc = "decode",
           NEW r \in Outcomes, r.ret \notin {"done", "more"}
    PROVE  ErrorStatus(r.ret) \in Statuses /\ Promise!Allowed(request, ErrorStatus(r.ret))
<1>1. CASE r.ret = "memory"
  BY <1>1, Decoding DEF ErrorStatus, Statuses, Promise!Allowed, Promise!Decoded
<1>2. CASE r.ret \in {"corrupt", "window"} /\ Rejects(src, WINDOW_LOG_MAX, dec, chunkEnd, room)
  <2>1. Rejects(src, WINDOW_LOG_MAX, dec, chunkEnd, room)
    BY <1>2
  <2>2. /\ src.bad <= chunkEnd /\ src.cum[src.bad - 1] <= dec.flushed + room
        /\ SameFrame(src, dec.pos, src.bad)
    BY <2>1, SameBad DEF Rejects
  <2>3. src.bad \in 1..dn /\ src.cum[src.bad - 1] \in Nat
    BY <2>2, Decoding, RequestType
  <2>4. src.cum[src.bad - 1] <= tn + 1
    BY <2>2, <2>3, Decoding
  <2>5. Promise!InFirst(src, src.bad)
    BY <2>2, <2>3, Decoding, RequestType DEF SameFrame, Promise!InFirst
  <2>6. Promise!Decoded(src, tn, "ZSTD")
    BY <2>3, <2>4, <2>5, Decoding DEF Promise!Decoded
  <2> QED
    BY <1>2, <2>6, Decoding DEF ErrorStatus, Statuses, Promise!Allowed, src, tn
<1>3. CASE r.ret \in {"corrupt", "window"} /\ PassFails(src, dec, chunkEnd, room)
  <2>1. PICK e \in src.ends : OnePass(src, dec, chunkEnd, room, e) /\ src.bad <= e
    BY <1>3 DEF PassFails
  <2>2. src.stated[0] = tn /\ Promise!InFirst(src, e) /\ e \in 1..dn
    BY <2>1, OnlyFirst
  <2>3. src.bad \in 1..dn /\ src.ends \subseteq 1..dn
    BY <2>1, <2>2, Decoding, RequestType
  <2>4. Promise!InFirst(src, src.bad)
    BY <2>1, <2>2, <2>3, Decoding DEF Promise!InFirst
  <2>5. Promise!InOnePass(src, tn, src.bad)
    BY <2>1, <2>2 DEF Promise!InOnePass
  <2>6. Promise!Decoded(src, tn, "ZSTD")
    BY <2>3, <2>4, <2>5, Decoding DEF Promise!Decoded
  <2> QED
    BY <1>3, <2>6, Decoding DEF ErrorStatus, Statuses, Promise!Allowed, src, tn
<1> QED
  BY <1>1, <1>2, <1>3, CallCases, Decoding

LEMMA ExcessAllowed ==
    ASSUME Inv, pc = "decode",
           NEW r \in Outcomes, r.ret \in {"done", "more"},
           r.flushed - dec.flushed > tn - written
    PROVE  /\ r.pos \in Nat /\ r.flushed \in Nat /\ r.flushed <= tn + 1
           /\ Promise!Allowed(request, "LIMIT")
<1>1. /\ r.pos \in dec.pos..chunkEnd /\ r.flushed \in dec.flushed..(dec.flushed + room)
  BY CallCases, Decoding
<1>2. r.pos \in 0..dn /\ r.flushed \in Nat /\ r.flushed > tn /\ r.flushed <= tn + 1
      /\ r.flushed # dec.flushed
  BY <1>1, Decoding
<1>3. r.pos < src.bad /\ r.flushed <= src.cum[r.pos] /\ SameFrame(src, dec.pos, r.pos)
  <2>1. CASE Advances(src, WINDOW_LOG_MAX, dec, r)
    BY <2>1, SameBad DEF Advances
  <2>2. CASE Passes(src, dec, chunkEnd, room, r)
    <3>1. /\ r.pos \in src.ends /\ OnePass(src, dec, chunkEnd, room, r.pos) /\ r.pos < src.bad
          /\ r.flushed = src.cum[r.pos]
      BY <2>2 DEF Passes, OnePass, FrameAt
    <3>2. dec.pos = 0 /\ SameFrame(src, 0, r.pos)
      BY <3>1, OnlyFirst
    <3>3. src.cum[r.pos] \in Nat
      BY <1>2, Decoding, RequestType
    <3> QED
      BY <3>1, <3>2, <3>3
  <2> QED
    BY <1>2, <2>1, <2>2, CallCases, Decoding DEF Progress
<1>4. r.pos < src.bad /\ r.flushed <= src.cum[r.pos] /\ SameFrame(src, dec.pos, r.pos)
  BY <1>3
<1>5. src.cum[r.pos] > tn
  BY <1>2, <1>4, Decoding, RequestType
<1>6. Promise!InFirst(src, r.pos)
  BY <1>2, <1>4, Decoding, RequestType DEF SameFrame, Promise!InFirst
<1>7. Promise!Exceeds(src, tn)
  BY <1>2, <1>4, <1>5, <1>6, Decoding DEF Promise!Exceeds
<1> QED
  BY <1>2, <1>7, Decoding DEF Promise!Allowed, Promise!Decoded, src, tn

LEMMA StarvedAllowed ==
    ASSUME Inv, pc = "decode",
           NEW r \in Outcomes, r.ret = "more", ~Progress(r)
    PROVE  Promise!Allowed(request, "INVALID")
<1>1. dec.pos = chunkEnd /\ dec.flushed = src.cum[dec.pos]
  BY CallCases, Decoding DEF Progress, Starved
<1>2. dec.pos = dn
  BY <1>1, Decoding
<1>3. src.ends = {} /\ src.bad > dn /\ src.cum[dn] <= tn
  BY <1>1, <1>2, Decoding, RequestType
<1>4. Promise!Truncated(src, tn)
  BY <1>3, Decoding DEF Promise!Truncated
<1> QED
  BY <1>4, Decoding DEF Promise!Allowed, Promise!Decoded, src, tn

\* The end of the first frame decides between OK and INVALID.
LEMMA EndDecides ==
    ASSUME Inv, pc = "check"
    PROVE  Promise!Allowed(request, IF read = dn /\ written = tn THEN "OK" ELSE "INVALID")
<1>1. /\ request \in Requests /\ dec \in [pos : Nat, flushed : Nat]
      /\ Promise!HeaderStatus(request) = "DECODE"
      /\ read = dec.pos /\ written = dec.flushed /\ written <= tn
      /\ dec.pos \in src.ends /\ Promise!InFirst(src, dec.pos) /\ dec.pos < src.bad
      /\ dec.flushed = src.cum[dec.pos]
  BY DEF Inv, TypeOK, StartInv, InOrder, DecoderInv
<1>2. tn \in Nat /\ dn \in Nat /\ src.len = dn /\ src.ends \subseteq 1..dn
  BY <1>1, RequestType
<1>3. CASE read = dn /\ written = tn
  <2>1. src.ends = {dn}
    BY <1>1, <1>2, <1>3 DEF Promise!InFirst
  <2>2. Promise!OneFrame(src, tn)
    BY <1>1, <1>2, <1>3, <2>1 DEF Promise!OneFrame
  <2> QED
    BY <1>1, <1>3, <2>2 DEF Promise!Allowed, Promise!Decoded, src, tn
<1>4. CASE ~(read = dn /\ written = tn)
  <2>1. ~Promise!OneFrame(src, tn)
    BY <1>1, <1>2, <1>4 DEF Promise!OneFrame
  <2>2. Promise!Mismatch(src, tn)
    BY <1>1, <2>1 DEF Promise!Mismatch
  <2> QED
    BY <1>1, <1>4, <2>2 DEF Promise!Allowed, Promise!Decoded, src, tn
<1> QED
  BY <1>3, <1>4

-------------------------------------------------------------------------------
\* A step that returns keeps the invariant when the interface allows its status.
LEMMA ReturnKeepsInv ==
    ASSUME Inv, NEW s \in Statuses, Return(s), Promise!Allowed(request, s),
           UNCHANGED <<request, read, written>>,
           dec' \in [pos : Nat, flushed : Nat], dec'.flushed <= tn + 1
    PROVE  Inv'
<1>1. pc' = "done" /\ status' = s /\ s # "NONE" /\ tn' = tn
  BY DEF Return, Statuses, tn
<1>2. TypeOK' /\ InOrder' /\ AtMostOneByteBeyond'
  BY <1>1 DEF Inv, TypeOK, InOrder, AtMostOneByteBeyond
<1>3. StartInv' /\ DecoderInv'
  BY <1>1 DEF StartInv, DecoderInv
<1>4. ResultInv'
  BY <1>1 DEF ResultInv
<1> QED
  BY <1>2, <1>3, <1>4 DEF Inv

LEMMA ChecksStep == ASSUME Inv, CheckSizes \/ CheckHeader PROVE Inv'
<1>1. /\ pc \in {"start", "header"} /\ status = "NONE" /\ UNCHANGED <<request, dec, read, written>>
      /\ dec = Fresh /\ read = 0 /\ written = 0 /\ request \in Requests
      /\ dec \in [pos : Nat, flushed : Nat] /\ dec.flushed <= tn + 1
  BY DEF CheckSizes, CheckHeader, Inv, TypeOK, StartInv, ResultInv, AtMostOneByteBeyond
<1>2. CASE pc' = "done" /\ status' \in Statuses /\ Promise!Allowed(request, status')
  BY <1>1, <1>2, ReturnKeepsInv DEF Return
<1>3. CASE \/ pc' = "header" /\ Passed /\ status' = status
           \/ pc' = "decode" /\ Promise!HeaderStatus(request) = "DECODE" /\ status' = status
  <2>1. /\ tn \in Nat /\ dn \in Nat /\ src.bad \in 1..(dn + 1) /\ src.cum[0] \in Nat
        /\ src.ends \subseteq 1..dn /\ tn' = tn /\ dn' = dn /\ src' = src
    BY <1>1, RequestType DEF tn, dn, src
  <2>2. TypeOK' /\ AtMostOneByteBeyond'
    BY <1>1, <1>3, <2>1 DEF Inv, TypeOK, AtMostOneByteBeyond
  <2>3. InOrder'
    <3>1. 0 + min(CHUNK, dn - 0) <= dn
      BY <2>1, LimitsAssumption DEF min
    <3> QED
      BY <1>1, <2>1, <3>1 DEF InOrder, chunkEnd, Fresh, min
  <2>4. StartInv'
    BY <1>1, <1>3, <2>1
    DEF StartInv, Passed, TooLarge, Promise!HeaderStatus, Promise!TooLarge, tn, dn
  <2>5. DecoderInv'
    BY <1>1, <1>3, <2>1 DEF DecoderInv, Fresh
  <2>6. ResultInv'
    BY <1>1, <1>3 DEF ResultInv
  <2> QED
    BY <2>2, <2>3, <2>4, <2>5, <2>6 DEF Inv
<1> QED
  BY <1>1, <1>2, <1>3, SizesDecide, HeaderDecides DEF CheckSizes, CheckHeader

LEMMA FailsStep == ASSUME Inv, DecodeFails PROVE Inv'
<1>1. pc = "decode" /\ UNCHANGED <<request, read, written>>
  BY DEF DecodeFails
<1>2. dec \in [pos : Nat, flushed : Nat] /\ dec.flushed <= tn + 1
  BY DEF Inv, TypeOK, AtMostOneByteBeyond
<1>3. PICK r \in Outcomes :
        \/ r.ret \notin {"done", "more"} /\ Return(ErrorStatus(r.ret)) /\ UNCHANGED dec
        \/ /\ r.ret \in {"done", "more"} /\ r.flushed - dec.flushed > tn - written
           /\ dec' = [pos |-> r.pos, flushed |-> r.flushed]
           /\ Return("LIMIT")
        \/ r.ret = "more" /\ ~Progress(r) /\ Return("INVALID") /\ UNCHANGED dec
  BY DEF DecodeFails
<1>4. CASE r.ret \notin {"done", "more"} /\ Return(ErrorStatus(r.ret)) /\ UNCHANGED dec
  BY <1>1, <1>2, <1>4, FailureAllowed, ReturnKeepsInv
<1>5. CASE /\ r.ret \in {"done", "more"} /\ r.flushed - dec.flushed > tn - written
           /\ dec' = [pos |-> r.pos, flushed |-> r.flushed]
           /\ Return("LIMIT")
  <2>1. /\ r.pos \in Nat /\ r.flushed \in Nat /\ r.flushed <= tn + 1
        /\ Promise!Allowed(request, "LIMIT") /\ "LIMIT" \in Statuses
    BY <1>1, <1>5, ExcessAllowed DEF Statuses
  <2>2. dec' \in [pos : Nat, flushed : Nat] /\ dec'.flushed <= tn + 1
    BY <1>5, <2>1
  <2> QED
    BY <1>1, <1>5, <2>1, <2>2, ReturnKeepsInv
<1>6. CASE r.ret = "more" /\ ~Progress(r) /\ Return("INVALID") /\ UNCHANGED dec
  <2>1. Promise!Allowed(request, "INVALID") /\ "INVALID" \in Statuses
    BY <1>1, <1>6, StarvedAllowed DEF Statuses
  <2> QED
    BY <1>1, <1>2, <1>6, <2>1, ReturnKeepsInv
<1> QED
  BY <1>3, <1>4, <1>5, <1>6

LEMMA ChunkStep == ASSUME Inv, DecodeChunk PROVE Inv'
<1>1. pc = "decode" /\ UNCHANGED <<request, status>>
  BY DEF DecodeChunk
<1>2. PICK r \in Outcomes :
        /\ r.ret \in {"done", "more"}
        /\ r.flushed - dec.flushed <= tn - written
        /\ r.ret = "more" => Progress(r)
        /\ Turn(r)
        /\ pc' = IF r.ret = "done" THEN "check" ELSE "decode"
  BY DEF DecodeChunk
<1>3. /\ r.pos \in dec.pos..chunkEnd /\ r.flushed \in dec.flushed..(dec.flushed + room)
      /\ \/ Advances(src, WINDOW_LOG_MAX, dec, r)
         \/ r.ret = "done" /\ Passes(src, dec, chunkEnd, room, r)
      /\ r.ret = "done" => r.pos \in src.ends /\ r.pos # dec.pos
      /\ r.ret = "more" /\ r.pos # dec.pos => r.pos \notin src.ends
  BY <1>1, <1>2, CallCases, Decoding
<1>4. /\ r.pos \in 0..dn /\ r.flushed \in Nat /\ r.flushed <= tn
      /\ dec' = [pos |-> r.pos, flushed |-> r.flushed]
      /\ read' = r.pos /\ written' = r.flushed
      /\ tn' = tn /\ dn' = dn /\ src' = src
  BY <1>1, <1>2, <1>3, Decoding DEF Turn, tn, dn, src
<1>5. r.pos < src.bad /\ r.flushed <= src.cum[r.pos] /\ SameFrame(src, dec.pos, r.pos)
      /\ (r.pos > dec.pos => src.cum[r.pos - 1] <= r.flushed \/ r.flushed = src.cum[r.pos])
  <2>1. CASE Advances(src, WINDOW_LOG_MAX, dec, r)
    BY <1>1, <2>1, SameBad DEF Advances
  <2>2. CASE Passes(src, dec, chunkEnd, room, r)
    <3>1. /\ r.pos \in src.ends /\ OnePass(src, dec, chunkEnd, room, r.pos) /\ r.pos < src.bad
          /\ r.flushed = src.cum[r.pos]
      BY <2>2 DEF Passes, OnePass, FrameAt
    <3>2. dec.pos = 0 /\ SameFrame(src, 0, r.pos)
      BY <1>1, <3>1, OnlyFirst
    <3>3. src.cum[r.pos] \in Nat
      BY <1>1, <1>4, Decoding, RequestType
    <3> QED
      BY <3>1, <3>2, <3>3
  <2> QED
    BY <1>3, <2>1, <2>2
<1>6. TypeOK' /\ AtMostOneByteBeyond'
  BY <1>1, <1>2, <1>4, Decoding DEF Inv, TypeOK, AtMostOneByteBeyond
<1>7. InOrder'
  <2>1. r.pos + min(CHUNK, dn - r.pos) <= dn
    BY <1>1, <1>4, Decoding, LimitsAssumption DEF min
  <2> QED
    BY <1>4, <2>1 DEF InOrder, chunkEnd, min
<1>8. StartInv' /\ ResultInv'
  BY <1>1, <1>2, Decoding DEF StartInv, ResultInv
<1>9. DecoderInv'
  <2>1. CASE r.ret = "done"
    <3>1. pc' = "check" /\ r.pos \in src.ends /\ r.pos > dec.pos
      BY <1>1, <1>2, <1>3, <1>4, <2>1, Decoding
    <3>2. Promise!InFirst(src, r.pos)
      BY <1>1, <1>4, <1>5, Decoding, RequestType DEF SameFrame, Promise!InFirst
    <3>3. r.flushed = src.cum[r.pos]
      <4>1. src.cum[r.pos] = src.cum[r.pos - 1] /\ src.cum[r.pos] \in Nat
        BY <1>1, <1>4, <3>1, Decoding, RequestType
      <4> QED
        BY <1>4, <1>5, <3>1, <4>1
    <3> QED
      BY <1>4, <1>5, <3>1, <3>2, <3>3 DEF DecoderInv, Promise!InFirst
  <2>2. CASE r.ret = "more"
    <3>1. pc' = "decode" /\ \A e \in src.ends : r.pos < e
      BY <1>1, <1>2, <1>3, <1>4, <1>5, <2>2, Decoding, RequestType DEF SameFrame
    <3> QED
      BY <1>4, <1>5, <3>1 DEF DecoderInv
  <2> QED
    BY <1>2, <2>1, <2>2
<1> QED
  BY <1>6, <1>7, <1>8, <1>9 DEF Inv

LEMMA EndStep == ASSUME Inv, CheckEnd PROVE Inv'
<1> DEFINE s == IF read = dn /\ written = tn THEN "OK" ELSE "INVALID"
<1>1. /\ Return(s) /\ UNCHANGED <<request, dec, read, written>>
      /\ Promise!Allowed(request, s) /\ s \in Statuses
  BY EndDecides DEF CheckEnd, Statuses
<1>2. dec \in [pos : Nat, flushed : Nat] /\ dec.flushed <= tn + 1
  BY DEF Inv, TypeOK, AtMostOneByteBeyond
<1> QED
  BY <1>1, <1>2, ReturnKeepsInv

LEMMA StutterStep == ASSUME Inv, UNCHANGED vars PROVE Inv'
  BY DEF vars, Inv, TypeOK, InOrder, AtMostOneByteBeyond, StartInv, DecoderInv, ResultInv,
         Passed, TooLarge, chunkEnd, src, dn, tn

LEMMA NextInv == ASSUME Inv, [Next]_vars PROVE Inv'
  BY ChecksStep, FailsStep, ChunkStep, EndStep, StutterStep DEF Next

-------------------------------------------------------------------------------
\* The invariant holds in every state of every call.
THEOREM Invariance == Spec => []Inv
<1>1. Init => Inv
  BY InitInv
<1>2. Inv /\ [Next]_vars => Inv'
  BY NextInv
<1> QED
  BY <1>1, <1>2, PTL DEF Spec

\* Every variable keeps its type.
THEOREM TypeCorrect == Spec => []TypeOK
<1>1. Inv => TypeOK
  BY DEF Inv
<1> QED
  BY <1>1, Invariance, PTL

\* The chunks are passed on in order, inside the payload and the target, and a
\* payload that holds more than the target is stopped after one byte.
THEOREM Safety == Spec => []InBounds
<1>1. Inv => InBounds
  BY DEF Inv, InBounds
<1> QED
  BY <1>1, Invariance, PTL

\* The call implements the interface: from request to a status it allows in one step.
THEOREM Implements == Spec => KeepsPromise
<1>1. Init => Promise!Init
  BY DEF Init, Promise!Init
<1>2. Inv /\ Inv' /\ [Next]_vars => [Promise!Decode]_<<request, status>>
  <2> SUFFICES ASSUME Inv, Inv', [Next]_vars, <<request, status>>' # <<request, status>>
               PROVE  Promise!Decode
    OBVIOUS
  <2>1. request' = request /\ pc # "done"
    BY DEF Next, vars, CheckSizes, CheckHeader, DecodeChunk, DecodeFails, CheckEnd
  <2>2. status = "NONE" /\ status' # "NONE"
    BY <2>1 DEF Inv, ResultInv
  <2>3. pc' = "done"
    BY <2>2 DEF Inv, ResultInv
  <2>4. Promise!Allowed(request, status)'
    BY <2>3 DEF Inv, ResultInv
  <2>5. Promise!Allowed(request, status')
    BY <2>1, <2>4 DEF Promise!Allowed, Promise!HeaderStatus, Promise!TooLarge
  <2> QED
    BY <2>1, <2>2, <2>5 DEF Promise!Decode
<1> QED
  BY <1>1, <1>2, Invariance, PTL DEF Spec, KeepsPromise, Promise!Spec

-------------------------------------------------------------------------------
(***************************************************************************)
(* How long a call takes.                                                  *)
(***************************************************************************)
Rank == CASE pc = "start" -> 4 [] pc = "header" -> 3 [] pc = "decode" -> 2 [] pc = "check" -> 1

\* What is still to be done: payload to take, target to fill, and the steps before and
\* after the loop.
StepsLeft == IF pc = "done" THEN 0 ELSE Rank + (dn - dec.pos) + (tn - dec.flushed)

LEMMA StepsLeftType ==
    ASSUME Inv
    PROVE  /\ StepsLeft \in Nat
           /\ pc # "done" => /\ StepsLeft > 0 /\ Rank \in 1..4
                             /\ dec.pos \in 0..dn /\ dec.flushed \in 0..tn /\ dn \in Nat /\ tn \in Nat
<1>1. dn \in Nat /\ tn \in Nat
  BY RequestType DEF Inv, TypeOK
<1>2. ASSUME pc # "done" PROVE Rank \in 1..4
  BY <1>2 DEF Inv, TypeOK, Rank
<1>3. ASSUME pc # "done" PROVE dec.pos \in 0..dn /\ dec.flushed \in 0..tn
  <2>1. CASE pc \in {"start", "header"}
    BY <1>1, <2>1 DEF Inv, StartInv, Fresh
  <2>2. CASE pc \in {"decode", "check"}
    BY <1>1, <2>2 DEF Inv, TypeOK, InOrder, DecoderInv
  <2> QED BY <1>3, <2>1, <2>2 DEF Inv, TypeOK
<1> QED BY <1>1, <1>2, <1>3 DEF StepsLeft

LEMMA StepsDecrease == ASSUME Inv, Inv', Next PROVE StepsLeft' < StepsLeft
<1>1. pc # "done" /\ dn' = dn /\ tn' = tn
  BY DEF Next, CheckSizes, CheckHeader, DecodeChunk, DecodeFails, CheckEnd, dn, tn
<1>2. CASE pc' = "done"
  BY <1>1, <1>2, StepsLeftType DEF StepsLeft
<1>3. CASE pc' # "done"
  <2>1. PICK k, p, f, l, q, g : /\ k = Rank /\ p = dec.pos /\ f = dec.flushed
                                /\ l = Rank' /\ q = dec'.pos /\ g = dec'.flushed
    OBVIOUS
  <2>2. StepsLeft = k + (dn - p) + (tn - f) /\ StepsLeft' = l + (dn - q) + (tn - g)
    BY <1>1, <1>3, <2>1 DEF StepsLeft
  <2>3. k \in Nat /\ l \in Nat /\ p \in Nat /\ f \in Nat /\ dn \in Nat /\ tn \in Nat
    BY <1>1, <1>3, <2>1, StepsLeftType DEF Inv, TypeOK, Rank
  <2>4. CASE CheckSizes \/ CheckHeader
    <3>1. l < k /\ q = p /\ g = f
      BY <1>3, <2>1, <2>4 DEF CheckSizes, CheckHeader, Return, Rank
    <3> QED BY <2>2, <2>3, <3>1
  <2>5. CASE DecodeChunk
    <3>1. PICK r \in Outcomes :
            /\ r.ret \in {"done", "more"}
            /\ r.ret = "more" => Progress(r)
            /\ dec' = [pos |-> r.pos, flushed |-> r.flushed]
            /\ pc' = IF r.ret = "done" THEN "check" ELSE "decode"
      BY <2>5 DEF DecodeChunk, Turn
    <3>2. q \in Nat /\ p <= q /\ g \in Nat /\ f <= g /\ (p # q \/ f # g)
      BY <2>1, <2>3, <2>5, <3>1, CallCases, Decoding DEF Progress, DecodeChunk
    <3>3. l <= k
      BY <2>1, <2>5, <3>1 DEF DecodeChunk, Rank
    <3>4. p < q \/ f < g
      BY <2>3, <3>2
    <3> QED BY <2>2, <2>3, <3>2, <3>3, <3>4
  <2> QED BY <1>3, <2>4, <2>5 DEF Next, DecodeFails, CheckEnd, Return
<1> QED BY <1>2, <1>3

\* Every step brings a call nearer to its end, for every size of chunk: it returns after at
\* most 4 steps, one more for each unit of the payload and one for each byte of the target.
THEOREM BoundedSteps ==
    Spec => /\ StepsLeft = 4 + dn + tn
            /\ [](StepsLeft \in Nat)
            /\ [][StepsLeft' < StepsLeft]_vars
<1>1. Init => StepsLeft = 4 + dn + tn
  <2> SUFFICES ASSUME Init PROVE StepsLeft = 4 + dn + tn
    OBVIOUS
  <2>1. dn \in Nat /\ tn \in Nat
    BY RequestType DEF Init
  <2> QED BY <2>1 DEF Init, StepsLeft, Rank, Fresh
<1>2. Inv => StepsLeft \in Nat
  BY StepsLeftType
<1>3. Inv /\ Inv' /\ [Next]_vars => [StepsLeft' < StepsLeft]_vars
  BY StepsDecrease
<1> QED
  BY <1>1, <1>2, <1>3, Invariance, PTL DEF Spec

\* The loop never waits: while it decodes, zstd has an answer to the next call, whatever
\* has been taken and delivered so far.
THEOREM AlwaysAnswered == Spec => [](pc = "decode" => Outcomes # {})
<1>1. ASSUME Inv, pc = "decode" PROVE Outcomes # {}
  <2>1. CASE dec.pos < chunkEnd
    <3>1. [pos |-> dec.pos, flushed |-> dec.flushed, ret |-> "memory"] \in Outcomes
      BY <1>1, <2>1, Decoding DEF Outcomes, DecompressStream
    <3> QED BY <3>1
  <2>2. CASE dec.pos = chunkEnd /\ dec.flushed = src.cum[dec.pos]
    <3>1. [pos |-> dec.pos, flushed |-> dec.flushed, ret |-> "more"] \in Outcomes
      BY <1>1, <2>2, Decoding DEF Outcomes, DecompressStream, Starved
    <3> QED BY <3>1
  <2>3. CASE dec.pos = chunkEnd /\ dec.flushed # src.cum[dec.pos]
    <3> DEFINE r == [pos |-> dec.pos, flushed |-> dec.flushed + 1, ret |-> "more"]
    <3>1. src.cum[dec.pos] \in Nat
      BY <1>1, Decoding, RequestType
    <3>2. r.pos = dec.pos /\ r.flushed = dec.flushed + 1 /\ r.flushed <= src.cum[dec.pos]
      BY <1>1, <2>3, <3>1, Decoding
    <3>3. Advances(src, WINDOW_LOG_MAX, dec, r)
      BY <1>1, <3>2, Decoding, SameBad, RequestType DEF Advances, SameFrame
    <3>4. r \in [pos : dec.pos..chunkEnd, flushed : dec.flushed..(dec.flushed + room),
                 ret : {"done", "more", "corrupt", "window", "memory"}]
      BY <1>1, <2>3, Decoding
    <3>5. r \in Outcomes
      BY <3>3, <3>4 DEF Outcomes, DecompressStream
    <3> QED BY <3>5
  <2> QED BY <1>1, <2>1, <2>2, <2>3, Decoding
<1> QED BY <1>1, Invariance, PTL
===============================================================================
