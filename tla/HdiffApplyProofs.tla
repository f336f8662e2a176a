----------------------------- MODULE HdiffApplyProofs -----------------------------
(***************************************************************************)
(* Proofs about HdiffApply for every set of requests and every value of    *)
(* the limits: the buffered part of the delta reaches the decoder in       *)
(* order, and whether a patch succeeds depends on the delta alone.         *)
(***************************************************************************)
EXTENDS HdiffApply, TLAPS

Accepted == ~request.null /\ ~TooLarge /\ SameSizes /\ ~TooMuch /\ Layout

\* What the checks before patching have established.
CheckedInv ==
    /\ pc = "info" => ~request.null /\ ~TooLarge
    /\ pc \in {"plain", "open"} \cup Patching => Accepted
    /\ pc = "plain" => info.compressedSize = 0
    /\ pc \in {"open"} \cup Patching => info.compressedSize # 0
    /\ pc \in Patching => stop = info.diffDataPos + info.compressedSize

\* Between two callbacks no output buffer is in use.
IdleInv ==
    /\ pc \notin {"part", "done"} => ob = Empty
    /\ pc = "part" /\ ob.size = 0 => idle < MAX_IDLE

\* The decoder may have taken unit q: it is not malformed, and a wide window is ahead of it
\* or its frame, whole in the buffer and of the stated size, was decoded in one pass.
Reaches(q) ==
    /\ q < part.bad
    /\ part.window > WINDOW_LOG_MAX /\ part.head < part.bad /\ q >= part.head =>
           q \in part.ends /\ q <= BUFFER /\ part.stated[0] = part.cum[q]

\* The decoder stays inside the first frame, and is finished where that ends.
DecoderInv ==
    pc \in Patching =>
        /\ dec.pos \in 0..part.len
        /\ Reaches(dec.pos)
        /\ dec.flushed <= part.cum[dec.pos]
        /\ ~finished => \A e \in part.ends : dec.pos < e
        /\ finished => /\ dec.pos \in part.ends /\ \A e \in part.ends : dec.pos <= e
                       /\ dec.flushed = part.cum[dec.pos]

StatusInv == status = "NONE" <=> pc # "done"

Inv ==
    /\ TypeOK /\ InOrder /\ Accounted
    /\ CheckedInv /\ IdleInv /\ DecoderInv /\ StatusInv
    /\ OnlyOneFrame /\ GenuinePatches

-------------------------------------------------------------------------------
\* A turn of the decoder goes on, or makes no progress and is starved, or is an error.
LEMMA CallCases ==
    ASSUME dec.pos \in Nat, avail \in Nat, NEW room, NEW r \in Outcomes(room)
    PROVE  /\ r.pos \in dec.pos..avail /\ r.flushed \in dec.flushed..(dec.flushed + room)
           /\ r.ret \in {"done", "more", "corrupt", "window", "memory"}
           /\ r.ret = "done" => /\ r.pos \in part.ends /\ r.pos # dec.pos
                                /\ \/ Advances(part, WINDOW_LOG_MAX, dec, r)
                                   \/ Passes(part, dec, avail, room, r)
           /\ r.ret = "more" => Advances(part, WINDOW_LOG_MAX, dec, r) \/ ~Progress(r)
           /\ r.ret = "more" /\ r.pos # dec.pos => r.pos \notin part.ends
           /\ r.ret = "more" /\ ~Progress(r) => Starved(part, dec, avail)
           /\ r.ret = "corrupt" =>
                  \/ Rejects(part, WINDOW_LOG_MAX, dec, avail, room)
                  \/ PassFails(part, dec, avail, room)
           /\ r.ret = "window" =>
                  /\ Rejects(part, WINDOW_LOG_MAX, dec, avail, room)
                  /\ TooWide(part, WINDOW_LOG_MAX, dec)
  BY DEF Outcomes, DecompressStream, Advances, Progress, Passes, OnePass, FrameAt

\* The types of a request's parts.
LEMMA RequestType ==
    ASSUME request \in Requests
    PROVE  /\ request.base \in Nat /\ request.target \in Nat /\ request.pn \in Nat
           /\ request.null \in BOOLEAN
           /\ info.diffDataPos \in Nat /\ info.compressedSize \in Nat /\ info.uncompressedSize \in Nat
           /\ info.diffDataPos <= request.pn => part.len = request.pn - info.diffDataPos
           /\ part.len \in Nat /\ part.bad \in 1..(part.len + 1) /\ part.head = 1 /\ part.window \in Nat
           /\ \A i \in 0..part.len : part.cum[i] \in Nat
           /\ \A i, j \in 0..part.len : i <= j => part.cum[i] <= part.cum[j]
           /\ part.cum[0] = 0
           /\ part.ends \subseteq 1..part.len
           /\ \A e \in part.ends : part.cum[e] = part.cum[e - 1]
           /\ \A e \in part.ends : FrameAt(part, 0, e) /\ e < part.bad /\ part.stated[0] # -1 =>
                                      part.cum[e] - part.cum[0] = part.stated[0]
<1>1. IsRequest(request)
  BY RequestsAssumption
<1>2. request.info.diffDataPos \in Nat /\ request.info.compressedSize \in Nat
      /\ request.info.uncompressedSize \in Nat
  BY <1>1 DEF IsRequest
<1>3. IsStream(part)
  BY <1>1 DEF IsRequest, part
<1>4. \A e \in part.ends : FrameAt(part, 0, e) /\ e < part.bad /\ part.stated[0] # -1 =>
                              part.cum[e] - part.cum[0] = part.stated[0]
  <2>1. 0 \in 0..part.len
    BY <1>3 DEF IsStream
  <2> QED
    BY <1>3, <2>1 DEF IsStream
<1> QED
  BY <1>1, <1>2, <1>3, <1>4 DEF IsRequest, IsStream, info, part

LEMMA InitInv == Init => Inv
<1> SUFFICES ASSUME Init PROVE Inv
  OBVIOUS
<1>1. TypeOK
  <2>1. Empty \in [pos : 0..BUFFER, size : 0..BUFFER] /\ Empty \in [pos : 0..PART_MAX, size : 0..PART_MAX]
    BY LimitsAssumption DEF Empty
  <2>2. Fresh \in [pos : Nat, flushed : Nat] /\ 1 \in 0..1 /\ 0 \in 0..MAX_IDLE
    BY LimitsAssumption DEF Fresh
  <2> QED
    BY <2>1, <2>2 DEF Init, TypeOK
<1>2. /\ InOrder /\ Accounted /\ CheckedInv /\ IdleInv /\ DecoderInv /\ StatusInv
      /\ OnlyOneFrame /\ GenuinePatches
  BY DEF Init, InOrder, Accounted, CheckedInv, IdleInv, DecoderInv, StatusInv, OnlyOneFrame,
     GenuinePatches, Patching
<1> QED
  BY <1>1, <1>2 DEF Inv

\* A step that returns keeps the invariant when its status suits the delta.
LEMMA ReturnKeepsInv ==
    ASSUME Inv, NEW s \in Statuses, Return(s), UNCHANGED <<request, dec, source, ob, idle>>, patched' \in 0..1,
           s = "OK" => \/ info.compressedSize = 0
                       \/ /\ OneFrame(part, info.uncompressedSize)
                          /\ part.window <= WINDOW_LOG_MAX \/ NeedsNoWindow,
           s \notin {"OK", "ALLOC"} => ~(Genuine /\ patched' = 1 /\ ~ClosedUnread /\ ~AskedTooMuch)
    PROVE  Inv'
<1>1. pc' = "done" /\ status' = s /\ s # "NONE" /\ info' = info /\ part' = part
  BY DEF Return, Statuses, info, part
<1>2. UNCHANGED <<dec, pos, stop, remaining, input, finished, ob, idle, request>>
  BY DEF source
<1>3. TypeOK'
  BY <1>1, <1>2 DEF Inv, TypeOK
<1>4. InOrder' /\ Accounted' /\ CheckedInv' /\ IdleInv' /\ DecoderInv' /\ StatusInv'
  BY <1>1 DEF InOrder, Accounted, CheckedInv, IdleInv, DecoderInv, StatusInv, Patching
<1>5. OnlyOneFrame'
  BY <1>1, <1>2 DEF OnlyOneFrame, NeedsNoWindow
<1>6. GenuinePatches'
  <2>1. Genuine' <=> Genuine
    BY <1>1, <1>2 DEF Genuine, TooLarge, SameSizes, TooMuch, Layout, WholeDelta, encoded, info, part
  <2>2. (ClosedUnread' <=> ClosedUnread) /\ (AskedTooMuch' <=> AskedTooMuch)
    BY <1>2 DEF ClosedUnread, AskedTooMuch
  <2> QED
    BY <1>1, <2>1, <2>2 DEF GenuinePatches
<1> QED
  BY <1>3, <1>4, <1>5, <1>6 DEF Inv

\* The invariant when nothing but the place in the code, the decoder and its buffers change.
LEMMA OngoingKeepsInv ==
    ASSUME Inv, pc # "done", pc' # "done", UNCHANGED <<request, status>>,
           TypeOK', InOrder', Accounted', CheckedInv', IdleInv', DecoderInv'
    PROVE  Inv'
<1>1. StatusInv' /\ status' = "NONE"
  BY DEF Inv, StatusInv
<1>2. OnlyOneFrame' /\ GenuinePatches'
  BY <1>1 DEF OnlyOneFrame, GenuinePatches
<1> QED
  BY <1>1, <1>2 DEF Inv

-------------------------------------------------------------------------------
\* Before patching.
LEMMA ChecksStep == ASSUME Inv, CheckSizes \/ CheckInfo PROVE Inv'
<1>1. pc \in {"start", "info"} /\ UNCHANGED <<request, state>>
  BY DEF CheckSizes, CheckInfo
<1>2. /\ UNCHANGED <<dec, pos, stop, remaining, input, finished, ob, idle, patched, source>>
      /\ patched \in 0..1
  BY <1>1 DEF state, source, Inv, TypeOK
<1>3. ASSUME NEW s \in Statuses \ {"OK", "ALLOC"}, Return(s), ~Genuine PROVE Inv'
  BY <1>1, <1>2, <1>3, ReturnKeepsInv
<1>4. CASE Return("ALLOC")
  BY <1>1, <1>2, <1>4, ReturnKeepsInv DEF Statuses
<1>5. ASSUME NEW next \in {"info", "plain", "open"}, Goto(next),
             next = "info" => ~request.null /\ ~TooLarge,
             next # "info" => Accepted /\ (next = "plain" <=> info.compressedSize = 0)
      PROVE  Inv'
  <2>1. pc' = next /\ UNCHANGED <<request, status>>
    BY <1>1, <1>5 DEF Goto
  <2>2. TypeOK'
    BY <1>2, <1>5, <2>1 DEF Inv, TypeOK
  <2>3. InOrder' /\ Accounted' /\ DecoderInv'
    BY <1>5, <2>1 DEF InOrder, Accounted, DecoderInv, Patching
  <2>4. CheckedInv'
    BY <1>5, <2>1 DEF CheckedInv, Patching, Accepted, TooLarge, SameSizes, TooMuch, Layout, WholeDelta, encoded, info
  <2>5. IdleInv'
    BY <1>1, <1>2, <1>5, <2>1 DEF Inv, IdleInv
  <2> QED
    BY <1>1, <1>5, <2>1, <2>2, <2>3, <2>4, <2>5, OngoingKeepsInv
<1>6. CASE CheckSizes
  <2>1. CASE request.null /\ Return("OPTION")
    BY <1>3, <2>1 DEF Statuses, Genuine
  <2>2. CASE TooLarge /\ Return("LIMIT")
    BY <1>3, <2>2 DEF Statuses, Genuine
  <2>3. CASE ~request.null /\ ~TooLarge /\ Goto("info")
    BY <1>5, <2>3
  <2> QED
    BY <1>6, <2>1, <2>2, <2>3 DEF CheckSizes
<1>7. CASE CheckInfo
  <2>1. CASE (~SameSizes \/ ~Layout) /\ Return("INVALID")
    BY <1>3, <2>1 DEF Statuses, Genuine
  <2>2. CASE TooMuch /\ Return("LIMIT")
    BY <1>3, <2>2 DEF Statuses, Genuine
  <2>3. CASE SameSizes /\ ~TooMuch /\ Layout /\ Goto(IF info.compressedSize = 0 THEN "plain" ELSE "open")
    <3>1. ~request.null /\ ~TooLarge
      BY <1>7 DEF CheckInfo, Inv, CheckedInv
    <3> QED
      BY <1>5, <2>3, <3>1 DEF Accepted
  <2> QED
    BY <1>4, <1>7, <2>1, <2>2, <2>3 DEF CheckInfo
<1> QED
  BY <1>6, <1>7

LEMMA PlainStep == ASSUME Inv, PatchPlain PROVE Inv'
<1>1. /\ pc = "plain" /\ UNCHANGED <<request, dec, source, ob, idle>> /\ patched' \in 0..1
      /\ Return(IF patched' = 1 THEN "OK" ELSE "INVALID")
  BY DEF PatchPlain
<1>2. info.compressedSize = 0
  BY <1>1 DEF Inv, CheckedInv
<1>3. ~Genuine
  BY <1>2 DEF Genuine
<1> QED
  BY <1>1, <1>2, <1>3, ReturnKeepsInv DEF Statuses

\* The layout of an accepted delta.
LEMMA Laid ==
    ASSUME request \in Requests, Accepted, info.compressedSize # 0
    PROVE  /\ info.diffDataPos + info.compressedSize = request.pn
           /\ info.diffDataPos <= request.pn /\ part.len = info.compressedSize
           /\ info.uncompressedSize <= PAYLOAD_MAX
<1>1. info.diffDataPos <= request.pn /\ info.compressedSize = request.pn - info.diffDataPos
  BY DEF Accepted, Layout, WholeDelta, encoded
<1>2. info.uncompressedSize <= PAYLOAD_MAX
  BY RequestType, LimitsAssumption DEF Accepted, TooMuch
<1> QED
  BY <1>1, <1>2, RequestType

LEMMA OpenStep == ASSUME Inv, OpenFails \/ Open PROVE Inv'
<1>1. /\ pc = "open" /\ request \in Requests /\ Accepted /\ info.compressedSize # 0
      /\ ob = Empty /\ patched \in 0..1 /\ dec \in [pos : Nat, flushed : Nat]
  BY DEF OpenFails, Open, Inv, TypeOK, CheckedInv, IdleInv
<1>2. Openable
  BY <1>1, Laid, RequestType DEF Openable
<1>3. CASE OpenFails
  <2>1. Return("ALLOC") /\ UNCHANGED <<request, dec, source, ob, idle, patched>>
    BY <1>2, <1>3 DEF OpenFails, state
  <2> QED
    BY <1>1, <2>1, ReturnKeepsInv DEF Statuses
<1>4. CASE Open
  <2>1. /\ pc' = "patch" /\ UNCHANGED <<request, status, ob, idle, patched>>
        /\ pos' = info.diffDataPos /\ stop' = info.diffDataPos + info.compressedSize
        /\ remaining' = info.uncompressedSize /\ input' = Empty /\ finished' = FALSE /\ dec' = Fresh
        /\ info' = info /\ part' = part
    BY <1>4 DEF Open, Goto, info, part
  <2>2. /\ info.diffDataPos \in Nat /\ info.compressedSize \in Nat /\ info.uncompressedSize \in Nat
        /\ request.pn \in Nat /\ stop' = request.pn /\ info.diffDataPos <= request.pn
    BY <1>1, <2>1, RequestType, Laid
  <2>3. TypeOK'
    <3>1. 0 \in 0..BUFFER
      BY LimitsAssumption
    <3> QED
      BY <2>1, <2>2, <3>1 DEF Inv, TypeOK, Fresh, Empty, Patching
  <2>4. InOrder'
    BY <2>1, <2>2 DEF InOrder, Fresh, Empty
  <2>5. Accounted'
    BY <1>1, <2>1, <2>2 DEF Accounted, Fresh, Empty
  <2>6. CheckedInv' /\ IdleInv'
    BY <1>1, <2>1 DEF CheckedInv, IdleInv, Patching, Accepted, TooLarge, SameSizes, TooMuch, Layout, WholeDelta,
       encoded
  <2>7. DecoderInv'
    <3>1. /\ part.len \in Nat /\ part.head = 1 /\ part.bad \in 1..(part.len + 1) /\ part.cum[0] = 0
          /\ part.ends \subseteq 1..part.len
      BY <1>1, RequestType
    <3>2. Reaches(dec.pos)'
      BY <2>1, <3>1 DEF Reaches, Fresh
    <3> QED
      BY <2>1, <3>1, <3>2 DEF DecoderInv, Fresh
  <2> QED
    BY <1>1, <2>1, <2>3, <2>4, <2>5, <2>6, <2>7, OngoingKeepsInv
<1> QED
  BY <1>3, <1>4

-------------------------------------------------------------------------------
\* What every lemma on a callback starts from: the state of Decompress.
LEMMA Decoding ==
    ASSUME Inv, pc \in Patching
    PROVE  /\ request \in Requests /\ Accepted /\ info.compressedSize # 0 /\ status = "NONE"
           /\ dec \in [pos : Nat, flushed : Nat] /\ dec.pos \in 0..part.len
           /\ pos \in Nat /\ stop = request.pn /\ pos <= stop /\ request.pn \in Nat
           /\ remaining \in Nat /\ finished \in BOOLEAN /\ patched \in 0..1
           /\ input \in [pos : 0..BUFFER, size : 0..BUFFER] /\ input.pos <= input.size
           /\ ob \in [pos : 0..PART_MAX, size : 0..PART_MAX] /\ ob.pos <= ob.size /\ ob.pos <= remaining
           /\ idle \in 0..MAX_IDLE
           /\ info.diffDataPos + dec.pos = pos - (input.size - input.pos)
           /\ dec.flushed + (remaining - ob.pos) = info.uncompressedSize
           /\ info.diffDataPos \in Nat /\ info.uncompressedSize \in Nat
           /\ part.len \in Nat /\ part.len = request.pn - info.diffDataPos
<1>1. request \in Requests /\ Accepted /\ info.compressedSize # 0 /\ status = "NONE"
  BY DEF Inv, TypeOK, CheckedInv, StatusInv, Patching
<1>2. stop = request.pn /\ part.len = request.pn - info.diffDataPos
  BY <1>1, Laid, RequestType DEF Inv, CheckedInv
<1> QED
  BY <1>1, <1>2, RequestType DEF Inv, TypeOK, InOrder, Accounted, DecoderInv

\* A refill happens only when nothing unread is left, and stays inside the delta; when it
\* brings nothing, the delta was read to its end.
LEMMA Refilled ==
    ASSUME Inv, pc \in Patching
    PROVE  /\ refill \in Nat /\ pos + refill <= stop
           /\ filled \in [pos : 0..BUFFER, size : 0..BUFFER] /\ filled.pos <= filled.size
           /\ info.diffDataPos + dec.pos = (pos + refill) - (filled.size - filled.pos)
           /\ avail \in dec.pos..part.len
           /\ avail = dec.pos => dec.pos = part.len
<1>1. refill \in Nat /\ pos + refill <= stop /\ refill <= BUFFER
  BY Decoding, LimitsAssumption DEF refill, min
<1>2. CASE refill = 0
  <2>1. filled = input
    BY <1>2 DEF filled
  <2>2. input.pos # input.size \/ pos = stop
    <3>1. pos \in Nat /\ stop \in Nat /\ pos <= stop /\ BUFFER \in Nat \ {0}
      BY Decoding, LimitsAssumption
    <3> QED
      BY <1>2, <3>1 DEF refill, min
  <2> QED
    BY <1>1, <1>2, <2>1, <2>2, Decoding DEF avail
<1>3. CASE refill # 0
  <2>1. filled.pos = 0 /\ filled.size = refill /\ filled = [pos |-> 0, size |-> refill]
    BY <1>3 DEF filled
  <2>2. input.pos = input.size
    BY <1>3 DEF refill
  <2>3. refill \in 0..BUFFER /\ 0 \in 0..BUFFER
    BY <1>1, LimitsAssumption
  <2> QED
    BY <1>1, <1>3, <2>1, <2>2, <2>3, Decoding DEF avail
<1> QED
  BY <1>2, <1>3

LEMMA AskStep == ASSUME Inv, AskPart \/ StopPatching PROVE Inv'
<1>1. /\ pc = "patch" /\ pc \in Patching /\ ob = Empty
      /\ UNCHANGED <<request, dec, source, idle, status>> /\ pc' \in {"part", "close"}
      /\ UNCHANGED <<pos, stop, remaining, input, finished>>
  BY DEF AskPart, StopPatching, Goto, Inv, IdleInv, Patching, source
<1>2. /\ ob' \in [pos : 0..PART_MAX, size : 0..PART_MAX] /\ ob'.pos = 0 /\ ob'.size >= 0
      /\ patched' \in 0..1 /\ (pc' # "part" => ob' = Empty)
      /\ pc' = "part" /\ ob'.size = 0 => idle < MAX_IDLE
  <2>1. CASE AskPart
    <3>1. PICK n \in 0..PART_MAX : (n = 0 => idle < MAX_IDLE) /\ ob' = [pos |-> 0, size |-> n]
      BY <2>1 DEF AskPart
    <3>2. n \in 0..PART_MAX /\ 0 \in 0..PART_MAX /\ patched' = patched /\ pc' = "part"
      BY <2>1, <3>1, LimitsAssumption DEF AskPart, Goto
    <3> QED
      BY <1>1, <3>1, <3>2, Decoding
  <2>2. CASE StopPatching
    <3>1. ob' = Empty /\ patched' \in 0..1 /\ 0 <= remaining
      BY <1>1, <2>2, Decoding DEF StopPatching
    <3>2. pc' = "close"
      BY <2>2 DEF StopPatching, Goto
    <3> QED
      BY <1>1, <3>1, <3>2, LimitsAssumption DEF Empty
  <2> QED
    BY <2>1, <2>2
<1>3. info' = info /\ part' = part
  BY <1>1 DEF info, part
<1>4. TypeOK'
  BY <1>1, <1>2 DEF Inv, TypeOK, Patching
<1>5. InOrder' /\ DecoderInv'
  BY <1>1, <1>3 DEF Inv, InOrder, DecoderInv, Reaches, Patching
<1>6. Accounted'
  <2>1. ob.pos = 0 /\ ob'.pos \in Nat /\ ob'.size \in Nat
    BY <1>1, <1>2, LimitsAssumption DEF Empty
  <2> QED
    BY <1>1, <1>2, <1>3, <2>1, Decoding DEF Accounted
<1>7. CheckedInv' /\ IdleInv'
  BY <1>1, <1>2, <1>3 DEF Inv, CheckedInv, IdleInv, Patching, Accepted, TooLarge, SameSizes, TooMuch, Layout,
     WholeDelta, encoded
<1> QED
  BY <1>1, <1>4, <1>5, <1>6, <1>7, OngoingKeepsInv

LEMMA PartEndsStep == ASSUME Inv, PartEnds PROVE Inv'
<1>1. /\ pc = "part" /\ pc \in Patching /\ ob.pos = ob.size /\ Holds
      /\ idle' = IF ob.size = 0 THEN idle + 1 ELSE idle
      /\ UNCHANGED <<request, status, dec, pos, stop, input, finished, patched>>
      /\ pc' = "patch" /\ remaining' = remaining - ob.size /\ ob' = Empty
  BY DEF PartEnds, Goto, Patching
<1>2. info' = info /\ part' = part
  BY <1>1 DEF info, part
<1>3. remaining' \in Nat /\ Empty \in [pos : 0..PART_MAX, size : 0..PART_MAX]
  BY <1>1, Decoding, LimitsAssumption DEF Empty, Holds
<1>3a. idle' \in 0..MAX_IDLE
  <2>1. idle \in 0..MAX_IDLE /\ (ob.size = 0 => idle < MAX_IDLE)
    BY <1>1, Decoding DEF Inv, IdleInv
  <2> QED
    BY <1>1, <2>1, LimitsAssumption
<1>4. TypeOK'
  BY <1>1, <1>3, <1>3a DEF Inv, TypeOK, Patching
<1>5. InOrder' /\ DecoderInv'
  BY <1>1, <1>2 DEF Inv, InOrder, DecoderInv, Reaches, Patching
<1>6. Accounted'
  BY <1>1, <1>2, <1>3, Decoding DEF Accounted, Empty
<1>7. CheckedInv' /\ IdleInv'
  BY <1>1, <1>2 DEF Inv, CheckedInv, IdleInv, Patching, Accepted, TooLarge, SameSizes, TooMuch, Layout, WholeDelta,
     encoded
<1> QED
  BY <1>1, <1>4, <1>5, <1>6, <1>7, OngoingKeepsInv

-------------------------------------------------------------------------------
\* Before the end of the frame, a wide window is still ahead of the decoder.
LEMMA Ahead ==
    ASSUME Inv, pc \in Patching, ~finished
    PROVE  /\ dec.pos \in Nat /\ dec.pos < part.bad
           /\ part.window > WINDOW_LOG_MAX /\ part.head < part.bad => dec.pos = 0
           /\ dec.pos < Bad(part, WINDOW_LOG_MAX, dec)
           /\ Bad(part, WINDOW_LOG_MAX, dec) \in 1..(part.len + 1)
<1>1. /\ part.head = 1 /\ part.len \in Nat /\ part.bad \in 1..(part.len + 1)
      /\ dec.pos \in 0..part.len
  BY Decoding, RequestType
<1>2. Reaches(dec.pos) /\ dec.pos \notin part.ends
  BY <1>1 DEF Inv, DecoderInv
<1>3. dec.pos < part.bad /\ (part.window > WINDOW_LOG_MAX /\ part.head < part.bad => dec.pos = 0)
  BY <1>1, <1>2 DEF Reaches
<1> QED
  BY <1>1, <1>3 DEF Bad, TooWide

\* A decoder that stops before the unit it rejects has passed no wide window.
LEMMA BeforeBad ==
    ASSUME Inv, pc \in Patching, ~finished, NEW q \in Nat, q < Bad(part, WINDOW_LOG_MAX, dec)
    PROVE  Reaches(q)
<1>1. part.head = 1 /\ part.len \in Nat /\ part.bad \in 1..(part.len + 1)
  BY Decoding, RequestType
<1>2. CASE part.window > WINDOW_LOG_MAX /\ part.head < part.bad
  BY <1>1, <1>2, Ahead DEF Bad, TooWide, Reaches
<1>3. CASE ~(part.window > WINDOW_LOG_MAX /\ part.head < part.bad)
  BY <1>1, <1>3 DEF Bad, TooWide, Reaches
<1> QED
  BY <1>2, <1>3

\* A frame decoded in one pass past a wide window is the first one: the buffer holds it and
\* it is of the size it states.
LEMMA PassReaches ==
    ASSUME Inv, pc \in Patching, ~finished, NEW room \in Nat, NEW r,
           r.pos \in 0..part.len, Passes(part, dec, avail, room, r)
    PROVE  Reaches(r.pos)
<1>1. /\ FrameAt(part, dec.pos, r.pos) /\ r.pos <= avail /\ r.pos \in part.ends
      /\ part.stated[dec.pos] \in 0..room /\ r.pos < part.bad
  BY DEF Passes, OnePass, FrameAt
<1>2. ASSUME part.window > WINDOW_LOG_MAX, part.head < part.bad
      PROVE  r.pos <= BUFFER /\ part.stated[0] = part.cum[r.pos]
  <2>1. dec.pos = 0
    BY <1>2, Ahead
  <2>2. r.pos <= BUFFER
    <3>1. PICK a, b, c : a = filled.pos /\ b = filled.size /\ c = r.pos
      OBVIOUS
    <3>2. a \in Nat /\ b \in Nat /\ b <= BUFFER /\ c \in Nat /\ part.len \in Nat
      BY <3>1, Refilled, Decoding, LimitsAssumption
    <3>3. c <= 0 + (b - a)
      BY <1>1, <2>1, <3>1 DEF avail
    <3> QED
      BY <3>1, <3>2, <3>3, LimitsAssumption
  <2>3. part.cum[r.pos] - part.cum[0] = part.stated[0]
    <3>1. part.stated[0] # -1
      BY <1>1, <2>1
    <3> QED
      BY <1>1, <2>1, <3>1, Decoding, RequestType
  <2>4. part.cum[0] = 0 /\ part.cum[r.pos] \in Nat
    BY Decoding, RequestType
  <2> QED
    BY <2>2, <2>3, <2>4
<1> QED
  BY <1>1, <1>2 DEF Reaches

\* An outcome of the decoder that is no error, and the state of Decompress after it.
LEMMA Taken ==
    ASSUME Inv, pc \in Patching, NEW room \in Nat, NEW r \in Outcomes(room), r.ret \in {"done", "more"}
    PROVE  /\ r.pos \in dec.pos..avail /\ r.flushed \in dec.flushed..(dec.flushed + room)
           /\ r.pos \in 0..part.len /\ r.flushed \in Nat
           /\ ~finished =>
                /\ Reaches(r.pos)
                /\ r.flushed <= part.cum[r.pos]
                /\ r.ret = "more" => \A e \in part.ends : r.pos < e
                /\ r.ret = "done" => /\ r.pos \in part.ends /\ \A e \in part.ends : r.pos <= e
                                     /\ r.flushed = part.cum[r.pos]
<1>0. dec.pos \in Nat /\ avail \in Nat
  BY Decoding, Refilled
<1>1. /\ r.pos \in dec.pos..avail /\ r.flushed \in dec.flushed..(dec.flushed + room)
      /\ \/ Advances(part, WINDOW_LOG_MAX, dec, r)
         \/ r.ret = "done" /\ Passes(part, dec, avail, room, r)
         \/ r.ret = "more" /\ r.pos = dec.pos /\ r.flushed = dec.flushed
      /\ r.ret = "done" => r.pos \in part.ends /\ r.pos # dec.pos
      /\ r.ret = "more" /\ r.pos # dec.pos => r.pos \notin part.ends
  BY <1>0, CallCases DEF Progress
<1>2. r.pos \in 0..part.len /\ r.flushed \in Nat
  BY <1>1, Decoding, Refilled
<1>3. ASSUME ~finished
      PROVE  /\ Reaches(r.pos) /\ r.flushed <= part.cum[r.pos]
             /\ r.ret = "more" => \A e \in part.ends : r.pos < e
             /\ r.ret = "done" => /\ r.pos \in part.ends /\ \A e \in part.ends : r.pos <= e
                                  /\ r.flushed = part.cum[r.pos]
  <2>1. /\ dec.flushed <= part.cum[dec.pos]
        /\ \A e \in part.ends : dec.pos < e
    BY <1>3 DEF Inv, DecoderInv
  <2>2. part.ends \subseteq 1..part.len
    BY Decoding, RequestType
  <2>3. CASE Advances(part, WINDOW_LOG_MAX, dec, r)
    <3>0. r.pos < Bad(part, WINDOW_LOG_MAX, dec)
      BY <2>3 DEF Advances
    <3>1. /\ Reaches(r.pos) /\ r.flushed <= part.cum[r.pos]
          /\ r.pos > dec.pos => part.cum[r.pos - 1] <= r.flushed
          /\ \A e \in part.ends : ~(dec.pos < e /\ e < r.pos)
      BY <1>2, <1>3, <2>3, <3>0, BeforeBad DEF Advances, SameFrame
    <3>2. \A e \in part.ends : r.pos <= e
      BY <1>2, <2>1, <2>2, <3>1
    <3>3. r.ret = "more" => \A e \in part.ends : r.pos < e
      BY <1>1, <1>2, <2>1, <2>2, <3>2
    <3>4. r.ret = "done" => r.flushed = part.cum[r.pos]
      <4> SUFFICES ASSUME r.ret = "done" PROVE r.flushed = part.cum[r.pos]
        OBVIOUS
      <4>0. r.pos \in part.ends /\ r.pos # dec.pos /\ r.pos \in dec.pos..avail
        BY <1>1
      <4>1. r.pos \in part.ends /\ r.pos > dec.pos
        BY <1>0, <4>0
      <4>2. part.cum[r.pos] = part.cum[r.pos - 1] /\ part.cum[r.pos] \in Nat
        BY <1>2, <4>1, Decoding, RequestType
      <4> QED
        BY <1>2, <3>1, <4>1, <4>2
    <3> QED
      BY <1>1, <3>1, <3>2, <3>3, <3>4
  <2>4. CASE r.ret = "more" /\ r.pos = dec.pos /\ r.flushed = dec.flushed
    BY <2>1, <2>4 DEF Inv, DecoderInv
  <2>5. CASE r.ret = "done" /\ Passes(part, dec, avail, room, r)
    <3>1. r.flushed = part.cum[r.pos] /\ SameFrame(part, dec.pos, r.pos) /\ r.pos \in part.ends
      BY <2>5 DEF Passes, OnePass, FrameAt
    <3>2. Reaches(r.pos)
      BY <1>2, <1>3, <2>5, PassReaches
    <3>3. \A e \in part.ends : r.pos <= e
      BY <1>2, <2>1, <2>2, <3>1 DEF SameFrame
    <3>4. part.cum[r.pos] \in Nat
      BY <1>2, Decoding, RequestType
    <3> QED
      BY <2>5, <3>1, <3>2, <3>3, <3>4
  <2> QED
    BY <1>1, <2>3, <2>4, <2>5
<1> QED
  BY <1>1, <1>2, <1>3

\* A turn of decompress_part or of close.
LEMMA TurnStep == ASSUME Inv, PartTurn \/ CloseTurn PROVE Inv'
<1> DEFINE room == IF pc = "part" THEN ob.size - ob.pos ELSE 1
<1>1. pc \in {"part", "close"} /\ pc \in Patching /\ ~finished /\ UNCHANGED <<request, pc, idle, patched, status>>
  BY DEF PartTurn, CloseTurn, Patching
<1>2. room \in Nat
  BY <1>1, Decoding
<1>3. PICK r \in Outcomes(room) :
          /\ r.ret \in {"done", "more"} /\ Take(r)
          /\ ob' = IF pc = "part" THEN [ob EXCEPT !.pos = @ + (r.flushed - dec.flushed)] ELSE ob
          /\ pc = "close" => r.flushed = dec.flushed
  BY DEF PartTurn, CloseTurn
<1> HIDE DEF room
<1>4. /\ r.pos \in dec.pos..avail /\ r.flushed \in dec.flushed..(dec.flushed + room)
      /\ r.pos \in 0..part.len /\ r.flushed \in Nat
      /\ Reaches(r.pos)
      /\ r.flushed <= part.cum[r.pos]
      /\ r.ret = "more" => \A e \in part.ends : r.pos < e
      /\ r.ret = "done" => /\ r.pos \in part.ends /\ \A e \in part.ends : r.pos <= e
                           /\ r.flushed = part.cum[r.pos]
  BY <1>1, <1>2, <1>3, Taken
<1>5. /\ dec' = [pos |-> r.pos, flushed |-> r.flushed] /\ pos' = pos + refill
      /\ input' = [filled EXCEPT !.pos = @ + (r.pos - dec.pos)] /\ finished' = (r.ret = "done")
      /\ stop' = stop /\ remaining' = remaining /\ info' = info /\ part' = part
  BY <1>1, <1>3 DEF Take, info, part
<1>6. /\ input'.pos = filled.pos + (r.pos - dec.pos) /\ input'.size = filled.size
      /\ input' \in [pos : 0..BUFFER, size : 0..BUFFER] /\ input'.pos <= input'.size
  <2>1. filled.pos + (r.pos - dec.pos) \in 0..filled.size
    BY <1>1, <1>4, Decoding, Refilled DEF avail
  <2>2. input' = [pos |-> filled.pos + (r.pos - dec.pos), size |-> filled.size]
    BY <1>1, <1>5, Refilled
  <2>3. filled.pos + (r.pos - dec.pos) \in 0..BUFFER /\ filled.size \in 0..BUFFER
    BY <1>1, <2>1, Refilled, LimitsAssumption
  <2> QED
    BY <2>1, <2>2, <2>3
<1>7. /\ ob'.pos = ob.pos + (r.flushed - dec.flushed) /\ ob'.size = ob.size
      /\ ob' \in [pos : 0..PART_MAX, size : 0..PART_MAX] /\ ob'.pos <= ob'.size
      /\ ob'.pos <= remaining
  <2>1. ob' = [pos |-> ob.pos + (r.flushed - dec.flushed), size |-> ob.size]
    BY <1>1, <1>3, Decoding
  <2>2. ob.pos + (r.flushed - dec.flushed) \in 0..ob.size
    BY <1>1, <1>3, <1>4, Decoding DEF room
  <2>3. ob.pos + (r.flushed - dec.flushed) \in 0..PART_MAX /\ ob.size \in 0..PART_MAX
    BY <1>1, <2>2, Decoding, LimitsAssumption
  <2>4. ob.pos + (r.flushed - dec.flushed) <= remaining
    <3>1. CASE pc = "part"
      <4>1. ob.size <= remaining
        BY <1>1, <3>1 DEF PartTurn, CloseTurn, Holds
      <4>2. ob.pos + (r.flushed - dec.flushed) \in Nat /\ ob.size \in Nat /\ remaining \in Nat
        BY <1>1, <2>2, Decoding, LimitsAssumption
      <4> QED
        BY <2>2, <4>1, <4>2
    <3>2. CASE pc = "close"
      <4>1. r.flushed = dec.flushed /\ ob.pos <= remaining /\ ob.pos \in Nat /\ dec.flushed \in Nat
        BY <1>1, <1>3, <3>2, Decoding, LimitsAssumption
      <4> QED
        BY <4>1
    <3> QED
      BY <1>1, <3>1, <3>2
  <2> QED
    BY <2>1, <2>2, <2>3, <2>4
<1>8. TypeOK'
  BY <1>1, <1>4, <1>5, <1>6, <1>7, Decoding, Refilled DEF Inv, TypeOK, Patching
<1>9. InOrder'
  BY <1>1, <1>4, <1>5, <1>6, Decoding, Refilled DEF InOrder
<1>10. Accounted'
  BY <1>1, <1>4, <1>5, <1>7, Decoding DEF Accounted
<1>11. CheckedInv'
  BY <1>1, <1>5 DEF Inv, CheckedInv, Patching, Accepted, TooLarge, SameSizes, TooMuch, Layout, WholeDelta, encoded
<1>12. IdleInv'
  BY <1>1, <1>3, <1>7 DEF Inv, IdleInv, Patching
<1>13. DecoderInv'
  <2>1. Reaches(dec.pos)'
    BY <1>4, <1>5 DEF Reaches
  <2> QED
    BY <1>3, <1>4, <1>5, <2>1 DEF DecoderInv
<1> QED
  BY <1>1, <1>8, <1>9, <1>10, <1>11, <1>12, <1>13, OngoingKeepsInv DEF Patching

-------------------------------------------------------------------------------
\* An unread end means the decoder has not met the end of the frame.
LEMMA GenuineEnds ==
    ASSUME Inv, pc \in Patching, Genuine
    PROVE  /\ part.ends = {part.len} /\ part.len \in 1..part.len
           /\ part.cum[part.len] = info.uncompressedSize
           /\ Bad(part, WINDOW_LOG_MAX, dec) = part.bad /\ part.bad > part.len
           /\ finished => dec.pos = part.len /\ dec.flushed = info.uncompressedSize
           /\ ~finished => dec.pos < part.len
<1>1. /\ part.ends = {part.len} /\ part.cum[part.len] = info.uncompressedSize /\ part.bad > part.len
      /\ part.window <= WINDOW_LOG_MAX
  BY DEF Genuine, OneFrame
<1>2. part.len \in 1..part.len /\ part.window \in Nat
  BY <1>1, Decoding, RequestType
<1>3. Bad(part, WINDOW_LOG_MAX, dec) = part.bad
  BY <1>1, <1>2, LimitsAssumption DEF Bad, TooWide
<1> QED
  BY <1>1, <1>2, <1>3 DEF Inv, DecoderInv

\* A genuine frame gives the decoder no cause to fail but a lack of memory, and a decoder
\* with input left makes progress.
LEMMA GenuineGoesOn ==
    ASSUME Inv, pc \in Patching, Genuine, ~finished, NEW room \in Nat, NEW r \in Outcomes(room)
    PROVE  /\ r.ret \notin {"corrupt", "window"}
           /\ r.ret \in {"done", "more"} => Progress(r)
<1>0. dec.pos \in Nat /\ avail \in Nat
  BY Decoding, Refilled
<1>1. /\ r.ret \in {"corrupt", "window"} =>
             \/ Rejects(part, WINDOW_LOG_MAX, dec, avail, room)
             \/ PassFails(part, dec, avail, room)
      /\ r.ret = "done" => r.pos # dec.pos
      /\ r.ret = "more" /\ r.pos = dec.pos /\ r.flushed = dec.flushed => Starved(part, dec, avail)
  BY <1>0, CallCases DEF Progress
<1>2. Bad(part, WINDOW_LOG_MAX, dec) > part.len /\ dec.pos < part.len /\ avail \in dec.pos..part.len
      /\ (avail = dec.pos => dec.pos = part.len) /\ part.len \in Nat
  BY GenuineEnds, Refilled, Decoding
<1>3. ~Rejects(part, WINDOW_LOG_MAX, dec, avail, room)
  <2>1. Bad(part, WINDOW_LOG_MAX, dec) \in Int
    BY Ahead, Decoding
  <2> QED
    BY <1>2, <2>1, Decoding DEF Rejects
<1>3a. ~PassFails(part, dec, avail, room)
  <2>1. part.ends = {part.len} /\ part.bad > part.len /\ part.bad \in Nat
    BY GenuineEnds, Decoding, RequestType
  <2> QED
    BY <1>2, <2>1 DEF PassFails
<1>4. ~Starved(part, dec, avail)
  BY <1>2, Decoding DEF Starved
<1> QED
  BY <1>1, <1>3, <1>3a, <1>4 DEF Progress

LEMMA ErrorStatuses ==
    ASSUME NEW ret \in {"corrupt", "window", "memory"}
    PROVE  ErrorStatus(ret) \in Statuses \ {"OK"} /\ (ret = "memory" => ErrorStatus(ret) = "ALLOC")
  BY DEF ErrorStatus, Statuses

LEMMA FailsStep == ASSUME Inv, PartRefused \/ PartFails \/ CloseEarly \/ CloseFails PROVE Inv'
<1>1. /\ pc \in {"part", "close"} /\ pc \in Patching
      /\ UNCHANGED <<request, dec, source, ob, idle, patched>> /\ patched' \in 0..1
  BY DEF PartRefused, PartFails, CloseEarly, CloseFails, Patching, state, Inv, TypeOK
<1>1a. dec.pos \in Nat /\ avail \in Nat
  BY <1>1, Decoding, Refilled
<1>2. ASSUME NEW s \in Statuses \ {"OK"}, Return(s), s # "ALLOC" => ~Genuine \/ ClosedUnread \/ AskedTooMuch
      PROVE  Inv'
  BY <1>1, <1>2, ReturnKeepsInv
<1>3. ASSUME ~finished, NEW room \in Nat, NEW r \in Outcomes(room), r.ret \notin {"done", "more"},
             Return(ErrorStatus(r.ret))
      PROVE  Inv'
  <2>1. r.ret \in {"corrupt", "window", "memory"}
    BY <1>1a, <1>3, CallCases
  <2>2. r.ret # "memory" => ~Genuine
    BY <1>1, <1>3, <2>1, GenuineGoesOn
  <2> QED
    BY <1>2, <1>3, <2>1, <2>2, ErrorStatuses
<1>4. ASSUME ~finished, NEW room \in Nat, NEW r \in Outcomes(room), r.ret \in {"done", "more"}, ~Progress(r),
             Return("INVALID")
      PROVE  Inv'
  BY <1>1, <1>2, <1>4, GenuineGoesOn DEF Statuses
<1>5. CASE PartFails
  <2>1. pc = "part" /\ ob.pos < ob.size /\ ob.size - ob.pos \in Nat /\ ob.size <= remaining
    BY <1>1, <1>5, Decoding DEF PartFails, Holds
  <2>2. CASE finished /\ Return("INVALID")
    <3>1. ~Genuine
      BY <1>1, <2>1, <2>2, GenuineEnds, Decoding
    <3> QED
      BY <1>2, <2>2, <3>1 DEF Statuses
  <2> QED
    BY <1>3, <1>4, <1>5, <2>1, <2>2 DEF PartFails
<1>5a. CASE PartRefused
  <2>1. AskedTooMuch
    BY <1>1, <1>5a, Decoding, LimitsAssumption DEF PartRefused, Holds, AskedTooMuch
  <2> QED
    BY <1>2, <1>5a, <2>1 DEF PartRefused, Statuses
<1>6. CASE CloseEarly
  <2>1. ClosedUnread
    BY <1>6 DEF CloseEarly, ClosedUnread, Inv, IdleInv
  <2> QED
    BY <1>2, <1>6, <2>1 DEF CloseEarly, Statuses
<1>7. CASE CloseFails
  <2>1. PICK r \in Outcomes(1) :
            \/ r.ret \notin {"done", "more"} /\ Return(ErrorStatus(r.ret))
            \/ r.ret \in {"done", "more"} /\ r.flushed # dec.flushed /\ Return("INVALID")
            \/ r.ret = "more" /\ r.flushed = dec.flushed /\ r.pos = dec.pos /\ Return("INVALID")
    BY <1>7 DEF CloseFails
  <2>2. ~finished /\ remaining = 0 /\ ob = Empty /\ 1 \in Nat
    BY <1>7 DEF CloseFails, Inv, IdleInv
  <2>3. CASE r.ret \in {"done", "more"} /\ r.flushed # dec.flushed /\ Return("INVALID")
    <3>1. ASSUME Genuine PROVE FALSE
      <4>1. dec.flushed = info.uncompressedSize
        BY <1>1, <2>2, Decoding DEF Empty
      <4>2. r.flushed <= part.cum[r.pos] /\ r.pos \in 0..part.len /\ r.flushed \in dec.flushed..(dec.flushed + 1)
        BY <1>1, <2>2, <2>3, Taken
      <4>3. part.cum[r.pos] <= part.cum[part.len] /\ part.cum[r.pos] \in Nat
        BY <1>1, <4>2, Decoding, RequestType
      <4> QED
        BY <1>1, <2>3, <3>1, <4>1, <4>2, <4>3, GenuineEnds, Decoding
    <3> QED
      BY <1>2, <2>3, <3>1 DEF Statuses
  <2> QED
    BY <1>3, <1>4, <2>1, <2>2, <2>3 DEF Progress
<1> QED
  BY <1>5, <1>5a, <1>6, <1>7

\* The end of the stream decides: a patch succeeds only over a delta that is one frame.
LEMMA CloseEndsStep == ASSUME Inv, CloseEnds PROVE Inv'
<1>1. /\ pc = "close" /\ pc \in Patching /\ remaining = 0 /\ finished /\ ob = Empty
      /\ UNCHANGED <<request, dec, source, ob, idle, patched>> /\ patched' \in 0..1
      /\ Return(IF Closed /\ patched = 1 THEN "OK" ELSE "INVALID")
  BY DEF CloseEnds, Patching, state, Inv, TypeOK, IdleInv
<1>2. /\ dec.pos \in part.ends /\ \A e \in part.ends : dec.pos <= e
      /\ dec.flushed = part.cum[dec.pos] /\ Reaches(dec.pos)
      /\ dec.flushed = info.uncompressedSize
  BY <1>1, Decoding DEF Inv, DecoderInv, Empty
<1>3. /\ part.ends \subseteq 1..part.len /\ part.head = 1 /\ part.bad \in 1..(part.len + 1)
      /\ part.window \in Nat /\ part.len \in Nat
  BY <1>1, Decoding, RequestType
<1>4. CASE Closed /\ patched = 1
  <2>1. dec.pos = part.len
    BY <1>1, <1>4, Decoding DEF Closed
  <2>2. part.ends = {part.len}
    BY <1>2, <1>3, <2>1
  <2>4. part.bad > part.len
    BY <1>2, <1>3, <2>1 DEF Reaches
  <2>5. part.window <= WINDOW_LOG_MAX \/ NeedsNoWindow
    <3>1. part.head < part.bad /\ dec.pos >= part.head
      BY <1>2, <1>3, <2>1, <2>4
    <3>2. ASSUME part.window > WINDOW_LOG_MAX PROVE NeedsNoWindow
      BY <1>2, <2>1, <3>1, <3>2 DEF Reaches, NeedsNoWindow
    <3> QED
      BY <1>3, <3>2, LimitsAssumption
  <2>6. OneFrame(part, info.uncompressedSize)
    BY <1>2, <2>1, <2>2, <2>4 DEF OneFrame
  <2> QED
    BY <1>1, <1>4, <2>5, <2>6, ReturnKeepsInv DEF Statuses
<1>5. CASE ~(Closed /\ patched = 1)
  <2>1. ASSUME Genuine, patched = 1 PROVE FALSE
    <3>1. dec.pos = part.len
      BY <1>1, <2>1, GenuineEnds
    <3>2. Closed
      BY <1>1, <3>1, Decoding DEF Closed
    <3> QED
      BY <1>5, <2>1, <3>2
  <2> QED
    BY <1>1, <1>5, <2>1, ReturnKeepsInv DEF Statuses
<1> QED
  BY <1>4, <1>5

LEMMA StutterStep == ASSUME Inv, UNCHANGED vars PROVE Inv'
<1>1. /\ UNCHANGED <<request, pc, dec, pos, stop, remaining, input, finished, ob, idle, patched, status>>
      /\ info' = info /\ part' = part
  BY DEF vars, info, part
<1>2. TypeOK'
  BY <1>1 DEF Inv, TypeOK
<1>3. InOrder' /\ Accounted'
  BY <1>1 DEF Inv, InOrder, Accounted
<1>4. CheckedInv' /\ IdleInv' /\ StatusInv'
  <2>1. Accepted' <=> Accepted
    BY <1>1 DEF Accepted, TooLarge, SameSizes, TooMuch, Layout, WholeDelta, encoded
  <2>2. TooLarge' <=> TooLarge
    BY <1>1 DEF TooLarge
  <2> QED
    BY <1>1, <2>1, <2>2 DEF Inv, CheckedInv, IdleInv, StatusInv
<1>5. DecoderInv'
  BY <1>1 DEF Inv, DecoderInv, Reaches
<1>6. OnlyOneFrame'
  BY <1>1 DEF Inv, OnlyOneFrame, NeedsNoWindow
<1>7. GenuinePatches'
  <2>1. Genuine' <=> Genuine
    BY <1>1 DEF Genuine, TooLarge, SameSizes, TooMuch, Layout, WholeDelta, encoded
  <2>2. (ClosedUnread' <=> ClosedUnread) /\ (AskedTooMuch' <=> AskedTooMuch)
    BY <1>1 DEF ClosedUnread, AskedTooMuch
  <2> QED
    BY <1>1, <2>1, <2>2 DEF Inv, GenuinePatches
<1> QED
  BY <1>2, <1>3, <1>4, <1>5, <1>6, <1>7 DEF Inv

LEMMA NextInv == ASSUME Inv, [Next]_vars PROVE Inv'
  BY ChecksStep, PlainStep, OpenStep, AskStep, PartEndsStep, TurnStep, FailsStep, CloseEndsStep, StutterStep
     DEF Next

-------------------------------------------------------------------------------
\* The invariant holds in every state of every call.
THEOREM Invariance == Spec => []Inv
<1>1. Init => Inv
  BY InitInv
<1>2. Inv /\ [Next]_vars => Inv'
  BY NextInv
<1> QED
  BY <1>1, <1>2, PTL DEF Spec

\* Every variable keeps its type.
THEOREM TypeCorrect == Spec => []TypeOK
<1>1. Inv => TypeOK
  BY DEF Inv
<1> QED
  BY <1>1, Invariance, PTL

\* Between the delta, the buffer, the decoder and HDiffPatch nothing is lost, repeated or
\* read outside the delta, in whatever parts HDiffPatch asks for the stream.
THEOREM Safety == Spec => []NothingLost
<1>1. Inv => NothingLost
  BY DEF Inv, NothingLost
<1> QED
  BY <1>1, Invariance, PTL

\* A patch succeeds only when the delta ends with one whole frame of exactly the size it
\* states, in a window the decoder grants or, whole in the buffer, needing none.
THEOREM Sound == Spec => []OnlyOneFrame
<1>1. Inv => OnlyOneFrame
  BY DEF Inv
<1> QED
  BY <1>1, Invariance, PTL

\* A delta as the encoder makes it is never refused, wherever the refills and the parts
\* fall, unless memory runs out or HDiffPatch itself gives up or asks for more than is left.
THEOREM Complete == Spec => []GenuinePatches
<1>1. Inv => GenuinePatches
  BY DEF Inv
<1> QED
  BY <1>1, Invariance, PTL
-------------------------------------------------------------------------------
(***************************************************************************)
(* How long a call takes.                                                  *)
(***************************************************************************)
Rank ==
    CASE pc = "start" -> 6 [] pc = "info" -> 5 [] pc \in {"plain", "open"} -> 4
      [] pc = "patch" -> 3 [] pc = "part" -> 2 [] pc = "close" -> 1

\* What is still to be done: input to take, output to deliver, and for each byte HDiffPatch
\* may still ask for, and each empty part, the two steps that begin and end a callback.
StepsLeft ==
    IF pc = "done" THEN 0
    ELSE IF pc \in Patching
    THEN Rank + (part.len - dec.pos) + 2 * remaining + (remaining - ob.pos) + 2 * (MAX_IDLE - idle)
    ELSE Rank + part.len + 3 * info.uncompressedSize + 2 * MAX_IDLE

LEMMA StepsLeftType ==
    ASSUME Inv
    PROVE  /\ StepsLeft \in Nat
           /\ pc # "done" => StepsLeft > 0 /\ Rank \in 1..6
           /\ part.len \in Nat /\ info.uncompressedSize \in Nat
<1>1. part.len \in Nat /\ info.uncompressedSize \in Nat
  BY RequestType DEF Inv, TypeOK
<1>2. ASSUME pc # "done" PROVE Rank \in 1..6
  BY <1>2 DEF Inv, TypeOK, Rank, Patching
<1>3. CASE pc \in Patching
  <2>1. /\ dec.pos \in 0..part.len /\ remaining \in Nat /\ ob.pos \in Nat /\ ob.pos <= remaining
        /\ pc # "done" /\ idle \in 0..MAX_IDLE
    BY <1>3, Decoding, LimitsAssumption DEF Patching
  <2>2. /\ part.len - dec.pos \in Nat /\ remaining - ob.pos \in Nat /\ 2 * remaining \in Nat
        /\ 2 * (MAX_IDLE - idle) \in Nat
    BY <1>1, <2>1, LimitsAssumption
  <2> QED
    BY <1>1, <1>2, <1>3, <2>1, <2>2 DEF StepsLeft
<1>4. CASE pc \notin Patching /\ pc # "done"
  BY <1>1, <1>2, <1>4, LimitsAssumption DEF StepsLeft
<1>5. CASE pc = "done"
  BY <1>1, <1>5 DEF StepsLeft
<1> QED
  BY <1>1, <1>2, <1>3, <1>4, <1>5

\* A turn of decompress_part or of close takes input or delivers output.
LEMMA TurnAdvances ==
    ASSUME Inv, PartTurn \/ CloseTurn
    PROVE  /\ dec'.pos \in Nat /\ ob'.pos \in Nat /\ dec.pos <= dec'.pos /\ ob.pos <= ob'.pos
           /\ dec.pos < dec'.pos \/ ob.pos < ob'.pos
<1>1. /\ pc \in Patching /\ dec.pos \in Nat /\ dec.flushed \in Nat /\ ob.pos \in Nat
      /\ ob \in [pos : 0..PART_MAX, size : 0..PART_MAX] /\ ob.size - ob.pos \in Nat
  <2>1. pc \in Patching
    BY DEF PartTurn, CloseTurn, Patching
  <2> QED
    BY <2>1, Decoding, LimitsAssumption
<1>2. CASE PartTurn
  <2>1. PICK r \in Outcomes(ob.size - ob.pos) :
          /\ r.ret \in {"done", "more"} /\ Progress(r)
          /\ Take(r)
          /\ ob' = [ob EXCEPT !.pos = @ + (r.flushed - dec.flushed)]
    BY <1>2 DEF PartTurn
  <2>2. r.pos \in dec.pos..avail /\ r.flushed \in Nat /\ r.flushed >= dec.flushed /\ r.pos \in Nat
    BY <1>1, <2>1, Taken
  <2>3. dec'.pos = r.pos /\ ob'.pos = ob.pos + (r.flushed - dec.flushed)
    BY <1>1, <2>1 DEF Take
  <2>4. r.pos >= dec.pos
    BY <1>1, <2>2, Refilled
  <2>5. CASE r.pos # dec.pos
    BY <1>1, <2>2, <2>3, <2>4, <2>5
  <2>6. CASE r.flushed # dec.flushed
    BY <1>1, <2>2, <2>3, <2>4, <2>6
  <2> QED
    BY <2>1, <2>5, <2>6 DEF Progress
<1>3. CASE CloseTurn
  <2>1. PICK r \in Outcomes(1) :
          /\ r.ret \in {"done", "more"}
          /\ r.ret = "done" \/ r.pos # dec.pos
          /\ Take(r)
    BY <1>3 DEF CloseTurn
  <2>2. r.pos \in dec.pos..avail /\ r.pos # dec.pos /\ r.pos \in Nat
    BY <1>1, <2>1, Taken, CallCases, Refilled
  <2>3. dec'.pos = r.pos /\ ob' = ob
    BY <1>3, <2>1 DEF Take, CloseTurn
  <2>4. r.pos >= dec.pos
    BY <1>1, <2>2, Refilled
  <2> QED
    BY <1>1, <2>2, <2>3, <2>4
<1> QED
  BY <1>2, <1>3

LEMMA StepsDecrease == ASSUME Inv, Inv', Next PROVE StepsLeft' < StepsLeft
<1>1. /\ pc # "done" /\ part' = part /\ info' = info
  BY DEF Next, CheckSizes, CheckInfo, PatchPlain, OpenFails, Open, AskPart, StopPatching, PartRefused,
         PartTurn, PartFails, PartEnds, CloseEarly, CloseTurn, CloseFails, CloseEnds, part, info
<1>2. CASE pc' = "done"
  BY <1>1, <1>2, StepsLeftType DEF StepsLeft
<1>3. CASE pc' # "done"
  <2>1. PICK k, p, f, o, a, l, q, g, h, b, n, m :
          /\ k = Rank /\ p = dec.pos /\ f = remaining /\ o = ob.pos /\ a = MAX_IDLE - idle
          /\ l = Rank' /\ q = dec'.pos /\ g = remaining' /\ h = ob'.pos /\ b = MAX_IDLE - idle'
          /\ n = part.len /\ m = info.uncompressedSize
    OBVIOUS
  <2>2. /\ pc \in Patching => StepsLeft = k + (n - p) + 2 * f + (f - o) + 2 * a
        /\ pc \notin Patching => StepsLeft = k + n + 3 * m + 2 * MAX_IDLE
    BY <1>1, <2>1 DEF StepsLeft
  <2>3. /\ pc' \in Patching => StepsLeft' = l + (n - q) + 2 * g + (g - h) + 2 * b
        /\ pc' \notin Patching => StepsLeft' = l + n + 3 * m + 2 * MAX_IDLE
    BY <1>1, <1>3, <2>1 DEF StepsLeft
  <2>4. n \in Nat /\ m \in Nat /\ k \in Nat /\ MAX_IDLE \in Nat
    BY <1>1, <2>1, StepsLeftType, LimitsAssumption
  <2>5. /\ p \in Nat /\ f \in Nat /\ q \in Nat /\ g \in Nat /\ o \in Nat /\ h \in Nat
    BY <2>1, LimitsAssumption DEF Inv, TypeOK
  <2>5a. a \in Nat /\ b \in Nat /\ a <= MAX_IDLE /\ b <= MAX_IDLE /\ idle \in Nat
    <3>1. idle \in 0..MAX_IDLE /\ idle' \in 0..MAX_IDLE
      BY DEF Inv, TypeOK
    <3>2. PICK i, j, c : i = idle /\ j = idle' /\ c = MAX_IDLE
      OBVIOUS
    <3>3. i \in Nat /\ j \in Nat /\ c \in Nat /\ i <= c /\ j <= c
      BY <3>1, <3>2, LimitsAssumption
    <3>4. a = c - i /\ b = c - j
      BY <2>1, <3>2
    <3>5. a \in Nat /\ b \in Nat /\ a <= c /\ b <= c
      BY <3>3, <3>4
    <3> QED
      BY <3>2, <3>3, <3>5
  <2>6. CASE CheckSizes \/ CheckInfo
    <3>1. l < k /\ pc \notin Patching /\ pc' \notin Patching /\ l \in Nat
      BY <1>3, <2>1, <2>6 DEF CheckSizes, CheckInfo, Return, Goto, Rank, Patching
    <3> QED
      BY <2>2, <2>3, <2>4, <3>1
  <2>7. CASE Open
    <3>1. k = 4 /\ l = 3 /\ pc \notin Patching /\ pc' \in Patching /\ q = 0 /\ g = m
      BY <2>1, <2>7 DEF Open, Goto, Rank, Patching, Fresh
    <3>2. h = 0
      BY <2>1, <2>7 DEF Open, Inv, IdleInv, Empty
    <3> QED
      BY <2>2, <2>3, <2>4, <2>5a, <3>1, <3>2
  <2>8. CASE AskPart \/ StopPatching
    <3>1. k = 3 /\ l \in 1..2 /\ pc \in Patching /\ pc' \in Patching /\ q = p /\ g = f /\ b = a
      BY <2>1, <2>8 DEF AskPart, StopPatching, Goto, Rank, Patching, source
    <3>2. h = 0 /\ o = 0
      BY <2>1, <2>8 DEF AskPart, StopPatching, Inv, IdleInv, Empty
    <3> QED
      BY <2>2, <2>3, <2>4, <2>5, <2>5a, <3>1, <3>2
  <2>9. CASE PartTurn \/ CloseTurn
    <3>1. l = k /\ pc \in Patching /\ pc' \in Patching /\ g = f /\ b = a
      BY <2>1, <2>9 DEF PartTurn, CloseTurn, Take, Rank, Patching
    <3>2. p <= q /\ o <= h /\ (p < q \/ o < h)
      BY <2>1, <2>9, TurnAdvances
    <3> QED
      BY <2>2, <2>3, <2>4, <2>5, <2>5a, <3>1, <3>2
  <2>10. CASE PartEnds
    <3>1. k = 2 /\ l = 3 /\ pc \in Patching /\ pc' \in Patching /\ q = p /\ g = f - o /\ h = 0
      BY <2>1, <2>10 DEF PartEnds, Goto, Rank, Patching, Empty
    <3>2. o = ob.size /\ idle' = IF ob.size = 0 THEN idle + 1 ELSE idle
      BY <2>1, <2>10 DEF PartEnds
    <3>3. CASE o = 0
      <4>1. b = a - 1
        BY <2>1, <2>4, <2>5a, <3>2, <3>3
      <4> QED
        BY <2>2, <2>3, <2>4, <2>5, <2>5a, <3>1, <3>3, <4>1
    <3>4. CASE o # 0
      <4>1. b = a
        BY <2>1, <3>2, <3>4
      <4> QED
        BY <2>2, <2>3, <2>4, <2>5, <2>5a, <3>1, <3>4, <4>1
    <3> QED
      BY <3>3, <3>4
  <2> QED
    BY <1>3, <2>6, <2>7, <2>8, <2>9, <2>10
       DEF Next, PatchPlain, OpenFails, PartRefused, PartFails, CloseEarly, CloseFails, CloseEnds, Return
<1> QED
  BY <1>2, <1>3

\* Every step brings a call nearer to its end, whatever parts HDiffPatch asks for and
\* however large the buffer is: it returns after at most 6 steps, one more for each byte of
\* the encoded part, three for each byte the delta states it decodes to and two for each
\* empty part that HDiffPatch may ask for.
THEOREM BoundedSteps ==
    Spec => /\ StepsLeft = 6 + part.len + 3 * info.uncompressedSize + 2 * MAX_IDLE
            /\ [](StepsLeft \in Nat)
            /\ [][StepsLeft' < StepsLeft]_vars
<1>1. Init => StepsLeft = 6 + part.len + 3 * info.uncompressedSize + 2 * MAX_IDLE
  BY DEF Init, StepsLeft, Rank, Patching
<1>2. Inv => StepsLeft \in Nat
  BY StepsLeftType
<1>3. Inv /\ Inv' /\ [Next]_vars => [StepsLeft' < StepsLeft]_vars
  BY StepsDecrease
<1> QED
  BY <1>1, <1>2, <1>3, Invariance, PTL DEF Spec

LEMMA Answer ==
    ASSUME Inv, pc \in Patching, ~finished, NEW n \in Nat \ {0}
    PROVE  Outcomes(n) # {}
<1>1. /\ request \in Requests /\ part.len \in Nat /\ dec.pos \in 0..part.len /\ dec.flushed \in Nat
      /\ avail \in dec.pos..part.len /\ (avail = dec.pos => dec.pos = part.len)
  BY Decoding, Refilled
<1>2. /\ dec.pos < Bad(part, WINDOW_LOG_MAX, dec) /\ dec.flushed <= part.cum[dec.pos]
      /\ \A e \in part.ends : dec.pos < e
      /\ part.cum[dec.pos] \in Nat /\ part.ends \subseteq 1..part.len
  BY <1>1, RequestType, Ahead DEF Inv, DecoderInv
<1>3. CASE dec.pos < avail
  <2> DEFINE r == [pos |-> dec.pos, flushed |-> dec.flushed, ret |-> "memory"]
  <2>1. r \in Outcomes(n)
    BY <1>1, <1>3 DEF Outcomes, DecompressStream
  <2> QED
    BY <2>1
<1>4. CASE dec.pos = avail /\ dec.flushed = part.cum[dec.pos]
  <2> DEFINE r == [pos |-> dec.pos, flushed |-> dec.flushed, ret |-> "more"]
  <2>1. r \in Outcomes(n)
    BY <1>1, <1>4 DEF Outcomes, DecompressStream, Starved
  <2> QED
    BY <2>1
<1>5. CASE dec.pos = avail /\ dec.flushed # part.cum[dec.pos]
  <2> DEFINE r == [pos |-> dec.pos, flushed |-> dec.flushed + 1, ret |-> "more"]
  <2>1. r.pos = dec.pos /\ r.flushed = dec.flushed + 1 /\ r.flushed <= part.cum[dec.pos]
    BY <1>1, <1>2, <1>5
  <2>2. Advances(part, WINDOW_LOG_MAX, dec, r)
    BY <1>1, <1>2, <2>1 DEF Advances, SameFrame
  <2>3. r \in [pos : dec.pos..avail, flushed : dec.flushed..(dec.flushed + n),
               ret : {"done", "more", "corrupt", "window", "memory"}]
    BY <1>1, <1>5
  <2>4. r \in Outcomes(n)
    BY <2>2, <2>3 DEF Outcomes, DecompressStream
  <2> QED
    BY <2>4
<1> QED
  BY <1>1, <1>3, <1>4, <1>5

Answered ==
    /\ pc = "part" /\ ob.pos < ob.size /\ ~finished => Outcomes(ob.size - ob.pos) # {}
    /\ pc = "close" /\ ~finished => Outcomes(1) # {}

\* No callback waits: in decompress_part and in close, zstd has an answer to the next call,
\* wherever a refill fell.
THEOREM AlwaysAnswered == Spec => []Answered
<1>1. Inv => Answered
  <2>1. ASSUME Inv, pc = "part", ob.pos < ob.size, ~finished
        PROVE  Outcomes(ob.size - ob.pos) # {}
    <3>1. pc \in Patching
      BY <2>1 DEF Patching
    <3>2. ob.size - ob.pos \in Nat \ {0}
      BY <2>1, <3>1, Decoding, LimitsAssumption
    <3> QED
      BY <2>1, <3>1, <3>2, Answer
  <2>2. ASSUME Inv, pc = "close", ~finished PROVE Outcomes(1) # {}
    BY <2>2, Answer DEF Patching
  <2> QED
    BY <2>1, <2>2 DEF Answered
<1> QED
  BY <1>1, Invariance, PTL
===============================================================================
