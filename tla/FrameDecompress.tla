---------------------------- MODULE FrameDecompress ----------------------------
(***************************************************************************)
(* phd_zstd_decompress and frame_decompress (src/native/bridge.cpp): the   *)
(* decoding of untrusted zstd frames under a hard output bound, with the   *)
(* Growable buffer it decodes into and the boundary that turns exceptions  *)
(* into a status.  One behaviour is one call.                              *)
(*                                                                         *)
(* A request is a record: src, the input (see ZstdStream; its length is    *)
(* counted in units), null, whether the data pointer is null, max_output,  *)
(* and claimed, what ZSTD_getFrameContentSize makes of the first header:   *)
(* the size it states, or any number at all when it states none, as an     *)
(* unknown size and an error are huge ones.                                *)
(***************************************************************************)
EXTENDS ZstdStream

CONSTANTS Requests,         \* the calls considered
          FRAME_MAX,        \* PHD_FRAME_MAX
          CHUNK,            \* 65536, least growth while output is below the bound
          MinLog,           \* 10, the narrowest window limit considered
          StreamLog,        \* 23, the window log granted whatever the bound
          WINDOW_LOG_MAX    \* PHD_ZSTD_WINDOW_LOG_MAX

IsRequest(r) ==
    /\ IsStream(r.src)
    /\ r.null \in BOOLEAN
    /\ r.max_output \in Nat
    /\ r.claimed \in Nat
    /\ r.src.stated[0] # -1 => r.claimed = r.src.stated[0]
    /\ r.src.window <= WINDOW_LOG_MAX + 1   \* stands for every wider window

ASSUME RequestsAssumption == \A r \in Requests : IsRequest(r)
ASSUME LimitsAssumption ==
    /\ FRAME_MAX \in Nat
    /\ CHUNK \in Nat \ {0}
    /\ MinLog \in Nat /\ StreamLog \in Nat /\ WINDOW_LOG_MAX \in Nat
    /\ MinLog <= StreamLog /\ StreamLog <= WINDOW_LOG_MAX
\* The widest window holds every permitted bound, and powers grow.
ASSUME WindowAssumption ==
    /\ FRAME_MAX <= 2^WINDOW_LOG_MAX
    /\ \A i, j \in 0..WINDOW_LOG_MAX : 2^i \in Nat /\ (i <= j => 2^i <= 2^j)

VARIABLES request,    \* the arguments of the call
          pc,         \* where the call is
          window,     \* the window limit, a logarithm
          dec,        \* position of the zstd decoder
          size,       \* Growable::size_
          capacity,   \* Growable::capacity_
          data,       \* blocks Growable::data_ owns, 0 or 1
          ctx,        \* decoder contexts allocated, 0 or 1
          heap,       \* blocks allocated and not freed
          result      \* phd_result, NoResult until the call returns

vars == <<request, pc, window, dec, size, capacity, data, ctx, heap, result>>
buffer == <<size, capacity, data>>

NoResult == [status |-> "NONE", size |-> 0]
PhdResult(status, n) == [status |-> status, size |-> n]

min(a, b) == IF a <= b THEN a ELSE b
max(a, b) == IF a >= b THEN a ELSE b

max_output == request.max_output
src == request.src

Init ==
    /\ request \in Requests
    /\ pc = "start"
    /\ window = MinLog
    /\ dec = Fresh
    /\ size = 0 /\ capacity = 0 /\ data = 0
    /\ ctx = 0
    /\ heap = 0
    /\ result = NoResult

(***************************************************************************)
(* An exception unwinds to boundary: the unique_ptrs of the buffer and of  *)
(* the context free what they own and the result carries only the status.  *)
(***************************************************************************)
ThrowLeaksContext(status) ==   \* a mutant: a raw pointer to the context
    /\ result' = PhdResult(status, 0)
    /\ heap' = heap - data
    /\ data' = 0
    /\ ctx' = 0
    /\ pc' = "done"
    /\ UNCHANGED <<request, window, size, capacity>>

Throw(status) ==
    /\ result' = PhdResult(status, 0)
    /\ heap' = heap - data - ctx
    /\ data' = 0
    /\ ctx' = 0
    /\ pc' = "done"
    /\ UNCHANGED <<request, window, size, capacity>>

GrowToKeepsOld(n) ==   \* a mutant: malloc and copy, the old block is not freed
    /\ capacity' = n
    /\ data' = 1
    /\ heap' = heap + 1

\* Growable::grow_to when realloc succeeds.
GrowTo(n) ==
    /\ capacity' = n
    /\ data' = 1
    /\ heap' = heap + 1 - data

\* The decoder stops at the end of the input: ctx goes out of scope.
Return ==
    /\ pc' = "release"
    /\ ctx' = 0

(***************************************************************************)
(* The checks before the first allocation, then ZSTD_createDCtx.           *)
(***************************************************************************)
Unreadable == request.null /\ src.len > 0
TooLarge == src.len > FRAME_MAX \/ max_output > FRAME_MAX

Refuse ==
    /\ pc = "start"
    /\ \/ Unreadable /\ Throw("OPTION")
       \/ ~Unreadable /\ TooLarge /\ Throw("LIMIT")
       \/ ~Unreadable /\ ~TooLarge /\ src.len = 0 /\ Throw("INVALID")
       \/ ~Unreadable /\ ~TooLarge /\ src.len > 0 /\ Throw("ALLOC")
    /\ UNCHANGED dec

CreateContext ==
    /\ pc = "start"
    /\ ~Unreadable /\ ~TooLarge /\ src.len > 0
    /\ ctx' = 1
    /\ heap' = heap + 1
    /\ pc' = "window"
    /\ UNCHANGED <<request, window, dec, buffer, result>>

(***************************************************************************)
(* The window limit: the bound rounded up to a power of two, and never     *)
(* less than 2^StreamLog.                                                  *)
(***************************************************************************)
NeedsWiderOffByOne == window < WINDOW_LOG_MAX /\ 2^window <= max_output   \* a mutant

NeedsWider == window < WINDOW_LOG_MAX /\ 2^window < max_output

WidenWindow ==
    /\ pc = "window"
    /\ NeedsWider
    /\ window' = window + 1
    /\ UNCHANGED <<request, pc, dec, buffer, ctx, heap, result>>

SetWindow ==
    /\ pc = "window"
    /\ ~NeedsWider
    /\ window' = max(window, StreamLog)
    /\ pc' = "reserve"
    /\ UNCHANGED <<request, dec, buffer, ctx, heap, result>>

(***************************************************************************)
(* The first reservation: the claimed size when it is within the bound.    *)
(***************************************************************************)
reservationTrustsHeader == request.claimed   \* a mutant

reservation == IF request.claimed <= max_output THEN request.claimed ELSE min(max_output, CHUNK)

Reserve ==
    /\ pc = "reserve"
    /\ \/ reservation = 0 /\ UNCHANGED <<capacity, data, heap>>
       \/ reservation > 0 /\ GrowTo(reservation)
    /\ pc' = "decode"
    /\ UNCHANGED <<request, window, dec, size, ctx, result>>

ReserveFails ==
    /\ pc = "reserve"
    /\ reservation > 0
    /\ Throw("ALLOC")
    /\ UNCHANGED dec

(***************************************************************************)
(* One turn of the loop.  Below the bound, Growable::spare makes room and  *)
(* the decoder writes there; at the bound, it writes one byte that the     *)
(* result never holds.                                                     *)
(***************************************************************************)
ErrorStatus(ret) ==
    CASE ret = "corrupt" -> "ZSTD"
      [] ret = "window" -> "WINDOW"
      [] ret = "memory" -> "ALLOC"

minimum == min(max_output - size, CHUNK)
Short == capacity - size < minimum
grown == IF Short THEN max(size + minimum, capacity + capacity \div 2) ELSE capacity
roomIgnoresCapacity == max_output - size   \* a mutant: the end of the block is ignored

room == min(grown - size, max_output - size)

Spare == IF Short THEN GrowTo(grown) ELSE UNCHANGED <<capacity, data, heap>>

SpareFails ==
    /\ pc = "decode" /\ size # max_output
    /\ Short
    /\ Throw("ALLOC")
    /\ UNCHANGED dec

DecodePart ==
    /\ pc = "decode" /\ size # max_output
    /\ \E r \in DecompressStream(src, window, dec, src.len, room) :
        /\ r.ret \in {"done", "more"}
        /\ dec' = [pos |-> r.pos, flushed |-> r.flushed]
        /\ size' = size + (r.flushed - dec.flushed)
        /\ \/ /\ r.ret = "done" /\ r.pos = src.len
              /\ Return
              /\ capacity' = grown /\ data' = 1
              /\ heap' = heap + (1 - data) - ctx
           \/ /\ ~(r.ret = "done" /\ r.pos = src.len)
              /\ r.pos # dec.pos \/ r.flushed # dec.flushed
              /\ Spare
              /\ UNCHANGED <<pc, ctx>>
    /\ UNCHANGED <<request, window, result>>

DecodePartFailsSpins ==   \* a mutant: no progress is not an error
    /\ pc = "decode" /\ size # max_output
    /\ \E r \in DecompressStream(src, window, dec, src.len, room) :
        r.ret \notin {"done", "more"} /\ Throw(ErrorStatus(r.ret))
    /\ UNCHANGED dec

\* The call failed or made no progress.  The block Spare may have allocated is freed.
DecodePartFails ==
    /\ pc = "decode" /\ size # max_output
    /\ \E r \in DecompressStream(src, window, dec, src.len, room) :
        \/ r.ret \notin {"done", "more"} /\ Throw(ErrorStatus(r.ret))
        \/ r.ret = "more" /\ r.pos = dec.pos /\ r.flushed = dec.flushed /\ Throw("INVALID")
    /\ UNCHANGED dec

DecodeFull ==
    /\ pc = "decode" /\ size = max_output
    /\ \E r \in DecompressStream(src, window, dec, src.len, 1) :
        /\ r.ret \in {"done", "more"}
        /\ r.flushed = dec.flushed
        /\ dec' = [pos |-> r.pos, flushed |-> r.flushed]
        /\ \/ /\ r.ret = "done" /\ r.pos = src.len
              /\ Return
              /\ heap' = heap - ctx
           \/ /\ ~(r.ret = "done" /\ r.pos = src.len)
              /\ r.pos # dec.pos
              /\ UNCHANGED <<pc, ctx, heap>>
    /\ UNCHANGED <<request, window, buffer, result>>

DecodeFullFails ==
    /\ pc = "decode" /\ size = max_output
    /\ \E r \in DecompressStream(src, window, dec, src.len, 1) :
        \/ /\ r.ret \notin {"done", "more"}
           /\ Throw(ErrorStatus(r.ret))
           /\ UNCHANGED dec
        \/ /\ r.ret \in {"done", "more"} /\ r.flushed # dec.flushed
           /\ Throw("LIMIT")
           /\ dec' = [pos |-> r.pos, flushed |-> r.flushed]
        \/ /\ r.ret = "more" /\ r.flushed = dec.flushed /\ r.pos = dec.pos
           /\ Throw("INVALID")
           /\ UNCHANGED dec

(***************************************************************************)
(* Growable::release: the caller takes the block.  An empty result still   *)
(* needs one.                                                              *)
(***************************************************************************)
Release ==
    /\ pc = "release"
    /\ result' = PhdResult("OK", size)
    /\ capacity' = IF data = 0 THEN 1 ELSE capacity   \* grow_to(1)
    /\ data' = 0
    /\ heap' = heap + (1 - data)
    /\ pc' = "done"
    /\ UNCHANGED <<request, window, dec, size, ctx>>

ReleaseFails ==
    /\ pc = "release"
    /\ data = 0
    /\ Throw("ALLOC")
    /\ UNCHANGED dec

Next ==
    \/ Refuse \/ CreateContext
    \/ WidenWindow \/ SetWindow
    \/ Reserve \/ ReserveFails
    \/ SpareFails \/ DecodePart \/ DecodePartFails
    \/ DecodeFull \/ DecodeFullFails
    \/ Release \/ ReleaseFails

Spec == Init /\ [][Next]_vars /\ WF_vars(Next)

-------------------------------------------------------------------------------
(***************************************************************************)
(* Properties                                                              *)
(***************************************************************************)
Statuses == {"OK", "INVALID", "LIMIT", "ALLOC", "OPTION", "ZSTD", "WINDOW"}

\* Types of the variables.
TypeOK ==
    /\ request \in Requests
    /\ pc \in {"start", "window", "reserve", "decode", "release", "done"}
    /\ window \in MinLog..WINDOW_LOG_MAX
    /\ dec \in [pos : Nat, flushed : Nat]
    /\ size \in Nat /\ capacity \in Nat
    /\ data \in 0..1 /\ ctx \in 0..1
    /\ heap \in 0..2
    /\ result \in [status : Statuses \cup {"NONE"}, size : Nat]

\* While the call decodes, the buffer holds exactly the bytes the decoder delivered,
\* inside its block and within the bound: no uninitialized byte is ever counted as
\* output and none is written past the block (Growable::spare, resize).
InPlace ==
    pc \in {"decode", "release"} =>
        size = dec.flushed /\ size <= capacity /\ size <= max_output

\* However much data the input hides, the decoder never delivers more than one byte
\* beyond the caller's bound: the call fails as soon as the bound is exceeded.
AtMostOneByteBeyond == dec.flushed <= max_output + 1

\* A call that returns has freed everything but the block of a successful result, on
\* every path an exception can take (bridge.h: "Failure results contain no
\* allocation").
NoLeak == pc = "done" => heap = IF result.status = "OK" THEN 1 ELSE 0

\* The header cannot make the call reserve more than one and a half times the bound, or
\* the one byte that an empty result needs.
ReservationBounded == capacity <= 1 \/ 2 * capacity <= 3 * max_output

\* Neither time nor memory follows what the input claims or hides: decoding stops one
\* byte beyond the caller's bound, and the buffer stays in proportion to the bound, one
\* byte when nothing is decoded.
Bounded == AtMostOneByteBeyond /\ ReservationBounded

\* The outcome is one the interface promises for that input and that bound, whatever
\* size the header claims, however the decoder cuts its work and the buffer grows.
Promise == INSTANCE BoundedDecode WITH outcome <- result
KeepsPromise == Promise!Spec

\* bridge.h (lines 74-75): windows above max(8 MiB, max_output rounded up to a power of
\* two) are refused.  It is not so: zstd decodes a frame in one pass when its stated size
\* fits the room, which Reserve makes for the first frame, and then looks at no window
\* limit.
WindowsRefused ==
    result.status = "OK" /\ src.head <= src.len => ~Promise!Refused(src.window, max_output)

\* Every call returns, truncated and corrupt inputs included.
Termination == <>(pc = "done")
===============================================================================
