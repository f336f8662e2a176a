-------------------------------- MODULE ZstdApply --------------------------------
(***************************************************************************)
(* phd_zstd_apply: apply_into and zstd_apply (src/native/bridge.cpp), the  *)
(* decoding of one zstd frame against a base into a buffer of exactly the  *)
(* target's size, in chunks of input and of output.  One behaviour is one  *)
(* call; the cancellation hook of the fault-injection build is absent.     *)
(*                                                                         *)
(* A request is a record: src, the payload, with window the logarithm of   *)
(* its first frame's window; header, what ZSTD_getFrameHeader makes of its *)
(* beginning; base and target, sizes; null, whether a pointer to a         *)
(* nonempty buffer is null.                                                *)
(***************************************************************************)
EXTENDS ZstdStream

CONSTANTS Requests,         \* the calls considered
          RAW_MAX,          \* PHD_RAW_MAX, limit of base and target
          PAYLOAD_MAX,      \* PHD_PAYLOAD_MAX
          CHUNK,            \* 65536, how much a turn of the loop reads and writes
          WINDOW_LOG_MAX    \* PHD_ZSTD_WINDOW_LOG_MAX

Headers == {"frame", "skippable", "cut", "malformed"}

IsRequest(r) ==
    /\ IsStream(r.src)
    /\ r.src.head = 1
    /\ r.header \in Headers
    /\ r.header = "frame" => r.src.len > 0
    /\ r.base \in Nat /\ r.target \in Nat
    /\ r.null \in BOOLEAN

ASSUME RequestsAssumption == \A r \in Requests : IsRequest(r)
ASSUME LimitsAssumption ==
    /\ RAW_MAX \in Nat /\ PAYLOAD_MAX \in Nat /\ WINDOW_LOG_MAX \in Nat
    /\ CHUNK \in Nat \ {0}

VARIABLES request,    \* the arguments of the call
          pc,         \* where the call is
          dec,        \* position of the zstd decoder
          read,       \* bytes of src the loop has passed on
          written,    \* bytes of dst the loop has counted as output
          status      \* the phd_status returned, "NONE" before

vars == <<request, pc, dec, read, written, status>>

src == request.src
dn == request.src.len
tn == request.target

min(a, b) == IF a <= b THEN a ELSE b

Init ==
    /\ request \in Requests
    /\ pc = "start"
    /\ dec = Fresh
    /\ read = 0 /\ written = 0
    /\ status = "NONE"

Return(s) == pc' = "done" /\ status' = s

(***************************************************************************)
(* The checks of apply_into and of zstd_apply before decoding, in order.   *)
(***************************************************************************)
TooLarge == request.base > RAW_MAX \/ tn > RAW_MAX \/ dn > PAYLOAD_MAX
Passed == ~request.null /\ ~TooLarge
Matches == src.stated[0] = -1 \/ src.stated[0] = tn
Fits == src.window <= WINDOW_LOG_MAX

CheckSizes ==
    /\ pc = "start"
    /\ \/ request.null /\ Return("OPTION")
       \/ ~request.null /\ TooLarge /\ Return("LIMIT")
       \/ Passed /\ pc' = "header" /\ UNCHANGED status
    /\ UNCHANGED <<request, dec, read, written>>

CheckHeader ==
    /\ pc = "header"
    /\ \/ request.header = "malformed" /\ Return("ZSTD")
       \/ request.header \in {"cut", "skippable"} /\ Return("INVALID")
       \/ request.header = "frame" /\ ~Fits /\ Return("LIMIT")
       \/ request.header = "frame" /\ Fits /\ ~Matches /\ Return("INVALID")
       \/ request.header = "frame" /\ Fits /\ Matches /\ Return("ALLOC")
       \/ request.header = "frame" /\ Fits /\ Matches /\ pc' = "decode" /\ UNCHANGED status
    /\ UNCHANGED <<request, dec, read, written>>

(***************************************************************************)
(* One turn of the loop: a chunk of input, and a chunk of output or, when  *)
(* the target is complete, one byte that is not part of it.                *)
(***************************************************************************)
chunkEnd == read + min(CHUNK, dn - read)
room == IF tn = written THEN 1 ELSE min(CHUNK, tn - written)

Outcomes == DecompressStream(src, WINDOW_LOG_MAX, dec, chunkEnd, room)
Progress(r) == r.pos # dec.pos \/ r.flushed # dec.flushed

TurnRestarts(r) ==   \* a mutant: the cursor is set instead of advanced
    /\ dec' = [pos |-> r.pos, flushed |-> r.flushed]
    /\ read' = r.pos - dec.pos
    /\ written' = written + (r.flushed - dec.flushed)

Turn(r) ==
    /\ dec' = [pos |-> r.pos, flushed |-> r.flushed]
    /\ read' = read + (r.pos - dec.pos)
    /\ written' = written + (r.flushed - dec.flushed)

DecodeChunk ==
    /\ pc = "decode"
    /\ \E r \in Outcomes :
        /\ r.ret \in {"done", "more"}
        /\ r.flushed - dec.flushed <= tn - written
        /\ r.ret = "more" => Progress(r)
        /\ Turn(r)
        /\ pc' = IF r.ret = "done" THEN "check" ELSE "decode"
    /\ UNCHANGED <<request, status>>

ErrorStatusRaw(ret) == ret   \* a mutant: zstd's code is passed on as a status

ErrorStatus(ret) == IF ret = "memory" THEN "ALLOC" ELSE "ZSTD"

DecodeFailsSpins ==   \* a mutant: no progress is not an error
    /\ pc = "decode"
    /\ \E r \in Outcomes :
        \/ r.ret \notin {"done", "more"} /\ Return(ErrorStatus(r.ret)) /\ UNCHANGED dec
        \/ /\ r.ret \in {"done", "more"} /\ r.flushed - dec.flushed > tn - written
           /\ dec' = [pos |-> r.pos, flushed |-> r.flushed]
           /\ Return("LIMIT")
    /\ UNCHANGED <<request, read, written>>

DecodeFails ==
    /\ pc = "decode"
    /\ \E r \in Outcomes :
        \/ r.ret \notin {"done", "more"} /\ Return(ErrorStatus(r.ret)) /\ UNCHANGED dec
        \/ /\ r.ret \in {"done", "more"} /\ r.flushed - dec.flushed > tn - written
           /\ dec' = [pos |-> r.pos, flushed |-> r.flushed]
           /\ Return("LIMIT")
        \/ r.ret = "more" /\ ~Progress(r) /\ Return("INVALID") /\ UNCHANGED dec
    /\ UNCHANGED <<request, read, written>>

CheckEndAllowsTrailer ==   \* a mutant: bytes after the frame are accepted
    /\ pc = "check"
    /\ Return(IF written = tn THEN "OK" ELSE "INVALID")
    /\ UNCHANGED <<request, dec, read, written>>

\* The frame is complete: nothing may follow it and the target must be full.
CheckEnd ==
    /\ pc = "check"
    /\ Return(IF read = dn /\ written = tn THEN "OK" ELSE "INVALID")
    /\ UNCHANGED <<request, dec, read, written>>

Next == CheckSizes \/ CheckHeader \/ DecodeChunk \/ DecodeFails \/ CheckEnd

Spec == Init /\ [][Next]_vars /\ WF_vars(Next)

-------------------------------------------------------------------------------
(***************************************************************************)
(* Properties                                                              *)
(***************************************************************************)
Statuses == {"OK", "INVALID", "LIMIT", "ALLOC", "OPTION", "ZSTD"}

\* Types of the variables.
TypeOK ==
    /\ request \in Requests
    /\ pc \in {"start", "header", "decode", "check", "done"}
    /\ dec \in [pos : Nat, flushed : Nat]
    /\ read \in Nat /\ written \in Nat
    /\ status \in Statuses \cup {"NONE"}

\* The chunks are handed over in order and without a gap: the loop's cursors are the
\* decoder's, the next chunk of input starts where the decoder stopped, and output is
\* written inside the target.
InOrder ==
    pc \in {"decode", "check"} =>
        /\ read = dec.pos /\ chunkEnd <= dn
        /\ written = dec.flushed /\ written <= tn

\* A payload that hides more than the target is stopped after one byte.
AtMostOneByteBeyond == dec.flushed <= tn + 1

\* Both, of the input and of the output of the loop.
InBounds == InOrder /\ AtMostOneByteBeyond

\* The status is one the interface promises for that payload and target: in
\* particular OK only for exactly one frame of exactly the target's size.
Promise == INSTANCE ExactDecode WITH outcome <- status
KeepsPromise == Promise!Spec

\* Every call returns, truncated and corrupt payloads included.
Termination == <>(pc = "done")
===============================================================================
