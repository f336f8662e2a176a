------------------------------- MODULE HdiffApply -------------------------------
(***************************************************************************)
(* phd_hdiff_apply: apply_into, hdiff_apply and the zstd plugin Decompress *)
(* that HDiffPatch calls back into (src/native/bridge.cpp).  One behaviour *)
(* is one call.  HDiffPatch is a library outside this repository: what it  *)
(* finds in the header of the delta is part of the request, and the order  *)
(* and sizes of its calls of the plugin are its own choice.                *)
(*                                                                         *)
(* A request is a record: base, target and pn, sizes; null, whether a      *)
(* pointer to a nonempty buffer is null; info, what                        *)
(* getSingleCompressedDiffInfo reads from the delta, any numbers at all;   *)
(* part, the zstd stream (see ZstdStream) in the delta's bytes from        *)
(* info.diffDataPos to its end, a unit counted as a byte.                  *)
(***************************************************************************)
EXTENDS ZstdStream

CONSTANTS Requests,
          RAW_MAX, PAYLOAD_MAX, STEP_MAX,
          BUFFER,             \* size of Decompress::buffer, 65536
          PART_MAX,           \* most that HDiffPatch asks for at once
          MAX_IDLE,           \* bound on how often it asks for nothing
          WINDOW_LOG_MAX      \* PHD_HDIFF_WINDOW_LOG_MAX

Types == {"", "zstd", "other"}   \* info.compressType

IsRequest(r) ==
    /\ r.base \in Nat /\ r.target \in Nat /\ r.pn \in Nat
    /\ r.null \in BOOLEAN
    /\ IsStream(r.part) /\ r.part.head = 1
    /\ r.info \in [valid : BOOLEAN, oldDataSize : Nat, newDataSize : Nat, stepMemSize : Nat,
                   compressedSize : Nat, uncompressedSize : Nat, diffDataPos : Nat,
                   compressType : Types]
    /\ r.info.diffDataPos <= r.pn => r.part.len = r.pn - r.info.diffDataPos

ASSUME RequestsAssumption == \A r \in Requests : IsRequest(r)
ASSUME LimitsAssumption ==
    /\ RAW_MAX \in Nat /\ PAYLOAD_MAX \in Nat /\ STEP_MAX \in Nat /\ WINDOW_LOG_MAX \in Nat
    /\ BUFFER \in Nat \ {0} /\ PART_MAX \in Nat \ {0} /\ MAX_IDLE \in Nat

VARIABLES request,    \* the arguments of the call
          pc,         \* where the call is
          dec,        \* position of the zstd decoder
          pos, stop,  \* Decompress: the next byte of the delta to read, and the end
          remaining,  \* Decompress: output not yet asked for and delivered
          input,      \* Decompress: the part of the buffer that holds input
          finished,   \* Decompress: the frame is complete
          ob,         \* the output buffer of the current decompress_part
          idle,       \* parts asked for that were empty
          patched,    \* HDiffPatch has met no fault so far, 1 or 0
          status      \* the phd_status returned, "NONE" before

vars == <<request, pc, dec, pos, stop, remaining, input, finished, ob, idle, patched, status>>
source == <<pos, stop, remaining, input, finished>>
state == <<dec, source, ob, idle, patched>>

info == request.info
part == request.part

min(a, b) == IF a <= b THEN a ELSE b
Empty == [pos |-> 0, size |-> 0]

Init ==
    /\ request \in Requests
    /\ pc = "start"
    /\ dec = Fresh
    /\ pos = 0 /\ stop = 0 /\ remaining = 0 /\ input = Empty /\ finished = FALSE
    /\ ob = Empty
    /\ idle = 0
    /\ patched = 1
    /\ status = "NONE"

Return(s) == pc' = "done" /\ status' = s
Goto(next) == pc' = next /\ UNCHANGED status

(***************************************************************************)
(* The checks before patching: sizes, then the header of the delta, which  *)
(* is not trusted: its sizes must be those of the buffers.                 *)
(***************************************************************************)
TooLarge == request.base > RAW_MAX \/ request.target > RAW_MAX \/ request.pn > PAYLOAD_MAX

CheckSizes ==
    /\ pc = "start"
    /\ \/ request.null /\ Return("OPTION")
       \/ ~request.null /\ TooLarge /\ Return("LIMIT")
       \/ ~request.null /\ ~TooLarge /\ Goto("info")
    /\ UNCHANGED <<request, state>>

SameSizes == info.valid /\ info.oldDataSize = request.base /\ info.newDataSize = request.target
TooMuch == info.stepMemSize > STEP_MAX \/ info.uncompressedSize > PAYLOAD_MAX
encoded == IF info.compressedSize # 0 THEN info.compressedSize ELSE info.uncompressedSize

WholeDelta == info.diffDataPos <= request.pn /\ encoded = request.pn - info.diffDataPos

Layout ==
    /\ info.compressType # "other"
    /\ WholeDelta
    /\ info.compressedSize = 0 \/ info.compressType # ""

CheckInfo ==
    /\ pc = "info"
    /\ \/ ~SameSizes /\ Return("INVALID")
       \/ SameSizes /\ TooMuch /\ Return("LIMIT")
       \/ SameSizes /\ ~TooMuch /\ ~Layout /\ Return("INVALID")
       \/ SameSizes /\ ~TooMuch /\ Layout /\ Return("ALLOC")
       \/ SameSizes /\ ~TooMuch /\ Layout
          /\ Goto(IF info.compressedSize = 0 THEN "plain" ELSE "open")
    /\ UNCHANGED <<request, state>>

\* Without compression HDiffPatch reads the delta itself.
PatchPlain ==
    /\ pc = "plain"
    /\ \E ok \in 0..1 : patched' = ok
    /\ Return(IF patched' = 1 THEN "OK" ELSE "INVALID")
    /\ UNCHANGED <<request, dec, source, ob, idle>>

(***************************************************************************)
(* Decompress: open.                                                       *)
(***************************************************************************)
Openable ==
    /\ info.diffDataPos + info.compressedSize <= request.pn
    /\ info.uncompressedSize <= PAYLOAD_MAX

OpenFails ==
    /\ pc = "open"
    /\ \/ ~Openable /\ Return("INVALID")
       \/ Openable /\ Return("ALLOC")
    /\ UNCHANGED <<request, state>>

Open ==
    /\ pc = "open"
    /\ Openable
    /\ pos' = info.diffDataPos
    /\ stop' = info.diffDataPos + info.compressedSize
    /\ remaining' = info.uncompressedSize
    /\ input' = Empty
    /\ finished' = FALSE
    /\ dec' = Fresh
    /\ Goto("patch")
    /\ UNCHANGED <<request, ob, idle, patched>>

(***************************************************************************)
(* HDiffPatch asks for the next part of the decompressed stream: any part, *)
(* an empty one or one beyond what the stream is said to hold included.    *)
(* It closes the stream when it is done or has met a fault in what it read.*)
(***************************************************************************)
AskPart ==
    /\ pc = "patch"
    /\ \E n \in 0..PART_MAX :
        /\ n = 0 => idle < MAX_IDLE
        /\ ob' = [pos |-> 0, size |-> n]
    /\ Goto("part")
    /\ UNCHANGED <<request, dec, source, idle, patched>>

StopPatching ==
    /\ pc = "patch"
    /\ \E ok \in 0..1 : patched' = ok
    /\ Goto("close")
    /\ UNCHANGED <<request, dec, source, ob, idle>>

(***************************************************************************)
(* Decompress: refill, and one call of the zstd decoder with what the      *)
(* buffer holds after it.                                                  *)
(***************************************************************************)
refillDiscards == IF pos = stop THEN 0 ELSE min(BUFFER, stop - pos)   \* a mutant: unread input is overwritten
refill == IF input.pos # input.size \/ pos = stop THEN 0 ELSE min(BUFFER, stop - pos)

filled == IF refill = 0 THEN input ELSE [pos |-> 0, size |-> refill]
avail == dec.pos + (filled.size - filled.pos)

Outcomes(room) == DecompressStream(part, WINDOW_LOG_MAX, dec, avail, room)

Take(r) ==
    /\ dec' = [pos |-> r.pos, flushed |-> r.flushed]
    /\ pos' = pos + refill
    /\ input' = [filled EXCEPT !.pos = @ + (r.pos - dec.pos)]
    /\ finished' = (r.ret = "done")
    /\ UNCHANGED <<stop, remaining>>

ProgressOutputOnly(r) == r.flushed # dec.flushed   \* a mutant: taking input is no progress
Progress(r) == r.pos # dec.pos \/ r.flushed # dec.flushed

ErrorStatus(ret) ==
    CASE ret = "corrupt" -> "ZSTD"
      [] ret = "window" -> "WINDOW"
      [] ret = "memory" -> "ALLOC"

(***************************************************************************)
(* Decompress: decompress_part.  A part of more than what remains is       *)
(* refused before anything is decoded into it.                             *)
(***************************************************************************)
HoldsAny == TRUE   \* a mutant: the size of a part is not checked
Holds == ob.size <= remaining

PartRefused ==
    /\ pc = "part"
    /\ ~Holds
    /\ Return("INVALID")
    /\ UNCHANGED <<request, state>>

PartTurn ==
    /\ pc = "part" /\ Holds
    /\ ob.pos < ob.size /\ ~finished
    /\ \E r \in Outcomes(ob.size - ob.pos) :
        /\ r.ret \in {"done", "more"} /\ Progress(r)
        /\ Take(r)
        /\ ob' = [ob EXCEPT !.pos = @ + (r.flushed - dec.flushed)]
    /\ UNCHANGED <<request, pc, idle, patched, status>>

PartFailsSpins ==   \* a mutant: a turn without progress is repeated
    /\ pc = "part" /\ Holds
    /\ ob.pos < ob.size
    /\ \/ finished /\ Return("INVALID")
       \/ ~finished /\ \E r \in Outcomes(ob.size - ob.pos) :
            r.ret \notin {"done", "more"} /\ Return(ErrorStatus(r.ret))
    /\ UNCHANGED <<request, state>>

\* The frame ended early, or the decoder fails or is starved.
PartFails ==
    /\ pc = "part" /\ Holds
    /\ ob.pos < ob.size
    /\ \/ finished /\ Return("INVALID")
       \/ ~finished /\ \E r \in Outcomes(ob.size - ob.pos) :
            \/ r.ret \notin {"done", "more"} /\ Return(ErrorStatus(r.ret))
            \/ r.ret \in {"done", "more"} /\ ~Progress(r) /\ Return("INVALID")
    /\ UNCHANGED <<request, state>>

PartEnds ==
    /\ pc = "part" /\ Holds
    /\ ob.pos = ob.size
    /\ remaining' = remaining - ob.size
    /\ idle' = IF ob.size = 0 THEN idle + 1 ELSE idle
    /\ ob' = Empty
    /\ Goto("patch")
    /\ UNCHANGED <<request, dec, pos, stop, input, finished, patched>>

(***************************************************************************)
(* Decompress: close.  The rest of the frame must not hold output, and the *)
(* delta must not hold anything after the frame.                           *)
(***************************************************************************)
CloseEarly ==
    /\ pc = "close"
    /\ remaining # 0
    /\ Return("INVALID")
    /\ UNCHANGED <<request, state>>

CloseTurn ==
    /\ pc = "close"
    /\ remaining = 0 /\ ~finished
    /\ \E r \in Outcomes(1) :
        /\ r.ret \in {"done", "more"}
        /\ r.flushed = dec.flushed
        /\ r.ret = "done" \/ r.pos # dec.pos
        /\ Take(r)
    /\ UNCHANGED <<request, pc, ob, idle, patched, status>>

CloseFailsRaw ==   \* a mutant: zstd's code is passed on as a status
    /\ pc = "close"
    /\ remaining = 0 /\ ~finished
    /\ \E r \in Outcomes(1) : r.ret \notin {"done", "more"} /\ Return(r.ret)
    /\ UNCHANGED <<request, state>>

CloseFails ==
    /\ pc = "close"
    /\ remaining = 0 /\ ~finished
    /\ \E r \in Outcomes(1) :
        \/ r.ret \notin {"done", "more"} /\ Return(ErrorStatus(r.ret))
        \/ r.ret \in {"done", "more"} /\ r.flushed # dec.flushed /\ Return("INVALID")
        \/ r.ret = "more" /\ r.flushed = dec.flushed /\ r.pos = dec.pos /\ Return("INVALID")
    /\ UNCHANGED <<request, state>>

ClosedBufferOnly == input.pos = input.size   \* a mutant: data not yet read is not looked at
Closed == pos = stop /\ input.pos = input.size

CloseEnds ==
    /\ pc = "close"
    /\ remaining = 0 /\ finished
    /\ Return(IF Closed /\ patched = 1 THEN "OK" ELSE "INVALID")
    /\ UNCHANGED <<request, state>>

Next ==
    \/ CheckSizes \/ CheckInfo \/ PatchPlain
    \/ OpenFails \/ Open
    \/ AskPart \/ StopPatching
    \/ PartRefused \/ PartTurn \/ PartFails \/ PartEnds
    \/ CloseEarly \/ CloseTurn \/ CloseFails \/ CloseEnds

Spec == Init /\ [][Next]_vars /\ WF_vars(Next)

-------------------------------------------------------------------------------
(***************************************************************************)
(* Properties                                                              *)
(***************************************************************************)
Statuses == {"OK", "INVALID", "LIMIT", "ALLOC", "OPTION", "ZSTD", "WINDOW"}
Patching == {"patch", "part", "close"}

\* Types of the variables.
TypeOK ==
    /\ request \in Requests
    /\ pc \in {"start", "info", "plain", "open", "done"} \cup Patching
    /\ dec \in [pos : Nat, flushed : Nat]
    /\ pos \in Nat /\ stop \in Nat /\ remaining \in Nat
    /\ input \in [pos : 0..BUFFER, size : 0..BUFFER]
    /\ finished \in BOOLEAN
    /\ ob \in [pos : 0..PART_MAX, size : 0..PART_MAX]
    /\ idle \in 0..MAX_IDLE
    /\ patched \in 0..1
    /\ status \in Statuses \cup {"NONE"}

\* The decoder gets every byte of the delta's encoded part once and in order, however
\* the buffer is refilled, and no read leaves the delta: what was read is what the
\* decoder has taken and what the buffer still holds.
InOrder ==
    pc \in Patching =>
        /\ info.diffDataPos + dec.pos = pos - (input.size - input.pos)
        /\ input.pos <= input.size
        /\ pos <= stop /\ stop <= request.pn

\* HDiffPatch gets exactly the stream's bytes, part after part: what was delivered and
\* what remains add up to the size the delta states, across calls of decompress_part, and
\* no part gets more than remains.
Accounted ==
    pc \in Patching =>
        /\ dec.flushed + (remaining - ob.pos) = info.uncompressedSize
        /\ ob.pos <= ob.size /\ ob.pos <= remaining

\* Nothing is lost, repeated or read outside the delta between the delta, the buffer,
\* the decoder and HDiffPatch, across callbacks of any size, empty and oversize ones too.
NothingLost == InOrder /\ Accounted

OneFrame(s, n) == s.bad > s.len /\ s.ends = {s.len} /\ s.cum[s.len] = n

\* The decoder needs no window for a frame that fits its buffer and states its size: it may
\* decode it in one pass.
NeedsNoWindow == part.len <= BUFFER /\ part.stated[0] = info.uncompressedSize

\* A patch succeeds only when the encoded part is one whole frame of exactly the size the
\* delta states, in a window the decoder grants or needing none, and the delta ends with it.
OnlyOneFrame ==
    status = "OK" /\ info.compressedSize # 0 =>
        /\ OneFrame(part, info.uncompressedSize)
        /\ part.window <= WINDOW_LOG_MAX \/ NeedsNoWindow

Genuine ==
    /\ ~request.null /\ ~TooLarge /\ SameSizes /\ ~TooMuch /\ Layout
    /\ info.compressedSize # 0
    /\ OneFrame(part, info.uncompressedSize) /\ part.window <= WINDOW_LOG_MAX

ClosedUnread == remaining # 0 /\ ob = Empty
AskedTooMuch == ob.size > remaining

\* A delta as the encoder makes it is never refused, whatever sizes HDiffPatch reads
\* it in and wherever a refill falls, unless HDiffPatch itself meets a fault, asks for more
\* than the stream holds or closes it before it has read all of it.
GenuinePatches ==
    /\ pc = "done" /\ Genuine
    /\ patched = 1 /\ ~ClosedUnread /\ ~AskedTooMuch
    => status \in {"OK", "ALLOC"}

\* Every call returns, truncated and corrupt deltas included.
Termination == <>(pc = "done")
===============================================================================
