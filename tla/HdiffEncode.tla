------------------------------- MODULE HdiffEncode -------------------------------
(***************************************************************************)
(* phd_hdiff_encode (src/native/bridge.cpp) behind its option checks (see  *)
(* EncoderOptions): hdiff_encode, the stream Output that HDiffPatch writes *)
(* the delta to, the Growable behind it, and the plugin compress that      *)
(* HDiffPatch calls back into.  HDiffPatch is a library outside this       *)
(* repository: where it writes, and which stream it has compressed to      *)
(* where, is its own choice.  One behaviour is one call.                   *)
(*                                                                         *)
(* A request is a record: base and target, sizes; frame, the stream that   *)
(* HDiffPatch has compressed (see ZstdCompressor); room, the most that     *)
(* HDiffPatch lets the plugin write: beyond that it is better off without  *)
(* compression, and refuses the write.                                     *)
(***************************************************************************)
EXTENDS ZstdCompressor

CONSTANTS Requests,
          RAW_MAX, PAYLOAD_MAX,
          CHUNK, PIECE,  \* ZSTD_CStreamInSize, ZSTD_CStreamOutSize
          MaxWrites,    \* bound on the writes of HDiffPatch itself
          MaxWrite      \* bound on the size of one

IsRequest(r) == r.base \in Nat /\ r.target \in Nat /\ r.room \in Nat /\ IsFrame(r.frame)

ASSUME RequestsAssumption == \A r \in Requests : IsRequest(r)
ASSUME LimitsAssumption ==
    /\ RAW_MAX \in Nat /\ PAYLOAD_MAX \in Nat /\ CHUNK \in Nat \ {0} /\ PIECE \in Nat \ {0}
    /\ MaxWrites \in Nat /\ MaxWrite \in Nat

VARIABLES request,          \* the arguments of the call
          pc,               \* where the call is
          size, capacity,   \* the Growable: bytes in use, bytes allocated
          cells,            \* what each byte of the result holds
          writes,           \* how many writes HDiffPatch did itself
          offset,           \* where in the result the plugin's output begins
          read,             \* compress: end of the chunk read from the stream
          ctx,              \* compress: state of the zstd compressor
          written,          \* compress: bytes written
          returned,         \* what compress returned, NotYet before
          result            \* phd_result, NoResult until the call returns

buffer == <<size, capacity, cells>>
plugin == <<offset, read, ctx, written, returned>>
vars == <<request, pc, buffer, writes, plugin, result>>

NotYet == -1
Uninitialized == -1   \* allocated and never written
Patch == -2           \* written by HDiffPatch; a number is that byte of the frame
frame == request.frame

NoResult == [status |-> "NONE", size |-> 0]
Throw(status) == pc' = "done" /\ result' = [status |-> status, size |-> 0]
Goto(next) == pc' = next /\ UNCHANGED result

Init ==
    /\ request \in Requests
    /\ pc = "start"
    /\ size = 0 /\ capacity = 0
    /\ cells = [i \in 0..(PAYLOAD_MAX - 1) |-> Uninitialized]
    /\ writes = 0
    /\ offset = 0 /\ read = 0 /\ ctx = Unused /\ written = 0 /\ returned = NotYet
    /\ result = NoResult

TooLarge == request.base > RAW_MAX \/ request.target > RAW_MAX

Begin ==
    /\ pc = "start"
    /\ IF TooLarge THEN Throw("LIMIT") ELSE Goto("hdiff")
    /\ UNCHANGED <<request, buffer, writes, plugin>>

-------------------------------------------------------------------------------
(***************************************************************************)
(* Output: n bytes at pos, of HDiffPatch's own or of the frame from byte   *)
(* from on.  Bytes may be overwritten and the stream may grow, but not     *)
(* with a gap.                                                             *)
(***************************************************************************)
min(a, b) == IF a <= b THEN a ELSE b
max(a, b) == IF a >= b THEN a ELSE b

InLimit(pos, n) == pos <= PAYLOAD_MAX /\ n <= PAYLOAD_MAX - pos

InOrderAny(pos) == TRUE   \* a mutant: writes may leave a gap
InOrder(pos) == pos <= size

\* Growable::resize with spare; the vacated tail of a block is never handed out.
Grown(finish) ==
    IF capacity - size < finish - size THEN max(finish, capacity + capacity \div 2) ELSE capacity

Write(pos, n, from) ==
    /\ InLimit(pos, n) /\ InOrder(pos)
    /\ size' = max(size, pos + n)
    /\ capacity' = Grown(size')
    /\ cells' = [i \in DOMAIN cells |->
                    IF pos <= i /\ i < pos + n THEN (IF from = Patch THEN Patch ELSE from + (i - pos))
                    ELSE cells[i]]

WriteFails(pos, n) ==
    \/ ~InLimit(pos, n) /\ Throw("LIMIT")
    \/ InLimit(pos, n) /\ ~InOrder(pos) /\ Throw("INVALID")
    \/ InLimit(pos, n) /\ InOrder(pos) /\ Grown(max(size, pos + n)) # capacity /\ Throw("ALLOC")

(***************************************************************************)
(* HDiffPatch: it writes anywhere, calls the plugin, throws or returns.    *)
(***************************************************************************)
Places == (0..(PAYLOAD_MAX + 1)) \X (0..MaxWrite)

HdiffWrite ==
    /\ pc = "hdiff" /\ writes < MaxWrites
    /\ writes' = writes + 1
    /\ \E p \in Places :
        \/ Write(p[1], p[2], Patch) /\ UNCHANGED <<pc, result>>
        \/ WriteFails(p[1], p[2]) /\ UNCHANGED buffer
    /\ UNCHANGED <<request, plugin>>

HdiffFails ==
    /\ pc = "hdiff"
    /\ Throw("ALLOC") \/ Throw("EXCEPTION")
    /\ UNCHANGED <<request, buffer, writes, plugin>>

\* The result is moved out and released; an empty one still needs a block, of one byte.
HdiffReturns ==
    /\ pc = "hdiff"
    /\ \/ /\ pc' = "done" /\ result' = [status |-> "OK", size |-> size]
          /\ capacity' = max(capacity, 1)
       \/ capacity = 0 /\ Throw("ALLOC") /\ UNCHANGED capacity
    /\ UNCHANGED <<request, size, cells, writes, plugin>>

-------------------------------------------------------------------------------
(***************************************************************************)
(* The plugin.  HDiffPatch calls it at most once per delta, for a stream   *)
(* of frame.source bytes, with an output that begins at offset.            *)
(***************************************************************************)
Compress ==
    /\ pc = "hdiff" /\ returned = NotYet
    /\ \/ /\ Goto("read")
          /\ \E o \in 0..size : offset' = o
       \/ Throw("ALLOC") /\ UNCHANGED offset   \* the context and the two vectors
    /\ UNCHANGED <<request, buffer, writes, read, ctx, written, returned>>

Read ==
    /\ pc = "read"
    /\ \/ Goto("feed") /\ read' = read + min(CHUNK, frame.source - read)
       \/ Throw("INVALID") /\ UNCHANGED read   \* the stream refuses
    /\ UNCHANGED <<request, buffer, writes, offset, ctx, written, returned>>

last == read = frame.source
Outcomes == CompressStream(frame, ctx, read, PIECE, last)
Failed(r) == r.ret \notin {"done", "more"}
produced(r) == r.flushed - ctx.flushed
RefusedOrEmpty(r) == produced(r) = 0 \/ written + produced(r) > request.room   \* a mutant
Refused(r) == written + produced(r) > request.room

AgainEnd(r) == r.ret # "done"     \* a mutant: every chunk must end the frame
Again(r) == IF last THEN r.ret # "done" ELSE r.taken # read

\* One turn of the inner loop whose output HDiffPatch takes.
Feed ==
    /\ pc = "feed"
    /\ \E r \in Outcomes :
        /\ ~Failed(r) /\ ~Refused(r)
        /\ Write(offset + written, produced(r), ctx.flushed)
        /\ ctx' = [taken |-> r.taken, flushed |-> r.flushed]
        /\ written' = written + produced(r)
        /\ \/ Again(r) /\ UNCHANGED <<pc, returned>>
           \/ ~Again(r) /\ last /\ pc' = "hdiff" /\ returned' = written'
           \/ ~Again(r) /\ ~last /\ pc' = "read" /\ UNCHANGED returned
    /\ UNCHANGED <<request, writes, offset, read, result>>

\* HDiffPatch may abandon compression when it cannot reduce size.
Abandon ==
    /\ pc = "feed"
    /\ \E r \in Outcomes : ~Failed(r) /\ Refused(r)
    /\ returned' = 0
    /\ Goto("hdiff")
    /\ UNCHANGED <<request, buffer, writes, offset, read, ctx, written>>

FeedFails ==
    /\ pc = "feed"
    /\ \E r \in Outcomes :
        \/ r.ret = "wrong" /\ Throw("ZSTD")
        \/ r.ret = "memory" /\ Throw("ALLOC")
        \/ ~Failed(r) /\ ~Refused(r) /\ WriteFails(offset + written, produced(r))
    /\ UNCHANGED <<request, buffer, writes, plugin>>

Next ==
    \/ Begin \/ HdiffWrite \/ HdiffFails \/ HdiffReturns
    \/ Compress \/ Read \/ Feed \/ Abandon \/ FeedFails

(***************************************************************************)
(* The call runs in one thread, and HDiffPatch comes to an end.            *)
(***************************************************************************)
Spec == Init /\ [][Next]_vars /\ WF_vars(Next)

-------------------------------------------------------------------------------
(***************************************************************************)
(* Properties                                                              *)
(***************************************************************************)

\* A delta never contains memory that was not written, wherever and in whatever order
\* HDiffPatch writes ("Callers overwrite every byte between the old and the new size"),
\* and nothing is written outside the bytes in use or the block.
NoGarbage ==
    /\ size <= capacity
    /\ \A i \in DOMAIN cells : cells[i] # Uninitialized <=> i < size

\* The plugin reports the whole frame, contiguous where HDiffPatch wanted it, when it
\* fits, and 0 when, and only when, it does not: a frame that was abandoned half way is
\* never taken for compressed data, and one that just fits is never abandoned.
WholeOrAbandoned ==
    [][pc = "feed" /\ pc' = "hdiff" =>
           IF frame.size > request.room THEN returned' = 0
           ELSE /\ returned' = frame.size
                /\ \A i \in 0..(frame.size - 1) : cells'[offset + i] = i]_vars

\* Every call returns, for empty streams and streams that end with a chunk too.
Termination == <>(pc = "done")
===============================================================================
