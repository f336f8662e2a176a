------------------------------- MODULE ZstdEncode -------------------------------
(***************************************************************************)
(* zstd_encode (src/native/bridge.cpp), the encoder behind phd_zstd_encode *)
(* and phd_zstd_compress, from the size checks to the result: the target   *)
(* goes to the compressor in chunks and the frame comes back in pieces.    *)
(* The parameters of the compressor are the subject of EncoderOptions.     *)
(* One behaviour is one call with valid options and pointers.              *)
(*                                                                         *)
(* A request is a record: base, a size; frame, the target's size and that  *)
(* of its compressed form (see ZstdCompressor); limits, what is permitted  *)
(* for input and output.                                                   *)
(***************************************************************************)
EXTENDS ZstdCompressor

CONSTANTS Requests,
          RAW_MAX,       \* PHD_RAW_MAX, limit of the base
          CHUNK,         \* 65536, input per turn of the outer loop
          BUFFER         \* 65536, output per turn of the inner loop

IsRequest(r) ==
    /\ r.base \in Nat
    /\ IsFrame(r.frame)
    /\ r.limits \in [input : Nat, output : Nat]

ASSUME RequestsAssumption == \A r \in Requests : IsRequest(r)
ASSUME LimitsAssumption == RAW_MAX \in Nat /\ CHUNK \in Nat \ {0} /\ BUFFER \in Nat \ {0}

VARIABLES request,    \* the arguments of the call
          pc,         \* where the call is
          ctx,        \* state of the zstd compressor
          pos,        \* where the current chunk of the target begins
          ib,         \* how much of the chunk is passed on
          encoded,    \* size of the output buffer
          result      \* phd_result, NoResult until the call returns

vars == <<request, pc, ctx, pos, ib, encoded, result>>

NoResult == [status |-> "NONE", size |-> 0]
PhdResult(status, n) == [status |-> status, size |-> n]

min(a, b) == IF a <= b THEN a ELSE b
tn == request.frame.source
limits == request.limits

Init ==
    /\ request \in Requests
    /\ pc = "start"
    /\ ctx = Unused
    /\ pos = 0 /\ ib = 0 /\ encoded = 0
    /\ result = NoResult

Throw(status) ==
    /\ pc' = "done"
    /\ result' = PhdResult(status, 0)

TooLarge == request.base > RAW_MAX \/ tn > limits.input

\* The size checks, the creation of the compressor and its parameters.
Begin ==
    /\ pc = "start"
    /\ \/ TooLarge /\ Throw("LIMIT")
       \/ ~TooLarge /\ Throw("ALLOC")
       \/ ~TooLarge /\ pc' = "encode" /\ UNCHANGED result
    /\ UNCHANGED <<request, ctx, pos, ib, encoded>>

(***************************************************************************)
(* One turn of the inner loop.  The last chunk asks for the end of the     *)
(* frame and is repeated until the frame is flushed, the others until they *)
(* are taken; then the outer loop goes on behind the chunk.                *)
(***************************************************************************)
chunk == min(CHUNK, tn - pos)
last == pos + chunk = tn

Outcomes == CompressStream(request.frame, ctx, pos + chunk, BUFFER, last)
Failed(r) == r.ret \notin {"done", "more"}
produced(r) == r.flushed - ctx.flushed

TooMuchOffByOne(r) == produced(r) >= limits.output - encoded   \* a mutant
TooMuch(r) == produced(r) > limits.output - encoded

AgainEnd(r) == r.ret # "done"            \* a mutant: every chunk must end the frame
Again(r) == IF last THEN r.ret # "done" ELSE r.taken # pos + chunk

EncodeKeepsChunk ==   \* a mutant: the input buffer is made anew in the inner loop
    /\ pc = "encode"
    /\ \E r \in Outcomes :
        /\ ~Failed(r) /\ ~TooMuch(r)
        /\ ctx' = [taken |-> r.taken, flushed |-> r.flushed]
        /\ encoded' = encoded + produced(r)
        /\ \/ Again(r) /\ UNCHANGED <<pc, pos, ib>>
           \/ /\ ~Again(r)
              /\ pos' = pos + chunk
              /\ ib' = 0
              /\ pc' = IF pos' = tn THEN "release" ELSE "encode"
    /\ UNCHANGED <<request, result>>

Encode ==
    /\ pc = "encode"
    /\ \E r \in Outcomes :
        /\ ~Failed(r) /\ ~TooMuch(r)
        /\ ctx' = [taken |-> r.taken, flushed |-> r.flushed]
        /\ encoded' = encoded + produced(r)
        /\ \/ Again(r) /\ ib' = r.taken - pos /\ UNCHANGED <<pc, pos>>
           \/ /\ ~Again(r)
              /\ pos' = pos + chunk
              /\ ib' = 0
              /\ pc' = IF pos' = tn THEN "release" ELSE "encode"
    /\ UNCHANGED <<request, result>>

EncodeFails ==
    /\ pc = "encode"
    /\ \E r \in Outcomes :
        \/ r.ret = "wrong" /\ Throw("ZSTD")
        \/ r.ret = "memory" /\ Throw("ALLOC")
        \/ ~Failed(r) /\ TooMuch(r) /\ Throw("LIMIT")
        \/ ~Failed(r) /\ ~TooMuch(r) /\ produced(r) > 0 /\ Throw("ALLOC")   \* Growable::append
    /\ UNCHANGED <<request, ctx, pos, ib, encoded>>

\* Growable::release: the buffer goes to the caller; a frame is never empty.
Release ==
    /\ pc = "release"
    /\ pc' = "done"
    /\ result' = PhdResult("OK", encoded)
    /\ UNCHANGED <<request, ctx, pos, ib, encoded>>

Next == Begin \/ Encode \/ EncodeFails \/ Release

Spec == Init /\ [][Next]_vars /\ WF_vars(Next)

-------------------------------------------------------------------------------
(***************************************************************************)
(* Properties                                                              *)
(***************************************************************************)

\* The compressor gets every byte of the target once and in order, although chunks of
\* input and pieces of output do not end together.
InputOnce == pc = "encode" => ctx.taken = pos + ib /\ ib <= chunk

\* A result is the whole frame of the whole target, with nothing left in the
\* compressor; and the limit is exact: no result exceeds it and no frame that just fits
\* is refused for its size.
WholeFrame ==
    /\ result.status = "OK" =>
          /\ result.size = request.frame.size /\ ctx.taken = tn
          /\ result.size <= limits.output
    /\ result.status = "LIMIT" => TooLarge \/ request.frame.size > limits.output
===============================================================================
