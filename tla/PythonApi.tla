-------------------------------- MODULE PythonApi --------------------------------
(***************************************************************************)
(* The Python API (src/pyhdiff/__init__.py, raw.py) down through the       *)
(* extension module (src/pyhdiff/_native.c), called from several threads   *)
(* that share mutable buffers and the GIL.  Each thread has the local      *)
(* variables of the call it is in.                                         *)
(***************************************************************************)
EXTENDS Phdf

CONSTANTS Threads,
          Requests,    \* what each thread may ask: sets of [req, base, other]
          Written      \* what other threads may write to each mutable buffer

\* What callers pass: objects that hold contents, or a blob where one is read.
Values(o) == IF o.mutable THEN Written[o.value] ELSE {o.value}
IsObject(o) == o = Bytes(o.value) \/ (o = Buffer(o.value) /\ o.value \in DOMAIN Written)

IsCall(r) ==
    /\ r.req = Request(r.req.op, r.req.codec, r.req.bound)
    /\ r.req.op \in Operations /\ r.req.bound \in Int
    /\ IsObject(r.base) /\ IsObject(r.other)
    /\ r.base # Text => Values(r.base) \subseteq Contents
    /\ r.req.op \in {"encode_base", "inspect", "compress", "decompress"} => r.base = Bytes(empty)
    /\ r.other # Text =>
          \A v \in Values(r.other) : IF r.req.op \in Encoders THEN v \in Contents ELSE IsBlob(v)

ASSUME RequestsAssumption == \A t \in Threads : \A r \in Requests[t] : IsCall(r)
ASSUME BuffersAssumption == \A b \in DOMAIN Written : None \notin Written[b]
ASSUME ThreadsAssumption == DOMAIN Requests = Threads /\ None \notin Threads

VARIABLES mem,       \* the values of the mutable buffers
          gil,       \* the thread that holds the GIL, or None
          pc,        \* per thread: where its call is
          req,       \* per thread: the request
          base,      \* per thread: the argument base, an object
          other,     \* per thread: the argument payload, target, blob or data
          header,    \* per thread: the fields inspect unpacked
          native,    \* per thread: what the extension returned
          held,      \* per thread: blocks and objects the extension owns
          outcome    \* per thread: the value returned or the exception raised

vars == <<mem, gil, pc, req, base, other, header, native, held, outcome>>
locals == <<base, other, header, native, held, outcome>>

\* What reading an object gives now.
Read(o) == IF o.mutable THEN mem[o.value] ELSE o.value
Base(t) == Read(base[t])
Other(t) == Read(other[t])

-------------------------------------------------------------------------------
(***************************************************************************)
(* The codecs.  A payload decodes to its target against its base; against  *)
(* any other base, or when it is junk, it fails or gives any content of    *)
(* the size asked for.  Under the bound of decompress, the window a frame  *)
(* asks for may be too large when its content is, or when the frame does   *)
(* not state its content size.                                             *)
(***************************************************************************)
Status(s) == [status |-> s, value |-> None]
Statuses(names) == {Status(s) : s \in names}
Gives(v) == [status |-> "OK", value |-> v]

NativeFaults == Statuses({"ALLOC", "EXCEPTION"})
Malformed == Statuses({"INVALID", "LIMIT", "ZSTD", "WINDOW"})
OfLength(S) == {v \in Contents : Length[v] \in S}

Decodes(codec, payload, b, n) ==
    NativeFaults \cup
    IF payload = Payload(codec, b, payload.target, payload.sized) /\ n = Length[payload.target]
    THEN {Gives(payload.target)}
    ELSE Malformed \cup {Gives(v) : v \in OfLength({n})}

Decompresses(payload, n) ==
    NativeFaults \cup
    IF payload # Payload(ZSTD, empty, payload.target, payload.sized)
    THEN Malformed \cup {Gives(v) : v \in OfLength(0..n)}
    ELSE When(~payload.sized, Statuses({"WINDOW"})) \cup
         IF Length[payload.target] <= n THEN {Gives(payload.target)} ELSE Statuses({"LIMIT", "WINDOW"})

Encodes(codec, b, v, sizes, limit) ==
    NativeFaults \cup Statuses({"OPTION", "LIMIT", "INVALID", "ZSTD"}) \cup
    When(Length[v] <= limit, {Gives(Payload(codec, b, v, sized)) : sized \in sizes})

\* The bytes of a blob from its payload on, or those of a whole blob.
Tail(blob) == blob.payload
Whole(blob) == IF blob.header = Short THEN blob.payload ELSE Junk

CodecResults(t) ==
    CASE req[t].op = "apply"      -> Decodes(header[t].codec, Tail(Other(t)), Base(t), header[t].target_length)
      [] req[t].op = "raw_apply"  -> Decodes(req[t].codec, Whole(Other(t)), Base(t), req[t].bound)
      [] req[t].op = "decompress" -> Decompresses(Whole(Other(t)), req[t].bound)
      [] req[t].op = "compress"   -> Encodes(ZSTD, empty, Other(t), {TRUE}, FRAME_MAX)
      [] OTHER                    -> Encodes(req[t].codec, Base(t), Other(t), BOOLEAN, RAW_MAX)

(***************************************************************************)
(* How _raise maps a status.  An allocation that fails in the extension    *)
(* itself leaves Python's own MemoryError, a number that is no C int its   *)
(* OverflowError, an unknown ldm is refused before the extension is called.*)
(***************************************************************************)
Exception(status, decoding) ==
    CASE status \in {"LIMIT", "WINDOW"} -> "LimitError"
      [] status \in {"OPTION", "LDM"}   -> "OptionError"
      [] status = "ALLOC"               -> "AllocationError"
      [] status = "INVALID"             -> "DecodeError"
      [] status = "ZSTD"                -> IF decoding THEN "DecodeError" ELSE "NativeError"
      [] status = "EXCEPTION"           -> "NativeError"
      [] status = "NOMEM"               -> "MemoryError"
      [] status = "TOOBIG"              -> "OverflowError"

-------------------------------------------------------------------------------
Init ==
    /\ mem \in [DOMAIN Written -> UNION {Written[b] : b \in DOMAIN Written}]
    /\ \A b \in DOMAIN Written : mem[b] \in Written[b]
    /\ gil = None
    /\ pc = [t \in Threads |-> "idle"]
    /\ req = [t \in Threads |-> None]
    /\ base = [t \in Threads |-> None]
    /\ other = [t \in Threads |-> None]
    /\ header = [t \in Threads |-> None]
    /\ native = [t \in Threads |-> None]
    /\ outcome = [t \in Threads |-> NoAnswer]
    /\ held = [t \in Threads |-> 0]

(***************************************************************************)
(* The GIL.  A thread that does not run a codec may take it when it is     *)
(* free, and the interpreter may make its holder drop it between steps.    *)
(***************************************************************************)
Acquire(t) ==
    /\ gil = None /\ pc[t] # "codec"
    /\ gil' = t
    /\ UNCHANGED <<mem, pc, req, locals>>

Drop(t) ==
    /\ gil = t /\ pc[t] # "codec"
    /\ gil' = None
    /\ UNCHANGED <<mem, pc, req, locals>>

\* A thread outside the library writes to a buffer it shares with the others.
Write(t) ==
    /\ gil = t /\ pc[t] = "idle"
    /\ \E b \in DOMAIN Written : \E v \in Written[b] : mem' = [mem EXCEPT ![b] = v]
    /\ UNCHANGED <<gil, pc, req, locals>>

\* The first statement of each operation.
First(op) ==
    CASE op = "encode_base"                 -> "profile"
      [] op = "inspect"                     -> "unpack"
      [] op \in {"compress", "decompress"}  -> "copy_other"
      [] OTHER                              -> "copy_base"

Call(t) ==
    /\ gil = t /\ pc[t] = "idle"
    /\ \E r \in Requests[t] :
           /\ req' = [req EXCEPT ![t] = r.req]
           /\ base' = [base EXCEPT ![t] = r.base]
           /\ other' = [other EXCEPT ![t] = r.other]
           /\ pc' = [pc EXCEPT ![t] = First(r.req.op)]
    /\ UNCHANGED <<mem, gil, header, native, held, outcome>>

\* Thread t runs Python code, which holds the GIL, and goes on at next.
At(t, label) == gil = t /\ pc[t] = label

Goto(t, next) ==
    /\ pc' = [pc EXCEPT ![t] = next]
    /\ UNCHANGED <<mem, gil, req>>

Passes(t, next) == Goto(t, next) /\ UNCHANGED locals

Ends(t, result) ==
    /\ Goto(t, "done")
    /\ outcome' = [outcome EXCEPT ![t] = result]
    /\ UNCHANGED <<base, other, header, native, held>>

Raises(t, e) == Ends(t, Raised(e))
Returns(t, v) == Ends(t, Returned(v))

(***************************************************************************)
(* _bytes: immutable bytes are used as they are, anything else bytes-like  *)
(* is copied once.                                                         *)
(***************************************************************************)
_bytesKeeps(o) == o   \* a mutant: a buffer is used without a copy

_bytes(o) == Bytes(Read(o))

\* encode_base is encode_delta of an empty base, once it has seen a ZstdProfile.
CheckProfile(t) ==
    /\ At(t, "profile")
    /\ IF req[t].codec = ZSTD THEN Passes(t, "copy_base") ELSE Raises(t, "TypeError")

CopyBase(t) ==
    /\ At(t, "copy_base")
    /\ \/ base[t] = Text /\ Raises(t, "TypeError")
       \/ /\ base[t] # Text
          /\ Goto(t, "copy_other")
          /\ base' = [base EXCEPT ![t] = _bytes(@)]
          /\ UNCHANGED <<other, header, native, held, outcome>>

Copied(t) == IF req[t].op = "apply" THEN "unpack" ELSE "limits"

CopyOtherNever(t) ==   \* a mutant: the second argument is not copied
    /\ At(t, "copy_other")
    /\ IF other[t] = Text THEN Raises(t, "TypeError") ELSE Passes(t, Copied(t))

CopyOther(t) ==
    /\ At(t, "copy_other")
    /\ \/ other[t] = Text /\ Raises(t, "TypeError")
       \/ /\ other[t] # Text
          /\ Goto(t, Copied(t))
          /\ other' = [other EXCEPT ![t] = _bytes(@)]
          /\ UNCHANGED <<base, header, native, held, outcome>>

(***************************************************************************)
(* inspect looks at the object once, through a memoryview, which fixes its *)
(* size while the fields are unpacked; then it checks the fields.          *)
(***************************************************************************)
Unpack(t) ==
    /\ At(t, "unpack")
    /\ \/ other[t] = Text /\ Raises(t, "TypeError")
       \/ /\ other[t] # Text
          /\ Goto(t, "fields")
          /\ header' = [header EXCEPT ![t] = Other(t).header]
          /\ other' = [other EXCEPT ![t] = Bytes(Other(t))]
          /\ UNCHANGED <<base, native, held, outcome>>

CheckFields(t) ==
    /\ At(t, "fields")
    /\ \/ ~WellFormed(header[t]) /\ Raises(t, "EnvelopeError")
       \/ WellFormed(header[t]) /\ req[t].op = "inspect" /\ Returns(t, header[t])
       \/ WellFormed(header[t]) /\ req[t].op = "apply" /\ Passes(t, "lengths")

(***************************************************************************)
(* apply: the checks before the codec, in their order, and the one after.  *)
(***************************************************************************)
BaseLengthDiffers(t) == header[t].base_length # Length[Base(t)]
TargetTooLong(t) == header[t].target_length > min(req[t].bound, RAW_MAX)

CheckLengths(t) ==
    /\ At(t, "lengths")
    /\ \/ BaseLengthDiffers(t) /\ Raises(t, "BaseMismatchError")
       \/ ~BaseLengthDiffers(t) /\ TargetTooLong(t) /\ Raises(t, "LimitError")
       \/ ~BaseLengthDiffers(t) /\ ~TargetTooLong(t) /\ Passes(t, "base_hash")

CheckBaseNever(t) == At(t, "base_hash") /\ Passes(t, "enter")   \* a mutant: only lengths are compared

CheckBase(t) ==
    /\ At(t, "base_hash")
    /\ IF Base(t) = header[t].base_sha256 THEN Passes(t, "enter") ELSE Raises(t, "BaseMismatchError")

CheckTarget(t) ==
    /\ At(t, "target_hash")
    /\ IF native[t].value = header[t].target_sha256
       THEN Returns(t, native[t].value) ELSE Raises(t, "IntegrityError")

(***************************************************************************)
(* The other operations: the limits before the codec; the profile of       *)
(* encode_delta is looked at after them.                                   *)
(***************************************************************************)
OverLimit(t) ==
    LET op == req[t].op
    IN  \/ op \in WithBase /\ Length[Base(t)] > RAW_MAX
        \/ op \in Envelopers /\ Length[Other(t)] > RAW_MAX
        \/ op = "raw_apply" /\ req[t].bound \notin 0..RAW_MAX
        \/ op = "compress" /\ Length[Other(t)] > FRAME_MAX
        \/ op = "decompress" /\ req[t].bound \notin 0..FRAME_MAX

NoProfile(t) == req[t].op = "encode_delta" /\ req[t].codec = None

CheckLimits(t) ==
    /\ At(t, "limits")
    /\ \/ OverLimit(t) /\ Raises(t, "LimitError")
       \/ ~OverLimit(t) /\ NoProfile(t) /\ Raises(t, "TypeError")
       \/ ~OverLimit(t) /\ ~NoProfile(t) /\ Passes(t, "enter")

_envelope(t) ==
    /\ At(t, "envelope")
    /\ Returns(t, Envelope(req[t].codec, Base(t), Other(t), native[t].value))

(***************************************************************************)
(* The extension.  apply allocates the target before it releases the GIL;  *)
(* the others get a block from the codec and copy it into a bytes object   *)
(* afterwards.                                                             *)
(***************************************************************************)
AllocateTarget(t) ==
    /\ At(t, "enter") /\ req[t].op \in Appliers
    /\ \/ /\ Goto(t, "allow_threads")
          /\ held' = [held EXCEPT ![t] = @ + 1]
          /\ UNCHANGED native
       \/ /\ Goto(t, "leave")
          /\ native' = [native EXCEPT ![t] = Status("NOMEM")]
          /\ UNCHANGED held
    /\ UNCHANGED <<base, other, header, outcome>>

\* The numbers of a profile, whatever they are, are parsed as C ints; the word for LDM is
\* looked up before.
ParseArguments(t) ==
    /\ At(t, "enter") /\ req[t].op \notin Appliers
    /\ \/ Passes(t, "allow_threads")
       \/ /\ Goto(t, "leave")
          /\ \/ req[t].op \in Encoders /\ native' = [native EXCEPT ![t] = Status("TOOBIG")]
             \/ /\ req[t].op \in Encoders \ {"compress"} /\ req[t].codec = ZSTD
                /\ native' = [native EXCEPT ![t] = Status("LDM")]
          /\ UNCHANGED <<base, other, header, held, outcome>>

AllowThreadsNever(t) ==   \* a mutant: the codec runs with the GIL
    At(t, "allow_threads") /\ Passes(t, "codec")

\* Py_BEGIN_ALLOW_THREADS
AllowThreads(t) ==
    /\ At(t, "allow_threads")
    /\ gil' = None
    /\ pc' = [pc EXCEPT ![t] = "codec"]
    /\ UNCHANGED <<mem, req, locals>>

\* The codec runs without the GIL.
Codec(t) ==
    /\ pc[t] = "codec"
    /\ pc' = [pc EXCEPT ![t] = "finish"]
    /\ \E r \in CodecResults(t) :
           /\ native' = [native EXCEPT ![t] = r]
           /\ held' = [held EXCEPT ![t] = IF req[t].op \in Appliers \/ r.status # "OK" THEN @ ELSE @ + 1]
    /\ UNCHANGED <<mem, gil, req, base, other, header, outcome>>

FinishApplyLeaks(t) ==   \* a mutant: no Py_DECREF on failure
    /\ At(t, "finish") /\ req[t].op \in Appliers
    /\ Goto(t, "leave")
    /\ held' = [held EXCEPT ![t] = IF native[t].status = "OK" THEN @ - 1 ELSE @]
    /\ UNCHANGED <<base, other, header, native, outcome>>

\* The end of apply in _native.c: the target goes to the caller or is released.
FinishApply(t) ==
    /\ At(t, "finish") /\ req[t].op \in Appliers
    /\ Goto(t, "leave")
    /\ held' = [held EXCEPT ![t] = @ - 1]
    /\ UNCHANGED <<base, other, header, native, outcome>>

\* finish in _native.c: the block is copied into a new object, if there is room for
\* one, and freed.
Finish(t) ==
    /\ At(t, "finish") /\ req[t].op \notin Appliers
    /\ Goto(t, "leave")
    /\ \/ UNCHANGED native
       \/ native[t].status = "OK" /\ native' = [native EXCEPT ![t] = Status("NOMEM")]
    /\ held' = [held EXCEPT ![t] = IF native[t].status = "OK" THEN @ - 1 ELSE @]
    /\ UNCHANGED <<base, other, header, outcome>>

\* _call: an exception for a status.
LeaveRaising(t) ==
    /\ At(t, "leave") /\ native[t].status # "OK"
    /\ Raises(t, Exception(native[t].status, req[t].op \notin Encoders))

\* Back in Python, with bytes.
Leave(t) ==
    LET op == req[t].op
    IN  /\ At(t, "leave") /\ native[t].status = "OK"
        /\ \/ op = "apply" /\ Passes(t, "target_hash")
           \/ op \in Envelopers /\ Passes(t, "envelope")
           \/ op \in {"raw_encode", "compress"} /\ Returns(t, Blob(Short, native[t].value))
           \/ op \in {"raw_apply", "decompress"} /\ Returns(t, native[t].value)

\* The caller has the outcome; the locals are gone.
Return(t) ==
    /\ At(t, "done")
    /\ pc' = [pc EXCEPT ![t] = "idle"]
    /\ req' = [req EXCEPT ![t] = None]
    /\ base' = [base EXCEPT ![t] = None]
    /\ other' = [other EXCEPT ![t] = None]
    /\ header' = [header EXCEPT ![t] = None]
    /\ native' = [native EXCEPT ![t] = None]
    /\ outcome' = [outcome EXCEPT ![t] = NoAnswer]
    /\ UNCHANGED <<mem, gil, held>>

Python(t) ==
    \/ CheckProfile(t) \/ CopyBase(t) \/ CopyOther(t)
    \/ Unpack(t) \/ CheckFields(t) \/ CheckLengths(t) \/ CheckBase(t) \/ CheckTarget(t)
    \/ CheckLimits(t) \/ _envelope(t)
    \/ AllocateTarget(t) \/ ParseArguments(t) \/ AllowThreads(t)
    \/ FinishApply(t) \/ Finish(t) \/ LeaveRaising(t) \/ Leave(t) \/ Return(t)

Next == \E t \in Threads : Acquire(t) \/ Drop(t) \/ Write(t) \/ Call(t) \/ Python(t) \/ Codec(t)

(***************************************************************************)
(* The interpreter hands the GIL to every thread that keeps asking for it  *)
(* and runs the code of its holder.  A codec call need not end.            *)
(***************************************************************************)
Fairness == \A t \in Threads : SF_vars(Acquire(t)) /\ WF_vars(Drop(t)) /\ SF_vars(Python(t))

Spec == Init /\ [][Next]_vars /\ Fairness

-------------------------------------------------------------------------------
(***************************************************************************)
(* Properties                                                              *)
(***************************************************************************)

\* While a codec runs without the GIL, nothing it reads can change, whatever the
\* other threads write to the buffers the caller passed (README: the codecs "must not
\* see memory that another thread could change").
CodecReadsStable ==
    [][\A t \in Threads : pc[t] = "codec" => Base(t)' = Base(t) /\ Other(t)' = Other(t)]_vars

\* No payload is decoded against a base the envelope does not record: between the
\* check of the digest and the end of the decoding the base stays the one checked.
DecodesAgainstItsBase ==
    \A t \in Threads :
        pc[t] \in {"enter", "allow_threads", "codec", "finish"} /\ req[t].op = "apply" =>
            Base(t) = header[t].base_sha256

\* A call that ended, in whatever way, has left nothing allocated in the extension.
NoLeak == \A t \in Threads : pc[t] \in {"leave", "done", "idle"} => held[t] = 0

\* What each caller sees is ApiPromise: every argument is looked at once, and the outcome is
\* one promised for the values seen, although the code reads lengths, digests and payloads at
\* different times, gives up the GIL in between, and the caller's buffers change meanwhile.
calls ==
    [t \in Threads |->
        IF pc[t] = "idle" THEN NoCall
        ELSE [req |-> req[t], base |-> base[t], other |-> other[t], outcome |-> outcome[t]]]

Promise == INSTANCE ApiPromise WITH call <- calls

KeepsPromise == Promise!Spec

\* A codec call that never ends stops nobody else: every other thread gets the GIL again
\* and again, and its calls return or are in a codec themselves.
NobodyWaits ==
    \A t \in Threads :
        /\ []<>(gil = t \/ pc[t] = "codec")
        /\ pc[t] # "idle" ~> pc[t] \in {"idle", "codec"}

\* "Catch pyhdiff.Error: every failure of a codec call derives from it."
EveryFailureIsAnError ==
    \A t \in Threads : outcome[t] \notin {Raised("MemoryError"), Raised("OverflowError")}
===============================================================================
