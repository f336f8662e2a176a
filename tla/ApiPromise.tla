------------------------------- MODULE ApiPromise -------------------------------
(***************************************************************************)
(* What the Python API promises to threads that share mutable buffers: a   *)
(* call looks at each of its arguments once, at some moment between its    *)
(* start and its end, and its outcome is then a function of the values it  *)
(* saw, up to failures of memory and of the codec.  No GIL, no codec call, *)
(* no copy and no check of a digest appears here.                          *)
(***************************************************************************)
EXTENDS Phdf

CONSTANTS Threads,
          Requests,    \* what each thread may ask: sets of [req, base, other]
          Written      \* what other threads may write to each mutable buffer

VARIABLES mem,         \* the values of the mutable buffers
          call         \* per thread: the call in progress, or NoCall

vars == <<mem, call>>

Read(o) == IF o.mutable THEN mem[o.value] ELSE o.value

(***************************************************************************)
(* The outcomes promised for the values of the arguments.                  *)
(***************************************************************************)
Errors(names) == {Raised(e) : e \in names}

\* At any time: no memory, or an exception contained in the bridge.
Faults == Errors({"AllocationError", "MemoryError", "NativeError"})

\* A profile out of range, or an encoder that gives up.
Refusals == Errors({"OptionError", "OverflowError", "LimitError", "DecodeError"})

Made(codec, b, t) == {Payload(codec, b, t, sized) : sized \in BOOLEAN}

EncodeOutcomes(codec, b, t) ==
    LET fits == Length[b] <= RAW_MAX /\ Length[t] <= RAW_MAX
    IN  When(~fits, Errors({"LimitError"})) \cup
        When(codec = None, Errors({"TypeError"})) \cup
        When(fits /\ codec # None,
             Faults \cup Refusals \cup {Returned(Envelope(codec, b, t, p)) : p \in Made(codec, b, t)})

\* Only the recorded target, only for the recorded base, only within the bound; and
\* what encode_delta made never fails otherwise.
ApplyOutcomes(b, blob, bound) ==
    LET h == blob.header
        right == b = h.base_sha256 /\ Length[b] = h.base_length
        fits == h.target_length <= min(bound, RAW_MAX)
    IN  IF ~WellFormed(h) THEN Errors({"EnvelopeError"}) ELSE
        When(~right, Errors({"BaseMismatchError"})) \cup
        When(~fits, Errors({"LimitError"})) \cup
        When(right /\ fits, Faults \cup {Returned(h.target_sha256)}) \cup
        When(right /\ fits /\ ~Genuine(blob), Errors({"DecodeError", "LimitError", "IntegrityError"}))

InspectOutcomes(blob) ==
    IF WellFormed(blob.header) THEN {Returned(blob.header)} ELSE Errors({"EnvelopeError"})

RawEncodeOutcomes(codec, b, t) ==
    When(Length[b] > RAW_MAX, Errors({"LimitError"})) \cup
    When(Length[b] <= RAW_MAX,
         Faults \cup Refusals \cup When(Length[t] <= RAW_MAX, {Returned(Blob(Short, p)) : p \in Made(codec, b, t)}))

\* Exactly the length asked for; the target, when its own base and length are given.
RawApplyOutcomes(codec, b, blob, n) ==
    IF Length[b] > RAW_MAX \/ n \notin 0..RAW_MAX THEN Errors({"LimitError"})
    ELSE LET p == blob.payload
             own == blob.header = Short /\ p.codec = codec /\ p.base = b /\ Length[p.target] = n
         IN  Faults \cup IF own THEN {Returned(p.target)}
                         ELSE Errors({"DecodeError", "LimitError"}) \cup
                              {Returned(v) : v \in {v \in Contents : Length[v] = n}}

CompressOutcomes(v) ==
    IF Length[v] > FRAME_MAX THEN Errors({"LimitError"})
    ELSE Faults \cup Refusals \cup {Returned(Blob(Short, Frame(v)))}

\* Never more than the bound; what compress made, if and only if it fits.
DecompressOutcomes(blob, n) ==
    IF n \notin 0..FRAME_MAX THEN Errors({"LimitError"})
    ELSE LET p == blob.payload
             own == blob.header = Short /\ p \in {Frame(v) : v \in Contents}
         IN  Faults \cup
             IF ~own THEN Errors({"DecodeError", "LimitError"}) \cup
                          {Returned(v) : v \in {v \in Contents : Length[v] <= n}}
             ELSE IF Length[p.target] <= n THEN {Returned(p.target)} ELSE Errors({"LimitError"})

Outcomes(req, b, o) ==
    CASE req.op \in Envelopers   -> EncodeOutcomes(req.codec, b, o)
      [] req.op = "apply"        -> ApplyOutcomes(b, o, req.bound)
      [] req.op = "inspect"      -> InspectOutcomes(o)
      [] req.op = "raw_encode"   -> RawEncodeOutcomes(req.codec, b, o)
      [] req.op = "raw_apply"    -> RawApplyOutcomes(req.codec, b, o, req.bound)
      [] req.op = "compress"     -> CompressOutcomes(o)
      [] req.op = "decompress"   -> DecompressOutcomes(o, req.bound)

Promised(c) ==
    IF c.base = Text \/ c.other = Text \/ (c.req.op = "encode_base" /\ c.req.codec # ZSTD)
    THEN Errors({"TypeError"})
    ELSE IF c.base.mutable \/ c.other.mutable THEN {}
    ELSE Outcomes(c.req, c.base.value, c.other.value)

-------------------------------------------------------------------------------
Init ==
    /\ mem \in [DOMAIN Written -> UNION {Written[b] : b \in DOMAIN Written}]
    /\ \A b \in DOMAIN Written : mem[b] \in Written[b]
    /\ call = [t \in Threads |-> NoCall]

Write ==
    /\ \E b \in DOMAIN Written : \E v \in Written[b] : mem' = [mem EXCEPT ![b] = v]
    /\ UNCHANGED call

Call(t) ==
    /\ call[t] = NoCall
    /\ \E r \in Requests[t] :
           call' = [call EXCEPT ![t] = [req |-> r.req, base |-> r.base, other |-> r.other, outcome |-> NoAnswer]]
    /\ UNCHANGED mem

Look(t) ==
    /\ call[t] # NoCall
    /\ \/ call[t].base.mutable /\ call' = [call EXCEPT ![t].base = Bytes(Read(@))]
       \/ call[t].other.mutable /\ call' = [call EXCEPT ![t].other = Bytes(Read(@))]
    /\ UNCHANGED mem

Answer(t) ==
    /\ call[t] # NoCall /\ call[t].outcome = NoAnswer
    /\ \E r \in Promised(call[t]) : call' = [call EXCEPT ![t].outcome = r]
    /\ UNCHANGED mem

Return(t) ==
    /\ call[t] # NoCall /\ call[t].outcome # NoAnswer
    /\ call' = [call EXCEPT ![t] = NoCall]
    /\ UNCHANGED mem

Next == Write \/ \E t \in Threads : Call(t) \/ Look(t) \/ Answer(t) \/ Return(t)

Spec == Init /\ [][Next]_vars
===============================================================================
