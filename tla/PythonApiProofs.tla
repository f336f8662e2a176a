----------------------------- MODULE PythonApiProofs -----------------------------
(***************************************************************************)
(* Proofs about PythonApi for any threads, requests, buffers and lengths:  *)
(* the codecs read what cannot change, envelopes are decoded against their *)
(* base, nothing is leaked, the module implements ApiPromise, and the zstd *)
(* codecs return what it takes them to return.                             *)
(*                                                                         *)
(* The invariant is stated about the local variables of one thread, as     *)
(* constant operators of their values: p is the place in the code, r the   *)
(* request, b and o the objects base and other, h the header, n what the   *)
(* extension returned, k how much is held, x the outcome.  A step of one   *)
(* thread then leaves the invariant of the others alone.                   *)
(***************************************************************************)
EXTENDS PythonApi, TLAPS

InExtension == {"enter", "allow_threads", "codec", "finish", "leave"}
InApply == {"lengths", "base_hash", "target_hash"}
Taken == {"unpack", "fields", "limits", "envelope"} \cup InApply \cup InExtension

\* Which operations pass through which place.
WhereInv(p, r) ==
    /\ p = "profile" => r.op = "encode_base"
    /\ p = "copy_base" => r.op \in WithBase
    /\ p = "copy_other" => r.op # "inspect"
    /\ p \in {"unpack", "fields"} => r.op \in {"apply", "inspect"}
    /\ p \in InApply => r.op = "apply"
    /\ p = "limits" => r.op \notin {"apply", "inspect"}
    /\ p = "envelope" => r.op \in Envelopers
    /\ p \in InExtension => r.op # "inspect"
    /\ p \notin {"idle", "profile", "done"} /\ r.op = "encode_base" => r.codec = ZSTD

\* The arguments are what callers pass, and copies of it once they were copied: nothing
\* that is used after the copies can be changed by another thread.
ArgumentsInv(p, r, b, o) ==
    /\ p # "idle" => IsCall([req |-> r, base |-> b, other |-> o])
    /\ p \in Taken \cup {"copy_other"} => b = Bytes(b.value) /\ b.value \in Contents
    /\ \/ p \in Taken \ {"unpack"}
       \/ p = "unpack" /\ r.op = "apply"
       => o = Bytes(o.value) /\ o # Text

\* What the checks before the codec have established.
Fits(r, b, o) ==
    /\ r.op \in Envelopers => /\ Length[b.value] <= RAW_MAX /\ Length[o.value] <= RAW_MAX
                              /\ r.codec # None
    /\ r.op = "raw_encode" => Length[b.value] <= RAW_MAX
    /\ r.op = "raw_apply" => Length[b.value] <= RAW_MAX /\ r.bound \in 0..RAW_MAX
    /\ r.op = "compress" => Length[o.value] <= FRAME_MAX
    /\ r.op = "decompress" => r.bound \in 0..FRAME_MAX

ChecksInv(p, r, b, o, h) ==
    /\ p \in InExtension \cup {"envelope"} => Fits(r, b, o)
    /\ p \in {"fields"} \cup InApply \/ (p \in InExtension /\ r.op = "apply") => h = o.value.header
    /\ p \in InApply \/ (p \in InExtension /\ r.op = "apply") => WellFormed(h)
    /\ p \in {"base_hash", "target_hash"} \/ (p \in InExtension /\ r.op = "apply") =>
          h.base_length = Length[b.value] /\ h.target_length <= min(r.bound, RAW_MAX)
    /\ p = "target_hash" \/ (p \in InExtension /\ r.op = "apply") => b.value = h.base_sha256

\* What the codec may have returned: CodecResults of the values.
Results(r, v, w, h) ==
    CASE r.op = "apply"      -> Decodes(h.codec, Tail(w), v, h.target_length)
      [] r.op = "raw_apply"  -> Decodes(r.codec, Whole(w), v, r.bound)
      [] r.op = "decompress" -> Decompresses(Whole(w), r.bound)
      [] r.op = "compress"   -> Encodes(ZSTD, empty, w, {TRUE}, FRAME_MAX)
      [] OTHER               -> Encodes(r.codec, v, w, BOOLEAN, RAW_MAX)

ExtensionStatuses(r) == {Status("NOMEM")} \cup When(r.op \in Encoders, Statuses({"TOOBIG", "LDM"}))

NativeInv(p, r, b, o, h, n) ==
    /\ p = "finish" => n \in Results(r, b.value, o.value, h)
    /\ p = "leave" => n \in Results(r, b.value, o.value, h) \cup ExtensionStatuses(r)
    /\ p \in {"target_hash", "envelope"} => n \in Results(r, b.value, o.value, h) /\ n.status = "OK"

\* apply owns the target while the codec runs, the others the block the codec returned.
HeldInv(p, r, n, k) ==
    k = IF \/ p \in {"allow_threads", "codec", "finish"} /\ r.op \in Appliers
           \/ p = "finish" /\ n.status = "OK"
        THEN 1 ELSE 0

OutcomeInv(p, x) == x = NoAnswer <=> p # "done"

LocalInv(p, r, b, o, h, n, k, x) ==
    /\ WhereInv(p, r)
    /\ ArgumentsInv(p, r, b, o)
    /\ ChecksInv(p, r, b, o, h)
    /\ NativeInv(p, r, b, o, h, n)
    /\ HeldInv(p, r, n, k)
    /\ OutcomeInv(p, x)

ThreadInv(t) == LocalInv(pc[t], req[t], base[t], other[t], header[t], native[t], held[t], outcome[t])

\* The variables are functions of the threads and of the buffers.
ShapeInv ==
    /\ mem = [b \in DOMAIN Written |-> mem[b]]
    /\ pc = [t \in Threads |-> pc[t]] /\ req = [t \in Threads |-> req[t]]
    /\ base = [t \in Threads |-> base[t]] /\ other = [t \in Threads |-> other[t]]
    /\ header = [t \in Threads |-> header[t]] /\ native = [t \in Threads |-> native[t]]
    /\ held = [t \in Threads |-> held[t]] /\ outcome = [t \in Threads |-> outcome[t]]

Inv ==
    /\ ShapeInv
    /\ \A b \in DOMAIN Written : mem[b] \in Written[b]
    /\ \A t \in Threads : ThreadInv(t)

-------------------------------------------------------------------------------
(***************************************************************************)
(* A step of one thread.                                                   *)
(***************************************************************************)

\* The variables keep their shape, and the locals of the other threads their values.
StepOf(t) ==
    /\ ShapeInv'
    /\ \A u \in Threads \ {t} :
          /\ pc'[u] = pc[u] /\ req'[u] = req[u] /\ base'[u] = base[u] /\ other'[u] = other[u]
          /\ header'[u] = header[u] /\ native'[u] = native[u] /\ held'[u] = held[u]
          /\ outcome'[u] = outcome[u]

LEMMA FrameKeepsInv ==
    ASSUME Inv, NEW t \in Threads, StepOf(t), ThreadInv(t)',
           \A b \in DOMAIN Written : mem'[b] \in Written[b]
    PROVE  Inv'
<1>1. ASSUME NEW u \in Threads PROVE ThreadInv(u)'
  <2>1. CASE u = t
    BY <2>1
  <2>2. CASE u # t
    BY <2>2 DEF StepOf, Inv, ThreadInv
  <2> QED
    BY <2>1, <2>2
<1> QED
  BY <1>1 DEF Inv, StepOf

\* Reading an object gives one of its values, and never None.
LEMMA ReadInValues ==
    ASSUME Inv, NEW o, IsObject(o)
    PROVE  Read(o) \in Values(o) /\ (o # Text => Read(o) # None)
<1>1. CASE o = Bytes(o.value)
  <2>1. ~o.mutable
    BY <1>1 DEF Bytes
  <2> QED
    BY <1>1, <2>1 DEF Read, Values, Text
<1>2. CASE o = Buffer(o.value) /\ o.value \in DOMAIN Written
  <2>1. o.mutable
    BY <1>2 DEF Buffer
  <2> QED
    BY <1>2, <2>1, BuffersAssumption DEF Read, Values, Inv
<1> QED
  BY <1>1, <1>2 DEF IsObject

\* Bytes read as what they hold.
LEMMA ReadBytes ==
    ASSUME NEW o, o = Bytes(o.value)
    PROVE  Read(o) = o.value /\ Bytes(Read(o)) = o /\ ~o.mutable
<1>1. ~o.mutable
  BY DEF Bytes
<1> QED
  BY <1>1 DEF Read

\* A call whose base, or whose other argument, is replaced by a copy is still a call.
LEMMA CopiedBase ==
    ASSUME Inv, NEW r, NEW b, NEW o, IsCall([req |-> r, base |-> b, other |-> o]), b # Text
    PROVE  /\ IsCall([req |-> r, base |-> Bytes(Read(b)), other |-> o])
           /\ Read(b) \in Contents
<1> DEFINE c == [req |-> r, base |-> b, other |-> o]
           d == [req |-> r, base |-> Bytes(Read(b)), other |-> o]
<1>1. /\ c.req = r /\ c.base = b /\ c.other = o /\ IsCall(c)
      /\ d.req = r /\ d.base = Bytes(Read(b)) /\ d.other = o
  OBVIOUS
<1>2. IsObject(b) /\ Values(b) \subseteq Contents
  BY <1>1 DEF IsCall
<1>3. Read(b) \in Contents
  BY <1>2, ReadInValues
<1>4. /\ ~Bytes(Read(b)).mutable /\ Bytes(Read(b)).value = Read(b)
      /\ Bytes(Read(b)) = Bytes(Bytes(Read(b)).value)
  BY DEF Bytes
<1>5. Values(Bytes(Read(b))) = {Read(b)} /\ IsObject(Bytes(Read(b)))
  BY <1>4 DEF Values, IsObject
<1>6. b = Bytes(empty) => Bytes(Read(b)) = Bytes(empty)
  BY DEF Bytes, Read
<1>7. IsCall(d)
  <2> HIDE DEF c, d
  <2> QED
    BY <1>1, <1>2, <1>3, <1>5, <1>6 DEF IsCall
<1> QED
  BY <1>3, <1>7

LEMMA CopiedOther ==
    ASSUME Inv, NEW r, NEW b, NEW o, IsCall([req |-> r, base |-> b, other |-> o]), o # Text
    PROVE  /\ IsCall([req |-> r, base |-> b, other |-> Bytes(Read(o))])
           /\ Bytes(Read(o)) # Text
<1> DEFINE c == [req |-> r, base |-> b, other |-> o]
           d == [req |-> r, base |-> b, other |-> Bytes(Read(o))]
<1>1. /\ c.req = r /\ c.base = b /\ c.other = o /\ IsCall(c)
      /\ d.req = r /\ d.base = b /\ d.other = Bytes(Read(o))
  OBVIOUS
<1>2. IsObject(o)
  BY <1>1 DEF IsCall
<1>3. Read(o) \in Values(o) /\ Read(o) # None
  BY <1>2, ReadInValues
<1>4. /\ ~Bytes(Read(o)).mutable /\ Bytes(Read(o)).value = Read(o)
      /\ Bytes(Read(o)) = Bytes(Bytes(Read(o)).value)
  BY DEF Bytes
<1>5. Values(Bytes(Read(o))) = {Read(o)} /\ IsObject(Bytes(Read(o)))
  BY <1>4 DEF Values, IsObject
<1>6. Bytes(Read(o)) # Text
  BY <1>3 DEF Bytes, Text
<1>7. IsCall(d)
  <2> HIDE DEF c, d
  <2> QED
    BY <1>1, <1>2, <1>3, <1>5, <1>6 DEF IsCall
<1> QED
  BY <1>6, <1>7

-------------------------------------------------------------------------------
(***************************************************************************)
(* Every action of a thread leaves the others and the buffers alone.       *)
(***************************************************************************)
LEMMA PassesFrame ==
    ASSUME ShapeInv, NEW t \in Threads, NEW next, Passes(t, next)
    PROVE  StepOf(t) /\ mem' = mem
  BY DEF Passes, Goto, locals, StepOf, ShapeInv

LEMMA EndsFrame ==
    ASSUME ShapeInv, NEW t \in Threads, NEW result, Ends(t, result)
    PROVE  StepOf(t) /\ mem' = mem
  BY DEF Ends, Goto, StepOf, ShapeInv

LEMMA PythonFrame ==
    ASSUME ShapeInv, NEW t \in Threads, Python(t) \/ Codec(t) \/ Call(t)
    PROVE  StepOf(t) /\ mem' = mem
<1> USE DEF Raises, Returns
<1>1. CASE CheckProfile(t)
  BY <1>1, PassesFrame, EndsFrame DEF CheckProfile
<1>2. CASE CopyBase(t)
  BY <1>2, EndsFrame DEF CopyBase, Goto, StepOf, ShapeInv
<1>3. CASE CopyOther(t)
  BY <1>3, EndsFrame DEF CopyOther, Goto, StepOf, ShapeInv
<1>4. CASE Unpack(t)
  BY <1>4, EndsFrame DEF Unpack, Goto, StepOf, ShapeInv
<1>5. CASE CheckFields(t)
  BY <1>5, PassesFrame, EndsFrame DEF CheckFields
<1>6. CASE CheckLengths(t)
  BY <1>6, PassesFrame, EndsFrame DEF CheckLengths
<1>7. CASE CheckBase(t)
  BY <1>7, PassesFrame, EndsFrame DEF CheckBase
<1>8. CASE CheckTarget(t)
  BY <1>8, EndsFrame DEF CheckTarget
<1>9. CASE CheckLimits(t)
  BY <1>9, PassesFrame, EndsFrame DEF CheckLimits
<1>10. CASE _envelope(t)
  BY <1>10, EndsFrame DEF _envelope
<1>11. CASE AllocateTarget(t)
  BY <1>11 DEF AllocateTarget, Goto, StepOf, ShapeInv
<1>12. CASE ParseArguments(t)
  BY <1>12, PassesFrame DEF ParseArguments, Goto, StepOf, ShapeInv
<1>13. CASE AllowThreads(t)
  BY <1>13 DEF AllowThreads, locals, StepOf, ShapeInv
<1>14. CASE FinishApply(t)
  BY <1>14 DEF FinishApply, Goto, StepOf, ShapeInv
<1>15. CASE Finish(t)
  BY <1>15 DEF Finish, Goto, StepOf, ShapeInv
<1>16. CASE LeaveRaising(t)
  BY <1>16, EndsFrame DEF LeaveRaising
<1>17. CASE Leave(t)
  BY <1>17, PassesFrame, EndsFrame DEF Leave
<1>18. CASE Return(t)
  BY <1>18 DEF Return, StepOf, ShapeInv
<1>19. CASE Codec(t)
  BY <1>19 DEF Codec, StepOf, ShapeInv
<1>20. CASE Call(t)
  BY <1>20 DEF Call, StepOf, ShapeInv
<1> QED
  BY <1>1, <1>2, <1>3, <1>4, <1>5, <1>6, <1>7, <1>8, <1>9, <1>10, <1>11, <1>12, <1>13, <1>14,
     <1>15, <1>16, <1>17, <1>18, <1>19, <1>20 DEF Python

-------------------------------------------------------------------------------
(***************************************************************************)
(* Every action of a thread keeps the invariant of its locals.             *)
(***************************************************************************)
LEMMA Answered ==
    /\ \A v : Returned(v) # NoAnswer
    /\ \A e : Raised(e) # NoAnswer
  BY DEF Returned, Raised, NoAnswer

\* The locals of thread t after it went on without a change, and after it has ended.
LEMMA PassesLocals ==
    ASSUME ShapeInv, NEW t \in Threads, NEW next, Passes(t, next)
    PROVE  /\ pc'[t] = next /\ req'[t] = req[t] /\ base'[t] = base[t] /\ other'[t] = other[t]
           /\ header'[t] = header[t] /\ native'[t] = native[t] /\ held'[t] = held[t]
           /\ outcome'[t] = outcome[t]
  BY DEF Passes, Goto, locals, ShapeInv

LEMMA EndsLocals ==
    ASSUME ShapeInv, NEW t \in Threads, NEW result, Ends(t, result)
    PROVE  /\ pc'[t] = "done" /\ req'[t] = req[t] /\ base'[t] = base[t] /\ other'[t] = other[t]
           /\ header'[t] = header[t] /\ native'[t] = native[t] /\ held'[t] = held[t]
           /\ outcome'[t] = result
  BY DEF Ends, Goto, ShapeInv

LEMMA EndsKeepsThreadInv ==
    ASSUME Inv, NEW t \in Threads, NEW result, result # NoAnswer, Ends(t, result),
           pc[t] \notin {"idle", "allow_threads", "codec", "finish"}
    PROVE  ThreadInv(t)'
<1> DEFINE x == result
<1>1. LocalInv(pc[t], req[t], base[t], other[t], header[t], native[t], held[t], outcome[t])
  BY DEF Inv, ThreadInv
<1>2. LocalInv("done", req[t], base[t], other[t], header[t], native[t], held[t], x)
  BY <1>1 DEF LocalInv, WhereInv, ArgumentsInv, ChecksInv, NativeInv, HeldInv, OutcomeInv,
     InExtension, InApply, Taken
<1> QED
  BY <1>2, EndsLocals DEF ThreadInv, Inv

\* _bytes and inspect replace an argument by bytes with its value.
LEMMA CopyStep ==
    ASSUME Inv, NEW t \in Threads, CheckProfile(t) \/ CopyBase(t) \/ CopyOther(t) \/ Unpack(t)
    PROVE  ThreadInv(t)'
<1> DEFINE L(p, b, o, h) == LocalInv(p, req[t], b, o, h, native[t], held[t], outcome[t])
<1>1. LocalInv(pc[t], req[t], base[t], other[t], header[t], native[t], held[t], outcome[t])
  BY DEF Inv, ThreadInv
<1> USE DEF Raises, Returns
<1>2. CASE CheckProfile(t)
  <2>1. CASE req[t].codec = ZSTD /\ Passes(t, "copy_base")
    <3>1. L("copy_base", base[t], other[t], header[t])
      BY <1>1, <1>2, <2>1 DEF CheckProfile, At, LocalInv, WhereInv, ArgumentsInv, ChecksInv, NativeInv,
         HeldInv, OutcomeInv, InExtension, InApply, Taken, WithBase
    <3> QED
      BY <2>1, <3>1, PassesLocals DEF ThreadInv, Inv
  <2>2. CASE Ends(t, Raised("TypeError"))
    BY <1>2, <2>2, EndsKeepsThreadInv, Answered DEF CheckProfile, At
  <2> QED
    BY <1>2, <2>1, <2>2 DEF CheckProfile
<1>3. CASE CopyBase(t)
  <2>1. CASE base[t] # Text /\ Goto(t, "copy_other")
    <3>1. IsCall([req |-> req[t], base |-> base[t], other |-> other[t]])
      BY <1>1, <1>3 DEF LocalInv, ArgumentsInv, CopyBase, At
    <3>2. /\ IsCall([req |-> req[t], base |-> _bytes(base[t]), other |-> other[t]])
          /\ _bytes(base[t]).value \in Contents /\ _bytes(base[t]) = Bytes(_bytes(base[t]).value)
      BY <2>1, <3>1, CopiedBase DEF _bytes, Bytes
    <3>3. L("copy_other", _bytes(base[t]), other[t], header[t])
      BY <1>1, <1>3, <3>2 DEF CopyBase, At, LocalInv, WhereInv, ArgumentsInv, ChecksInv, NativeInv,
         HeldInv, OutcomeInv, InExtension, InApply, Taken, WithBase
    <3> QED
      BY <1>3, <2>1, <3>3, Answered DEF CopyBase, Ends, Goto, ThreadInv, Inv, ShapeInv
  <2>2. CASE Ends(t, Raised("TypeError"))
    BY <1>3, <2>2, EndsKeepsThreadInv, Answered DEF CopyBase, At
  <2> QED
    BY <1>3, <2>1, <2>2 DEF CopyBase
<1>4. CASE CopyOther(t)
  <2>1. CASE other[t] # Text /\ Goto(t, Copied(t)) /\ other' = [other EXCEPT ![t] = _bytes(@)]
             /\ UNCHANGED <<base, header, native, held, outcome>>
    <3>1. IsCall([req |-> req[t], base |-> base[t], other |-> other[t]])
      BY <1>1, <1>4 DEF LocalInv, ArgumentsInv, CopyOther, At
    <3>2. /\ IsCall([req |-> req[t], base |-> base[t], other |-> _bytes(other[t])])
          /\ _bytes(other[t]) # Text /\ _bytes(other[t]) = Bytes(_bytes(other[t]).value)
      BY <2>1, <3>1, CopiedOther DEF _bytes, Bytes
    <3>3. Copied(t) = IF req[t].op = "apply" THEN "unpack" ELSE "limits"
      BY DEF Copied
    <3>4. L(Copied(t), base[t], _bytes(other[t]), header[t])
      BY <1>1, <1>4, <3>2, <3>3 DEF CopyOther, At, LocalInv, WhereInv, ArgumentsInv, ChecksInv, NativeInv,
         HeldInv, OutcomeInv, InExtension, InApply, Taken, WithBase
    <3> QED
      BY <2>1, <3>4 DEF Goto, ThreadInv, Inv, ShapeInv
  <2>2. CASE Ends(t, Raised("TypeError"))
    BY <1>4, <2>2, EndsKeepsThreadInv, Answered DEF CopyOther, At
  <2> QED
    BY <1>4, <2>1, <2>2 DEF CopyOther
<1>5. CASE Unpack(t)
  <2>1. CASE other[t] # Text /\ Goto(t, "fields")
             /\ header' = [header EXCEPT ![t] = Other(t).header]
             /\ other' = [other EXCEPT ![t] = Bytes(Other(t))]
             /\ UNCHANGED <<base, native, held, outcome>>
    <3>1. IsCall([req |-> req[t], base |-> base[t], other |-> other[t]])
      BY <1>1, <1>5 DEF LocalInv, ArgumentsInv, Unpack, At
    <3>2. /\ IsCall([req |-> req[t], base |-> base[t], other |-> Bytes(Other(t))])
          /\ Bytes(Other(t)) # Text /\ Bytes(Other(t)).value = Other(t)
      BY <2>1, <3>1, CopiedOther DEF Other, Bytes
    <3>3. L("fields", base[t], Bytes(Other(t)), Other(t).header)
      BY <1>1, <1>5, <3>2 DEF Unpack, At, LocalInv, WhereInv, ArgumentsInv, ChecksInv, NativeInv,
         HeldInv, OutcomeInv, InExtension, InApply, Taken, WithBase
    <3> QED
      BY <2>1, <3>3 DEF Goto, ThreadInv, Inv, ShapeInv
  <2>2. CASE Ends(t, Raised("TypeError"))
    BY <1>5, <2>2, EndsKeepsThreadInv, Answered DEF Unpack, At
  <2> QED
    BY <1>5, <2>1, <2>2 DEF Unpack
<1> QED
  BY <1>2, <1>3, <1>4, <1>5

\* What a copied argument holds.
LEMMA HeldValue ==
    ASSUME NEW r, NEW b, NEW o, IsCall([req |-> r, base |-> b, other |-> o]),
           o = Bytes(o.value), o # Text
    PROVE  /\ r.op \in Operations /\ r.bound \in Int
           /\ r.op \in Encoders => o.value \in Contents
           /\ r.op \notin Encoders => IsBlob(o.value)
<1> DEFINE c == [req |-> r, base |-> b, other |-> o]
<1>1. c.req = r /\ c.base = b /\ c.other = o /\ IsCall(c)
  OBVIOUS
<1>2. Values(o) = {o.value}
  BY ReadBytes DEF Values
<1> HIDE DEF c
<1> QED
  BY <1>1, <1>2 DEF IsCall

\* The numbers apply compares.
LEMMA HeaderNumbers ==
    ASSUME NEW x, IsBlob(x), WellFormed(x.header)
    PROVE  x.header.base_length \in Nat /\ x.header.target_length \in Nat
  BY DEF IsBlob, WellFormed

LEMMA BlobChecksStep ==
    ASSUME Inv, NEW t \in Threads, CheckFields(t) \/ CheckLengths(t) \/ CheckBase(t) \/ CheckTarget(t)
    PROVE  ThreadInv(t)'
<1> DEFINE L(p) == LocalInv(p, req[t], base[t], other[t], header[t], native[t], held[t], outcome[t])
<1>1. L(pc[t])
  BY DEF Inv, ThreadInv
<1> USE DEF Raises, Returns
<1>2. ASSUME NEW x, Ends(t, x), x # NoAnswer, pc[t] \in {"fields"} \cup InApply PROVE ThreadInv(t)'
  BY <1>2, EndsKeepsThreadInv DEF InApply
<1>3. ASSUME NEW p, Passes(t, p), L(p) PROVE ThreadInv(t)'
  BY <1>3, PassesLocals DEF ThreadInv, Inv
<1>4. CASE CheckFields(t)
  <2>1. CASE WellFormed(header[t]) /\ req[t].op = "apply" /\ Passes(t, "lengths")
    <3>1. L("lengths")
      BY <1>1, <1>4, <2>1 DEF CheckFields, At, LocalInv, WhereInv, ArgumentsInv, ChecksInv, NativeInv,
         HeldInv, OutcomeInv, InExtension, InApply, Taken
    <3> QED
      BY <1>3, <2>1, <3>1
  <2> QED
    BY <1>2, <1>4, <2>1, Answered DEF CheckFields, At
<1>5. CASE CheckLengths(t)
  <2>1. CASE ~BaseLengthDiffers(t) /\ ~TargetTooLong(t) /\ Passes(t, "base_hash")
    <3>1. /\ IsCall([req |-> req[t], base |-> base[t], other |-> other[t]]) /\ req[t].op = "apply"
          /\ other[t] = Bytes(other[t].value) /\ other[t] # Text /\ base[t] = Bytes(base[t].value)
          /\ WellFormed(header[t]) /\ header[t] = other[t].value.header
      BY <1>1, <1>5 DEF CheckLengths, At, LocalInv, WhereInv, ArgumentsInv, ChecksInv, InApply, Taken
    <3>2. IsBlob(other[t].value) /\ req[t].bound \in Int
      BY <3>1, HeldValue DEF Encoders, Envelopers
    <3>3. header[t].target_length \in Nat
      BY <3>1, <3>2, HeaderNumbers
    <3>4. Base(t) = base[t].value
      BY <3>1, ReadBytes DEF Base
    <3>5. header[t].base_length = Length[base[t].value]
      BY <2>1, <3>4 DEF BaseLengthDiffers
    <3>6. header[t].target_length <= min(req[t].bound, RAW_MAX)
      BY <2>1, <3>2, <3>3, MaximaAssumption DEF TargetTooLong, min
    <3>7. L("base_hash")
      BY <1>1, <1>5, <3>5, <3>6 DEF CheckLengths, At, LocalInv, WhereInv, ArgumentsInv, ChecksInv, NativeInv,
         HeldInv, OutcomeInv, InExtension, InApply, Taken
    <3> QED
      BY <1>3, <2>1, <3>7
  <2> QED
    BY <1>2, <1>5, <2>1, Answered DEF CheckLengths, At, InApply
<1>6. CASE CheckBase(t)
  <2>1. CASE Base(t) = header[t].base_sha256 /\ Passes(t, "enter")
    <3>1. base[t] = Bytes(base[t].value)
      BY <1>1, <1>6 DEF CheckBase, At, LocalInv, ArgumentsInv, InApply, Taken
    <3>2. base[t].value = header[t].base_sha256
      BY <2>1, <3>1, ReadBytes DEF Base
    <3>3. L("enter")
      BY <1>1, <1>6, <3>2 DEF CheckBase, At, LocalInv, WhereInv, ArgumentsInv, ChecksInv, NativeInv,
         HeldInv, OutcomeInv, InExtension, InApply, Taken, Fits, Envelopers
    <3> QED
      BY <1>3, <2>1, <3>3
  <2> QED
    BY <1>2, <1>6, <2>1, Answered DEF CheckBase, At, InApply
<1>7. CASE CheckTarget(t)
  BY <1>2, <1>7, Answered DEF CheckTarget, At, InApply
<1> QED
  BY <1>4, <1>5, <1>6, <1>7

LEMMA LimitsStep ==
    ASSUME Inv, NEW t \in Threads, CheckLimits(t) \/ _envelope(t)
    PROVE  ThreadInv(t)'
<1> DEFINE L(p) == LocalInv(p, req[t], base[t], other[t], header[t], native[t], held[t], outcome[t])
<1>1. L(pc[t])
  BY DEF Inv, ThreadInv
<1> USE DEF Raises, Returns
<1>2. ASSUME NEW x, Ends(t, x), x # NoAnswer, pc[t] \in {"limits", "envelope"} PROVE ThreadInv(t)'
  BY <1>2, EndsKeepsThreadInv
<1>3. CASE CheckLimits(t)
  <2>1. CASE ~OverLimit(t) /\ ~NoProfile(t) /\ Passes(t, "enter")
    <3>1. /\ IsCall([req |-> req[t], base |-> base[t], other |-> other[t]])
          /\ req[t].op \notin {"apply", "inspect"} /\ req[t].op = "encode_base" => req[t].codec = ZSTD
          /\ other[t] = Bytes(other[t].value) /\ other[t] # Text
          /\ base[t] = Bytes(base[t].value) /\ base[t].value \in Contents
      BY <1>1, <1>3 DEF CheckLimits, At, LocalInv, WhereInv, ArgumentsInv, Taken
    <3>2. /\ req[t].bound \in Int
          /\ req[t].op \in Encoders => other[t].value \in Contents
      BY <3>1, HeldValue
    <3>3. Base(t) = base[t].value /\ Other(t) = other[t].value
      BY <3>1, ReadBytes DEF Base, Other
    <3>4. \A v \in Contents : Length[v] \in Nat
      BY ContentsAssumption
    <3>5. Fits(req[t], base[t], other[t])
      BY <2>1, <3>1, <3>2, <3>3, <3>4, MaximaAssumption, CodecsAssumption
         DEF Fits, OverLimit, NoProfile, WithBase, Envelopers, Encoders, Codecs, ZSTD
    <3>6. L("enter")
      BY <1>1, <1>3, <3>1, <3>5 DEF CheckLimits, At, LocalInv, WhereInv, ArgumentsInv, ChecksInv, NativeInv,
         HeldInv, OutcomeInv, InExtension, InApply, Taken
    <3> QED
      BY <2>1, <3>6, PassesLocals DEF ThreadInv, Inv
  <2> QED
    BY <1>2, <1>3, <2>1, Answered DEF CheckLimits, At
<1>4. CASE _envelope(t)
  BY <1>2, <1>4, Answered DEF _envelope, At
<1> QED
  BY <1>3, <1>4

-------------------------------------------------------------------------------
\* The codecs get what the copies hold.
LEMMA ResultsOfCodec ==
    ASSUME NEW t \in Threads, base[t] = Bytes(base[t].value), other[t] = Bytes(other[t].value)
    PROVE  CodecResults(t) = Results(req[t], base[t].value, other[t].value, header[t])
<1>1. Base(t) = base[t].value /\ Other(t) = other[t].value
  BY ReadBytes DEF Base, Other
<1> QED
  BY <1>1 DEF CodecResults, Results

\* In the extension the arguments are copies.
LEMMA ArgumentsCopied ==
    ASSUME Inv, NEW t \in Threads, pc[t] \in Taken \ {"unpack"}
    PROVE  /\ base[t] = Bytes(base[t].value) /\ base[t].value \in Contents
           /\ other[t] = Bytes(other[t].value) /\ other[t] # Text
           /\ IsCall([req |-> req[t], base |-> base[t], other |-> other[t]])
<1>1. ArgumentsInv(pc[t], req[t], base[t], other[t]) /\ pc[t] # "idle"
  BY DEF Inv, ThreadInv, LocalInv, Taken, InApply, InExtension
<1> QED
  BY <1>1 DEF ArgumentsInv

\* No status of a codec is one of the extension itself.
LEMMA StatusDiffers ==
    /\ \A s : Status(s).status = s
    /\ \A v : Gives(v).status = "OK"
  BY DEF Status, Gives

\* Entering the extension, and leaving it.
LEMMA EnterStep ==
    ASSUME Inv, NEW t \in Threads, AllocateTarget(t) \/ ParseArguments(t) \/ AllowThreads(t)
    PROVE  ThreadInv(t)'
<1> DEFINE L(p, n, k) == LocalInv(p, req[t], base[t], other[t], header[t], n, k, outcome[t])
<1>1. L(pc[t], native[t], held[t])
  BY DEF Inv, ThreadInv
<1>2. pc[t] = "enter" \/ pc[t] = "allow_threads"
  BY DEF AllocateTarget, ParseArguments, AllowThreads, At
<1>3. ASSUME NEW p, NEW n, NEW k, p \in {"leave", "allow_threads", "codec"},
             WhereInv(p, req[t]), NativeInv(p, req[t], base[t], other[t], header[t], n),
             HeldInv(p, req[t], n, k)
      PROVE  L(p, n, k)
  BY <1>1, <1>2, <1>3 DEF LocalInv, ArgumentsInv, ChecksInv, OutcomeInv, InExtension, InApply, Taken
<1>4. ASSUME NEW p \in {"leave", "allow_threads", "codec"} PROVE WhereInv(p, req[t])
  BY <1>1, <1>2, <1>4 DEF LocalInv, WhereInv, InExtension, InApply
<1>5. held[t] = IF pc[t] = "allow_threads" /\ req[t].op \in Appliers THEN 1 ELSE 0
  BY <1>1, <1>2 DEF LocalInv, HeldInv
<1>6. CASE AllocateTarget(t)
  <2>1. CASE Goto(t, "allow_threads") /\ held' = [held EXCEPT ![t] = @ + 1] /\ UNCHANGED native
    <3>1. L("allow_threads", native[t], held[t] + 1)
      <4>1. NativeInv("allow_threads", req[t], base[t], other[t], header[t], native[t])
        BY DEF NativeInv
      <4>2. HeldInv("allow_threads", req[t], native[t], held[t] + 1)
        BY <1>5, <1>6 DEF HeldInv, AllocateTarget, At
      <4> QED
        BY <1>3, <1>4, <4>1, <4>2
    <3> QED
      BY <1>6, <2>1, <3>1 DEF AllocateTarget, Goto, ThreadInv, Inv, ShapeInv
  <2>2. CASE Goto(t, "leave") /\ native' = [native EXCEPT ![t] = Status("NOMEM")] /\ UNCHANGED held
    <3>1. L("leave", Status("NOMEM"), held[t])
      <4>1. NativeInv("leave", req[t], base[t], other[t], header[t], Status("NOMEM"))
        BY DEF NativeInv, ExtensionStatuses
      <4>2. HeldInv("leave", req[t], Status("NOMEM"), held[t])
        BY <1>5, <1>6 DEF HeldInv, AllocateTarget, At
      <4> QED
        BY <1>3, <1>4, <4>1, <4>2
    <3> QED
      BY <1>6, <2>2, <3>1 DEF AllocateTarget, Goto, ThreadInv, Inv, ShapeInv
  <2> QED
    BY <1>6, <2>1, <2>2 DEF AllocateTarget
<1>7. CASE ParseArguments(t)
  <2>1. CASE Passes(t, "allow_threads")
    <3>1. L("allow_threads", native[t], held[t])
      <4>1. NativeInv("allow_threads", req[t], base[t], other[t], header[t], native[t])
        BY DEF NativeInv
      <4>2. HeldInv("allow_threads", req[t], native[t], held[t])
        BY <1>5, <1>7 DEF HeldInv, ParseArguments, At
      <4> QED
        BY <1>3, <1>4, <4>1, <4>2
    <3> QED
      BY <2>1, <3>1, PassesLocals DEF ThreadInv, Inv
  <2>2. ASSUME NEW s \in {"TOOBIG", "LDM"}, Goto(t, "leave"), req[t].op \in Encoders,
               native' = [native EXCEPT ![t] = Status(s)],
               UNCHANGED <<base, other, header, held, outcome>>
        PROVE  ThreadInv(t)'
    <3>1. L("leave", Status(s), held[t])
      <4>1. NativeInv("leave", req[t], base[t], other[t], header[t], Status(s))
        BY <2>2 DEF NativeInv, ExtensionStatuses, When, Statuses
      <4>2. HeldInv("leave", req[t], Status(s), held[t])
        BY <1>5, <1>7 DEF HeldInv, ParseArguments, At
      <4> QED
        BY <1>3, <1>4, <4>1, <4>2
    <3> QED
      BY <2>2, <3>1 DEF Goto, ThreadInv, Inv, ShapeInv
  <2> QED
    BY <1>7, <2>1, <2>2 DEF ParseArguments
<1>8. CASE AllowThreads(t)
  <2>1. L("codec", native[t], held[t])
    <3>1. NativeInv("codec", req[t], base[t], other[t], header[t], native[t])
      BY DEF NativeInv
    <3>2. HeldInv("codec", req[t], native[t], held[t])
      BY <1>5, <1>8 DEF HeldInv, AllowThreads, At
    <3> QED
      BY <1>3, <1>4, <3>1, <3>2
  <2> QED
    BY <1>8, <2>1 DEF AllowThreads, locals, ThreadInv, Inv, ShapeInv
<1> QED
  BY <1>6, <1>7, <1>8

LEMMA LeaveStep ==
    ASSUME Inv, NEW t \in Threads, Codec(t) \/ FinishApply(t) \/ Finish(t)
    PROVE  ThreadInv(t)'
<1> DEFINE L(p, n, k) == LocalInv(p, req[t], base[t], other[t], header[t], n, k, outcome[t])
           R == Results(req[t], base[t].value, other[t].value, header[t])
<1>1. L(pc[t], native[t], held[t])
  BY DEF Inv, ThreadInv
<1>2. pc[t] = "codec" \/ pc[t] = "finish"
  BY DEF Codec, FinishApply, Finish, At
<1>3. ASSUME NEW p, NEW n, NEW k, p \in {"leave", "finish"},
             NativeInv(p, req[t], base[t], other[t], header[t], n), HeldInv(p, req[t], n, k)
      PROVE  L(p, n, k)
  BY <1>1, <1>2, <1>3 DEF LocalInv, WhereInv, ArgumentsInv, ChecksInv, OutcomeInv, InExtension, InApply, Taken
<1>4. CASE Codec(t)
  <2>1. PICK r \in CodecResults(t) :
            /\ native' = [native EXCEPT ![t] = r]
            /\ held' = [held EXCEPT ![t] = IF req[t].op \in Appliers \/ r.status # "OK" THEN @ ELSE @ + 1]
    BY <1>4 DEF Codec
  <2>2. r \in R
    BY <1>2, <2>1, ArgumentsCopied, ResultsOfCodec DEF Taken, InExtension
  <2>3. held[t] = IF req[t].op \in Appliers THEN 1 ELSE 0
    BY <1>1, <1>4 DEF LocalInv, HeldInv, Codec
  <2>4. DEFINE k == IF req[t].op \in Appliers \/ r.status # "OK" THEN held[t] ELSE held[t] + 1
  <2>5. HeldInv("finish", req[t], r, k)
    BY <2>3 DEF HeldInv
  <2>6. L("finish", r, k)
    BY <1>3, <2>2, <2>5 DEF NativeInv
  <2> HIDE DEF k
  <2>7. /\ pc'[t] = "finish" /\ req'[t] = req[t] /\ base'[t] = base[t] /\ other'[t] = other[t]
        /\ header'[t] = header[t] /\ native'[t] = r /\ held'[t] = k /\ outcome'[t] = outcome[t]
    BY <1>4, <2>1 DEF Codec, Inv, ShapeInv, k
  <2> QED
    BY <2>6, <2>7 DEF ThreadInv
<1>5. CASE FinishApply(t)
  <2>1. native[t] \in R /\ held[t] = 1
    BY <1>1, <1>5 DEF LocalInv, NativeInv, HeldInv, FinishApply, At
  <2>2. L("leave", native[t], held[t] - 1)
    <3>1. NativeInv("leave", req[t], base[t], other[t], header[t], native[t])
      BY <2>1 DEF NativeInv
    <3>2. HeldInv("leave", req[t], native[t], held[t] - 1)
      BY <2>1 DEF HeldInv
    <3> QED
      BY <1>3, <3>1, <3>2
  <2> QED
    BY <1>5, <2>2 DEF FinishApply, Goto, ThreadInv, Inv, ShapeInv
<1>6. CASE Finish(t)
  <2> DEFINE k == IF native[t].status = "OK" THEN held[t] - 1 ELSE held[t]
  <2>1. native[t] \in R /\ held[t] = IF native[t].status = "OK" THEN 1 ELSE 0
    BY <1>1, <1>6 DEF LocalInv, NativeInv, HeldInv, Finish, At
  <2>2. /\ native'[t] \in {native[t], Status("NOMEM")}
        /\ pc'[t] = "leave" /\ req'[t] = req[t] /\ base'[t] = base[t] /\ other'[t] = other[t]
        /\ header'[t] = header[t] /\ held'[t] = k /\ outcome'[t] = outcome[t]
    BY <1>6 DEF Finish, Goto, Inv, ShapeInv
  <2>3. NativeInv("leave", req[t], base[t], other[t], header[t], native'[t])
    BY <2>1, <2>2 DEF NativeInv, ExtensionStatuses
  <2>4. HeldInv("leave", req[t], native'[t], k)
    BY <2>1 DEF HeldInv
  <2>5. L("leave", native'[t], k)
    BY <1>3, <2>3, <2>4
  <2> HIDE DEF k
  <2> QED
    BY <2>2, <2>5 DEF ThreadInv
<1> QED
  BY <1>4, <1>5, <1>6

LEMMA ExceptionsAnswer ==
    ASSUME NEW t \in Threads, LeaveRaising(t)
    PROVE  \E x : Ends(t, x) /\ x # NoAnswer
  BY Answered DEF LeaveRaising, Raises

LEMMA ReturnStep ==
    ASSUME Inv, NEW t \in Threads, LeaveRaising(t) \/ Leave(t) \/ Return(t) \/ Call(t)
    PROVE  ThreadInv(t)'
<1> DEFINE L(p) == LocalInv(p, req[t], base[t], other[t], header[t], native[t], held[t], outcome[t])
<1>1. L(pc[t])
  BY DEF Inv, ThreadInv
<1>2. ASSUME NEW x, Ends(t, x), x # NoAnswer, pc[t] = "leave" PROVE ThreadInv(t)'
  BY <1>2, EndsKeepsThreadInv
<1>3. CASE LeaveRaising(t)
  BY <1>2, <1>3, ExceptionsAnswer DEF LeaveRaising, At
<1>4. CASE Leave(t)
  <2>1. pc[t] = "leave" /\ native[t].status = "OK"
    BY <1>4 DEF Leave, At
  <2>2. native[t] \in Results(req[t], base[t].value, other[t].value, header[t])
    <3>1. native[t] \notin ExtensionStatuses(req[t])
      BY <2>1, StatusDiffers DEF ExtensionStatuses, When, Statuses
    <3> QED
      BY <1>1, <2>1, <3>1 DEF LocalInv, NativeInv
  <2>3. CASE req[t].op = "apply" /\ Passes(t, "target_hash")
    <3>1. L("target_hash")
      BY <1>1, <2>1, <2>2, <2>3 DEF LocalInv, WhereInv, ArgumentsInv, ChecksInv, NativeInv,
         HeldInv, OutcomeInv, InExtension, InApply, Taken
    <3> QED
      BY <2>3, <3>1, PassesLocals DEF ThreadInv, Inv
  <2>4. CASE req[t].op \in Envelopers /\ Passes(t, "envelope")
    <3>1. L("envelope")
      BY <1>1, <2>1, <2>2, <2>4 DEF LocalInv, WhereInv, ArgumentsInv, ChecksInv, NativeInv,
         HeldInv, OutcomeInv, InExtension, InApply, Taken
    <3> QED
      BY <2>4, <3>1, PassesLocals DEF ThreadInv, Inv
  <2> QED
    BY <1>2, <1>4, <2>1, <2>3, <2>4, Answered DEF Leave, Returns
<1>5. CASE Return(t)
  <2>1. LocalInv("idle", None, None, None, None, None, held[t], NoAnswer)
    BY <1>1, <1>5 DEF Return, At, LocalInv, WhereInv, ArgumentsInv, ChecksInv, NativeInv,
       HeldInv, OutcomeInv, InExtension, InApply, Taken
  <2> QED
    BY <1>5, <2>1 DEF Return, ThreadInv, Inv, ShapeInv
<1>6. CASE Call(t)
  <2>1. PICK r \in Requests[t] :
            /\ req' = [req EXCEPT ![t] = r.req]
            /\ base' = [base EXCEPT ![t] = r.base]
            /\ other' = [other EXCEPT ![t] = r.other]
            /\ pc' = [pc EXCEPT ![t] = First(r.req.op)]
    BY <1>6 DEF Call
  <2> DEFINE c == [req |-> r.req, base |-> r.base, other |-> r.other]
             F == First(r.req.op)
  <2>2. IsCall(c)
    <3>1. IsCall(r) /\ c.req = r.req /\ c.base = r.base /\ c.other = r.other
      BY RequestsAssumption
    <3> HIDE DEF c
    <3> QED
      BY <3>1 DEF IsCall
  <2>3. pc[t] = "idle"
    BY <1>6 DEF Call
  <2>4. r.req.op \in Operations /\ (r.req.op \in {"inspect", "compress", "decompress"} =>
            r.base = Bytes(r.base.value) /\ r.base.value \in Contents)
    <3>1. r.req.op \in Operations /\ (r.req.op \in {"inspect", "compress", "decompress"} => r.base = Bytes(empty))
      BY RequestsAssumption DEF IsCall
    <3>2. Bytes(empty) = Bytes(Bytes(empty).value) /\ Bytes(empty).value = empty
      BY DEF Bytes
    <3> QED
      BY <3>1, <3>2, ContentsAssumption
  <2>5. /\ r.req.op = "encode_base" => F = "profile"
        /\ r.req.op = "inspect" => F = "unpack"
        /\ r.req.op \in {"compress", "decompress"} => F = "copy_other"
        /\ r.req.op \in WithBase \ {"encode_base"} => F = "copy_base"
    BY DEF First, WithBase
  <2> HIDE DEF c, F
  <2>6. LocalInv(F, r.req, r.base, r.other, header[t], native[t], held[t], outcome[t])
    <3>1. WhereInv(F, r.req)
      BY <2>4, <2>5 DEF WhereInv, Operations, Encoders, Envelopers, Appliers, WithBase, InExtension, InApply
    <3>2. ArgumentsInv(F, r.req, r.base, r.other)
      BY <2>2, <2>4, <2>5 DEF ArgumentsInv, Operations, Encoders, Envelopers, Appliers, WithBase,
         InExtension, InApply, Taken, c
    <3>3. F \in {"profile", "unpack", "copy_other", "copy_base"}
      BY <2>4, <2>5 DEF Operations, Encoders, Envelopers, Appliers, WithBase
    <3>4. /\ ChecksInv(F, r.req, r.base, r.other, header[t])
          /\ NativeInv(F, r.req, r.base, r.other, header[t], native[t])
      BY <3>3 DEF ChecksInv, NativeInv, InExtension, InApply
    <3>5. HeldInv(F, r.req, native[t], held[t]) /\ OutcomeInv(F, outcome[t])
      BY <1>1, <2>3, <3>3 DEF LocalInv, HeldInv, OutcomeInv
    <3> QED
      BY <3>1, <3>2, <3>4, <3>5 DEF LocalInv
  <2>7. /\ pc'[t] = F /\ req'[t] = r.req /\ base'[t] = r.base /\ other'[t] = r.other
        /\ header'[t] = header[t] /\ native'[t] = native[t] /\ held'[t] = held[t]
        /\ outcome'[t] = outcome[t]
    BY <1>6, <2>1 DEF Call, Inv, ShapeInv, F
  <2> QED
    BY <2>6, <2>7 DEF ThreadInv
<1> QED
  BY <1>3, <1>4, <1>5, <1>6

-------------------------------------------------------------------------------
(***************************************************************************)
(* The invariant.                                                          *)
(***************************************************************************)
LEMMA PythonKeepsInv ==
    ASSUME Inv, NEW t \in Threads, Python(t) \/ Codec(t) \/ Call(t)
    PROVE  Inv'
<1>1. ThreadInv(t)'
  BY CopyStep, BlobChecksStep, LimitsStep, EnterStep, LeaveStep, ReturnStep DEF Python
<1>2. StepOf(t) /\ mem' = mem
  BY PythonFrame DEF Inv
<1>3. \A b \in DOMAIN Written : mem'[b] \in Written[b]
  BY <1>2 DEF Inv
<1> QED
  BY <1>1, <1>2, <1>3, FrameKeepsInv

LEMMA SharedKeepsInv ==
    ASSUME Inv, NEW t \in Threads, Acquire(t) \/ Drop(t) \/ Write(t)
    PROVE  Inv'
<1>1. UNCHANGED <<pc, req, locals>>
  BY DEF Acquire, Drop, Write
<1>2. mem' = [b \in DOMAIN Written |-> mem'[b]] /\ \A b \in DOMAIN Written : mem'[b] \in Written[b]
  BY DEF Acquire, Drop, Write, Inv, ShapeInv
<1>3. ShapeInv'
  BY <1>1, <1>2 DEF Inv, ShapeInv, locals
<1>4. \A u \in Threads : ThreadInv(u)'
  BY <1>1 DEF Inv, ThreadInv, locals
<1> QED
  BY <1>2, <1>3, <1>4 DEF Inv

LEMMA InitInv == Init => Inv
<1> SUFFICES ASSUME Init PROVE Inv
  OBVIOUS
<1>1. ShapeInv
  BY DEF Init, ShapeInv
<1>2. ASSUME NEW t \in Threads PROVE ThreadInv(t)
  <2>1. /\ pc[t] = "idle" /\ held[t] = 0 /\ outcome[t] = NoAnswer
    BY DEF Init
  <2> QED
    BY <2>1 DEF ThreadInv, LocalInv, WhereInv, ArgumentsInv, ChecksInv, NativeInv, HeldInv, OutcomeInv,
       InExtension, InApply, Taken
<1> QED
  BY <1>1, <1>2 DEF Init, Inv

LEMMA NextInv == Inv /\ [Next]_vars => Inv'
<1> SUFFICES ASSUME Inv, [Next]_vars PROVE Inv'
  OBVIOUS
<1>1. CASE Next
  BY <1>1, PythonKeepsInv, SharedKeepsInv DEF Next
<1>2. CASE UNCHANGED vars
  BY <1>2 DEF vars, Inv, ShapeInv, ThreadInv
<1> QED
  BY <1>1, <1>2

\* Every thread is where its request may bring it, with the arguments it was called with or
\* copies of them, having passed the checks of the code it is in.
THEOREM Invariance == Spec => []Inv
<1> QED
  BY InitInv, NextInv, PTL DEF Spec

-------------------------------------------------------------------------------
(***************************************************************************)
(* What the codecs read, decode and leave behind.                          *)
(***************************************************************************)

\* apply decodes an envelope only against the base whose digest it records: from the check
\* of the digest to the end of the decoding the thread holds the same immutable copy.
THEOREM RightBase == Spec => []DecodesAgainstItsBase
<1>1. Inv => DecodesAgainstItsBase
  <2> SUFFICES ASSUME Inv, NEW t \in Threads, req[t].op = "apply",
                      pc[t] \in {"enter", "allow_threads", "codec", "finish"}
               PROVE  Base(t) = header[t].base_sha256
    BY DEF DecodesAgainstItsBase
  <2>1. base[t] = Bytes(base[t].value)
    BY ArgumentsCopied DEF Taken, InExtension
  <2>2. base[t].value = header[t].base_sha256
    BY DEF Inv, ThreadInv, LocalInv, ChecksInv, InExtension
  <2> QED
    BY <2>1, <2>2, ReadBytes DEF Base
<1> QED
  BY <1>1, Invariance, PTL

\* A call that ended, in whatever way, has left nothing allocated in the extension: apply
\* gives up the target, the others the block of the codec, whichever of their failures came.
THEOREM NothingLeaked == Spec => []NoLeak
<1>1. Inv => NoLeak
  <2> SUFFICES ASSUME Inv, NEW t \in Threads, pc[t] \in {"leave", "done", "idle"} PROVE held[t] = 0
    BY DEF NoLeak
  <2> QED
    BY DEF Inv, ThreadInv, LocalInv, HeldInv
<1> QED
  BY <1>1, Invariance, PTL

\* While a codec runs without the GIL, what it reads stays as it is: it has copies of the
\* buffers, and only its own return ends its use of them.
THEOREM StableReads == Spec => CodecReadsStable
<1>1. Inv /\ [Next]_vars => [\A t \in Threads : pc[t] = "codec" => Base(t)' = Base(t) /\ Other(t)' = Other(t)]_vars
  <2> SUFFICES ASSUME Inv, Next, NEW t \in Threads, pc[t] = "codec"
               PROVE  Base(t)' = Base(t) /\ Other(t)' = Other(t)
    OBVIOUS
  <2>1. base[t] = Bytes(base[t].value) /\ other[t] = Bytes(other[t].value)
    BY ArgumentsCopied DEF Taken, InExtension
  <2>2. base'[t] = base[t] /\ other'[t] = other[t]
    <3>1. PICK u \in Threads : Acquire(u) \/ Drop(u) \/ Write(u) \/ Call(u) \/ Python(u) \/ Codec(u)
      BY DEF Next
    <3>2. CASE Acquire(u) \/ Drop(u) \/ Write(u)
      BY <3>2 DEF Acquire, Drop, Write, locals
    <3>3. CASE u # t /\ (Call(u) \/ Python(u) \/ Codec(u))
      BY <3>3, PythonFrame DEF StepOf, Inv
    <3>4. CASE Codec(t)
      BY <3>4 DEF Codec
    <3>5. ~Python(t) /\ ~Call(t)
      BY DEF Python, Call, At, CheckProfile, CopyBase, CopyOther, Unpack, CheckFields, CheckLengths, CheckBase,
         CheckTarget, CheckLimits, _envelope, AllocateTarget, ParseArguments, AllowThreads, FinishApply, Finish,
         LeaveRaising, Leave, Return
    <3> QED
      BY <3>1, <3>2, <3>3, <3>4, <3>5
  <2>3. Base(t) = base[t].value /\ Other(t) = other[t].value
    BY <2>1, ReadBytes DEF Base, Other
  <2>4. Base(t)' = base[t].value /\ Other(t)' = other[t].value
    BY <2>1, <2>2 DEF Base, Other, Read, Bytes
  <2> QED
    BY <2>3, <2>4
<1> QED
  BY <1>1, Invariance, PTL DEF Spec, CodecReadsStable

-------------------------------------------------------------------------------
(***************************************************************************)
(* PythonApi implements ApiPromise.  First the outcomes of the operations  *)
(* are those promised for the values of the arguments.                     *)
(***************************************************************************)
Answer(r, n) == Raised(Exception(n.status, r.op \notin Encoders))

\* The same words on both sides.
LEMMA SameWords ==
    /\ \A v : Promise!Returned(v) = Returned(v)
    /\ \A e : Promise!Raised(e) = Raised(e)
    /\ \A x, y : Promise!Blob(x, y) = Blob(x, y)
    /\ \A v : Promise!Bytes(v) = Bytes(v)
    /\ \A c, b, v, p : Promise!Envelope(c, b, v, p) = Envelope(c, b, v, p)
    /\ \A c, b, v, z : Promise!Payload(c, b, v, z) = Payload(c, b, v, z)
    /\ \A h : Promise!WellFormed(h) = WellFormed(h)
    /\ \A x : Promise!Genuine(x) = Genuine(x)
    /\ \A x, y : Promise!min(x, y) = min(x, y)
    /\ \A q, S : Promise!When(q, S) = When(q, S)
    /\ Promise!Text = Text /\ Promise!NoCall = NoCall /\ Promise!NoAnswer = NoAnswer
    /\ Promise!Short = Short /\ Promise!Envelopers = Envelopers /\ Promise!ZSTD = ZSTD
  BY DEF Promise!Returned, Returned, Promise!Raised, Raised, Promise!Blob, Blob, Promise!Bytes, Bytes,
     Promise!Envelope, Envelope, Promise!Payload, Payload, Promise!WellFormed, WellFormed, Promise!Genuine,
     Genuine, Promise!min, min, Promise!When, When, Promise!Text, Text, Promise!NoCall, NoCall,
     Promise!NoAnswer, NoAnswer, Promise!Short, Short, Promise!Envelopers, Envelopers, Promise!ZSTD, ZSTD,
     Promise!Header, Header, Promise!MAGIC, MAGIC, Promise!FORMAT_VERSION, FORMAT_VERSION, Promise!Codecs,
     Codecs, Promise!HDIFF, HDIFF, Promise!PayloadLength, PayloadLength

LEMMA SetsOfErrors ==
    /\ \A S, e : e \in S => Raised(e) \in Promise!Errors(S)
    /\ Raised("AllocationError") \in Promise!Faults
    /\ Raised("MemoryError") \in Promise!Faults
    /\ Raised("NativeError") \in Promise!Faults
    /\ Raised("OptionError") \in Promise!Refusals
    /\ Raised("OverflowError") \in Promise!Refusals
    /\ Raised("LimitError") \in Promise!Refusals
    /\ Raised("DecodeError") \in Promise!Refusals
  BY SameWords DEF Promise!Errors, Promise!Faults, Promise!Refusals

\* The exception for each status.
LEMMA Answers ==
    ASSUME NEW r, NEW n
    PROVE  /\ n = Status("ALLOC") => Answer(r, n) = Raised("AllocationError")
           /\ n = Status("NOMEM") => Answer(r, n) = Raised("MemoryError")
           /\ n = Status("EXCEPTION") => Answer(r, n) = Raised("NativeError")
           /\ n = Status("TOOBIG") => Answer(r, n) = Raised("OverflowError")
           /\ n \in Statuses({"OPTION", "LDM"}) => Answer(r, n) = Raised("OptionError")
           /\ n \in Statuses({"LIMIT", "WINDOW"}) => Answer(r, n) = Raised("LimitError")
           /\ n = Status("INVALID") => Answer(r, n) = Raised("DecodeError")
           /\ n = Status("ZSTD") /\ r.op \in Encoders => Answer(r, n) = Raised("NativeError")
           /\ n = Status("ZSTD") /\ r.op \notin Encoders => Answer(r, n) = Raised("DecodeError")
<1>1. ASSUME NEW s, n = Status(s) PROVE Answer(r, n) = Raised(Exception(s, r.op \notin Encoders))
  BY <1>1, StatusDiffers DEF Answer
<1>2. \A d \in BOOLEAN :
          /\ Exception("ALLOC", d) = "AllocationError" /\ Exception("NOMEM", d) = "MemoryError"
          /\ Exception("EXCEPTION", d) = "NativeError" /\ Exception("TOOBIG", d) = "OverflowError"
          /\ Exception("OPTION", d) = "OptionError" /\ Exception("LDM", d) = "OptionError"
          /\ Exception("LIMIT", d) = "LimitError" /\ Exception("WINDOW", d) = "LimitError"
          /\ Exception("INVALID", d) = "DecodeError"
          /\ Exception("ZSTD", d) = IF d THEN "DecodeError" ELSE "NativeError"
  BY DEF Exception
<1>3. (r.op \notin Encoders) \in BOOLEAN
  OBVIOUS
<1> QED
  BY <1>1, <1>2, <1>3 DEF Statuses

\* A fault of the codec, or no memory for its result, may happen to every operation.
LEMMA FaultAnswers ==
    ASSUME NEW r, NEW n, n \in NativeFaults \cup {Status("NOMEM")}
    PROVE  Answer(r, n) \in Promise!Faults
<1>1. n = Status("ALLOC") \/ n = Status("EXCEPTION") \/ n = Status("NOMEM")
  BY DEF NativeFaults, Statuses
<1> QED
  BY <1>1, Answers, SetsOfErrors

LEMMA MalformedAnswers ==
    ASSUME NEW r, r.op \notin Encoders, NEW n, n \in Malformed
    PROVE  Answer(r, n) \in {Raised("DecodeError"), Raised("LimitError")}
<1>1. n = Status("INVALID") \/ n \in Statuses({"LIMIT", "WINDOW"}) \/ n = Status("ZSTD")
  BY DEF Malformed, Statuses
<1> QED
  BY <1>1, Answers

LEMMA RefusalAnswers ==
    ASSUME NEW r, r.op \in Encoders,
           NEW n, n \in Statuses({"OPTION", "LIMIT", "INVALID", "ZSTD"}) \cup Statuses({"TOOBIG", "LDM"})
    PROVE  Answer(r, n) \in Promise!Refusals \cup Promise!Faults
<1>1. \/ n \in Statuses({"OPTION", "LDM"}) \/ n \in Statuses({"LIMIT", "WINDOW"})
      \/ n = Status("INVALID") \/ n = Status("ZSTD") \/ n = Status("TOOBIG")
  BY DEF Statuses
<1> QED
  BY <1>1, Answers, SetsOfErrors

\* What an encoder leaves when the checks before it have passed.
EncodeLeaves(r, codec, b, v, sizes, limit) == Encodes(codec, b, v, sizes, limit) \cup ExtensionStatuses(r)

LEMMA EncodedOutcome ==
    ASSUME NEW r, r.op \in Encoders, NEW codec, NEW b, NEW v \in Contents, NEW sizes, NEW limit \in Nat,
           NEW n, n \in EncodeLeaves(r, codec, b, v, sizes, limit)
    PROVE  \/ n.status # "OK" /\ Answer(r, n) \in Promise!Faults \cup Promise!Refusals
           \/ /\ n.status = "OK" /\ Length[v] <= limit
              /\ n.value \in {Payload(codec, b, v, sized) : sized \in sizes}
<1>1. CASE n \in NativeFaults \cup {Status("NOMEM")}
  BY <1>1, FaultAnswers, StatusDiffers DEF NativeFaults, Statuses
<1>2. CASE n \in Statuses({"OPTION", "LIMIT", "INVALID", "ZSTD"}) \cup Statuses({"TOOBIG", "LDM"})
  BY <1>2, RefusalAnswers, StatusDiffers DEF Statuses
<1>3. CASE Length[v] <= limit /\ n \in {Gives(Payload(codec, b, v, sized)) : sized \in sizes}
  BY <1>3 DEF Gives
<1> QED
  BY <1>1, <1>2, <1>3 DEF EncodeLeaves, Encodes, ExtensionStatuses, When

\* What a decoder of payloads leaves.
LEMMA DecodedOutcome ==
    ASSUME NEW r, r.op \in Appliers, NEW codec, NEW p, NEW b, NEW m \in Int,
           NEW n, n \in Decodes(codec, p, b, m) \cup ExtensionStatuses(r)
    PROVE  \/ n.status # "OK" /\ Answer(r, n) \in Promise!Faults
           \/ /\ p = Payload(codec, b, p.target, p.sized) /\ m = Length[p.target]
              /\ n.status = "OK" /\ n.value = p.target
           \/ /\ ~(p = Payload(codec, b, p.target, p.sized) /\ m = Length[p.target])
              /\ \/ n.status # "OK" /\ Answer(r, n) \in {Raised("DecodeError"), Raised("LimitError")}
                 \/ n.status = "OK" /\ n.value \in Contents /\ Length[n.value] = m
<1>0. r.op \notin Encoders
  BY DEF Appliers, Encoders, Envelopers
<1>1. CASE n \in NativeFaults \cup {Status("NOMEM")}
  BY <1>1, FaultAnswers, StatusDiffers DEF NativeFaults, Statuses
<1> DEFINE own == p = Payload(codec, b, p.target, p.sized) /\ m = Length[p.target]
<1>2. CASE own /\ n = Gives(p.target)
  BY <1>2 DEF Gives
<1>3. CASE ~own /\ n \in Malformed
  BY <1>0, <1>3, MalformedAnswers, StatusDiffers DEF Malformed, Statuses
<1>4. CASE ~own /\ n \in {Gives(v) : v \in OfLength({m})}
  BY <1>4 DEF Gives, OfLength
<1>5. n \in Decodes(codec, p, b, m) \/ n = Status("NOMEM")
  BY <1>0 DEF ExtensionStatuses, When
<1>6. Decodes(codec, p, b, m) = NativeFaults \cup
          IF own THEN {Gives(p.target)} ELSE Malformed \cup {Gives(v) : v \in OfLength({m})}
  BY DEF Decodes
<1> QED
  BY <1>1, <1>2, <1>3, <1>4, <1>5, <1>6

\* What the decoder of frames leaves.
LEMMA DecompressedOutcome ==
    ASSUME NEW r, r.op = "decompress", NEW p, NEW m \in Nat,
           NEW n, n \in Decompresses(p, m) \cup ExtensionStatuses(r)
    PROVE  LET own == p = Payload(ZSTD, empty, p.target, p.sized)
           IN  \/ n.status # "OK" /\ Answer(r, n) \in Promise!Faults
               \/ own /\ ~p.sized /\ n.status # "OK" /\ Answer(r, n) = Raised("LimitError")
               \/ own /\ Length[p.target] <= m /\ n.status = "OK" /\ n.value = p.target
               \/ own /\ ~(Length[p.target] <= m) /\ n.status # "OK" /\ Answer(r, n) = Raised("LimitError")
               \/ ~own /\ n.status # "OK" /\ Answer(r, n) \in {Raised("DecodeError"), Raised("LimitError")}
               \/ ~own /\ n.status = "OK" /\ n.value \in Contents /\ Length[n.value] <= m
<1>0. r.op \notin Encoders
  BY DEF Encoders, Envelopers
<1>1. CASE n \in NativeFaults \cup {Status("NOMEM")}
  BY <1>1, FaultAnswers, StatusDiffers DEF NativeFaults, Statuses
<1> DEFINE own == p = Payload(ZSTD, empty, p.target, p.sized)
<1>2. CASE own /\ Length[p.target] <= m /\ n = Gives(p.target)
  BY <1>2 DEF Gives
<1>3. CASE own /\ ~p.sized /\ n \in Statuses({"WINDOW"})
  BY <1>3, Answers, StatusDiffers DEF Statuses
<1>4. CASE own /\ ~(Length[p.target] <= m) /\ n \in Statuses({"LIMIT", "WINDOW"})
  BY <1>4, Answers, StatusDiffers DEF Statuses
<1>5. CASE ~own /\ n \in Malformed
  BY <1>0, <1>5, MalformedAnswers, StatusDiffers DEF Malformed, Statuses
<1>6. CASE ~own /\ n \in {Gives(v) : v \in OfLength(0..m)}
  BY <1>6 DEF Gives, OfLength
<1>7. n \in Decompresses(p, m) \/ n = Status("NOMEM")
  BY <1>0 DEF ExtensionStatuses, When
<1>8. Decompresses(p, m) = NativeFaults \cup
          IF ~own THEN Malformed \cup {Gives(v) : v \in OfLength(0..m)}
          ELSE When(~p.sized, Statuses({"WINDOW"})) \cup
               IF Length[p.target] <= m THEN {Gives(p.target)} ELSE Statuses({"LIMIT", "WINDOW"})
  BY DEF Decompresses
<1> QED
  BY <1>1, <1>2, <1>3, <1>4, <1>5, <1>6, <1>7, <1>8 DEF When

\* What the promise says of each operation.
LEMMA OutcomesOf ==
    ASSUME NEW r, NEW v, NEW w
    PROVE  /\ r.op \in Envelopers => Promise!Outcomes(r, v, w) = Promise!EncodeOutcomes(r.codec, v, w)
           /\ r.op = "apply" => Promise!Outcomes(r, v, w) = Promise!ApplyOutcomes(v, w, r.bound)
           /\ r.op = "inspect" => Promise!Outcomes(r, v, w) = Promise!InspectOutcomes(w)
           /\ r.op = "raw_encode" => Promise!Outcomes(r, v, w) = Promise!RawEncodeOutcomes(r.codec, v, w)
           /\ r.op = "raw_apply" => Promise!Outcomes(r, v, w) = Promise!RawApplyOutcomes(r.codec, v, w, r.bound)
           /\ r.op = "compress" => Promise!Outcomes(r, v, w) = Promise!CompressOutcomes(w)
           /\ r.op = "decompress" => Promise!Outcomes(r, v, w) = Promise!DecompressOutcomes(w, r.bound)
  BY DEF Promise!Outcomes, Promise!Envelopers, Envelopers

\* encode_delta and encode_base, after their limits.
LEMMA EncodePromise ==
    ASSUME NEW r, r.op \in Envelopers, NEW v, NEW w \in Contents, Fits(r, Bytes(v), Bytes(w)),
           NEW n, n \in Encodes(r.codec, v, w, BOOLEAN, RAW_MAX) \cup ExtensionStatuses(r)
    PROVE  /\ n.status # "OK" => Answer(r, n) \in Promise!Outcomes(r, v, w)
           /\ n.status = "OK" => Returned(Envelope(r.codec, v, w, n.value)) \in Promise!Outcomes(r, v, w)
<1>1. Length[v] <= RAW_MAX /\ Length[w] <= RAW_MAX /\ r.codec # None
  BY DEF Fits, Bytes
<1>2. Promise!Faults \cup Promise!Refusals \subseteq Promise!EncodeOutcomes(r.codec, v, w)
  BY <1>1 DEF Promise!EncodeOutcomes, Promise!When
<1>3. ASSUME NEW sized \in BOOLEAN
      PROVE  Returned(Envelope(r.codec, v, w, Payload(r.codec, v, w, sized))) \in Promise!EncodeOutcomes(r.codec, v, w)
  <2>1. Promise!Payload(r.codec, v, w, sized) \in Promise!Made(r.codec, v, w)
    BY <1>3 DEF Promise!Made
  <2>2. Promise!Returned(Promise!Envelope(r.codec, v, w, Promise!Payload(r.codec, v, w, sized)))
            \in Promise!EncodeOutcomes(r.codec, v, w)
    BY <1>1, <2>1 DEF Promise!EncodeOutcomes, Promise!When
  <2> QED
    BY <2>2, SameWords
<1>4. r.op \in Encoders /\ Promise!Outcomes(r, v, w) = Promise!EncodeOutcomes(r.codec, v, w)
  BY OutcomesOf DEF Encoders
<1>5. \/ n.status # "OK" /\ Answer(r, n) \in Promise!Faults \cup Promise!Refusals
      \/ /\ n.status = "OK" /\ Length[w] <= RAW_MAX
         /\ n.value \in {Payload(r.codec, v, w, sized) : sized \in BOOLEAN}
  <2>1. n \in EncodeLeaves(r, r.codec, v, w, BOOLEAN, RAW_MAX)
    BY DEF EncodeLeaves
  <2> QED
    BY <1>4, <2>1, EncodedOutcome, MaximaAssumption
<1> QED
  BY <1>2, <1>3, <1>4, <1>5

\* raw.encode, after its limits.
LEMMA RawEncodePromise ==
    ASSUME NEW r, r.op = "raw_encode", NEW v, NEW w \in Contents, Fits(r, Bytes(v), Bytes(w)),
           NEW n, n \in Encodes(r.codec, v, w, BOOLEAN, RAW_MAX) \cup ExtensionStatuses(r)
    PROVE  /\ n.status # "OK" => Answer(r, n) \in Promise!Outcomes(r, v, w)
           /\ n.status = "OK" => Returned(Blob(Short, n.value)) \in Promise!Outcomes(r, v, w)
<1>1. Length[v] <= RAW_MAX
  BY DEF Fits, Bytes
<1>2. Promise!Faults \cup Promise!Refusals \subseteq Promise!RawEncodeOutcomes(r.codec, v, w)
  BY <1>1 DEF Promise!RawEncodeOutcomes, Promise!When
<1>3. ASSUME NEW sized \in BOOLEAN, Length[w] <= RAW_MAX
      PROVE  Returned(Blob(Short, Payload(r.codec, v, w, sized))) \in Promise!RawEncodeOutcomes(r.codec, v, w)
  <2>1. Promise!Payload(r.codec, v, w, sized) \in Promise!Made(r.codec, v, w)
    BY <1>3 DEF Promise!Made
  <2>2. Promise!Returned(Promise!Blob(Promise!Short, Promise!Payload(r.codec, v, w, sized)))
            \in Promise!RawEncodeOutcomes(r.codec, v, w)
    BY <1>1, <1>3, <2>1 DEF Promise!RawEncodeOutcomes, Promise!When
  <2> QED
    BY <2>2, SameWords
<1>4. r.op \in Encoders /\ Promise!Outcomes(r, v, w) = Promise!RawEncodeOutcomes(r.codec, v, w)
  BY OutcomesOf DEF Encoders
<1>5. \/ n.status # "OK" /\ Answer(r, n) \in Promise!Faults \cup Promise!Refusals
      \/ /\ n.status = "OK" /\ Length[w] <= RAW_MAX
         /\ n.value \in {Payload(r.codec, v, w, sized) : sized \in BOOLEAN}
  <2>1. n \in EncodeLeaves(r, r.codec, v, w, BOOLEAN, RAW_MAX)
    BY DEF EncodeLeaves
  <2> QED
    BY <1>4, <2>1, EncodedOutcome, MaximaAssumption
<1> QED
  BY <1>2, <1>3, <1>4, <1>5

\* compress, after its limit.
LEMMA CompressPromise ==
    ASSUME NEW r, r.op = "compress", NEW v, NEW w \in Contents, Fits(r, Bytes(v), Bytes(w)),
           NEW n, n \in Encodes(ZSTD, empty, w, {TRUE}, FRAME_MAX) \cup ExtensionStatuses(r)
    PROVE  /\ n.status # "OK" => Answer(r, n) \in Promise!Outcomes(r, v, w)
           /\ n.status = "OK" => Returned(Blob(Short, n.value)) \in Promise!Outcomes(r, v, w)
<1>1. Length[w] <= FRAME_MAX
  BY DEF Fits, Bytes
<1>2. ~(Length[w] > FRAME_MAX)
  BY <1>1, ContentsAssumption, MaximaAssumption
<1>3. /\ Promise!Faults \cup Promise!Refusals \subseteq Promise!CompressOutcomes(w)
      /\ Promise!Returned(Promise!Blob(Promise!Short, Promise!Frame(w))) \in Promise!CompressOutcomes(w)
  BY <1>2 DEF Promise!CompressOutcomes
<1>4. Returned(Blob(Short, Payload(ZSTD, empty, w, TRUE))) \in Promise!CompressOutcomes(w)
  BY <1>3, SameWords DEF Promise!Frame
<1>5. r.op \in Encoders /\ Promise!Outcomes(r, v, w) = Promise!CompressOutcomes(w)
  BY OutcomesOf DEF Encoders
<1>6. \/ n.status # "OK" /\ Answer(r, n) \in Promise!Faults \cup Promise!Refusals
      \/ n.status = "OK" /\ n.value \in {Payload(ZSTD, empty, w, sized) : sized \in {TRUE}}
  <2>1. PICK codec, b, sizes, limit : codec = ZSTD /\ b = empty /\ sizes = {TRUE} /\ limit = FRAME_MAX
    OBVIOUS
  <2>2. n \in EncodeLeaves(r, codec, b, w, sizes, limit)
    BY <2>1 DEF EncodeLeaves
  <2>3. r.op \in Encoders /\ w \in Contents /\ limit \in Nat
    BY <1>5, <2>1, MaximaAssumption
  <2>4. \/ n.status # "OK" /\ Answer(r, n) \in Promise!Faults \cup Promise!Refusals
        \/ /\ n.status = "OK" /\ Length[w] <= limit
           /\ n.value \in {Payload(codec, b, w, sized) : sized \in sizes}
    BY <2>2, <2>3, EncodedOutcome
  <2> QED
    BY <2>1, <2>4
<1> QED
  BY <1>3, <1>4, <1>5, <1>6

\* apply, after its checks: the value the codec gave is compared with the recorded digest.
LEMMA ApplyPromise ==
    ASSUME NEW r, r.op = "apply", r.bound \in Int, NEW v \in Contents, NEW w, IsBlob(w),
           WellFormed(w.header), v = w.header.base_sha256, w.header.base_length = Length[v],
           w.header.target_length <= min(r.bound, RAW_MAX),
           NEW n, n \in Decodes(w.header.codec, Tail(w), v, w.header.target_length) \cup ExtensionStatuses(r)
    PROVE  /\ n.status # "OK" => Answer(r, n) \in Promise!Outcomes(r, v, w)
           /\ n.status = "OK" /\ n.value = w.header.target_sha256 =>
                  Returned(n.value) \in Promise!Outcomes(r, v, w)
           /\ n.status = "OK" /\ n.value # w.header.target_sha256 =>
                  Raised("IntegrityError") \in Promise!Outcomes(r, v, w)
<1> DEFINE h == w.header
           p == w.payload
           A == Promise!ApplyOutcomes(v, w, r.bound)
           own == p = Payload(h.codec, v, p.target, p.sized) /\ h.target_length = Length[p.target]
<1>1. /\ Promise!WellFormed(h)
      /\ h.target_length <= Promise!min(r.bound, RAW_MAX)
  BY SameWords
<1>2. Promise!Faults \cup {Promise!Returned(h.target_sha256)} \subseteq A
  BY <1>1 DEF Promise!ApplyOutcomes, Promise!When
<1>3. ~Promise!Genuine(w) => Promise!Errors({"DecodeError", "LimitError", "IntegrityError"}) \subseteq A
  BY <1>1 DEF Promise!ApplyOutcomes, Promise!When
<1>4. Returned(h.target_sha256) \in A
  BY <1>2, SameWords
<1>5. ~Genuine(w) => {Raised("DecodeError"), Raised("LimitError"), Raised("IntegrityError")} \subseteq A
  <2>1. {Raised("DecodeError"), Raised("LimitError"), Raised("IntegrityError")}
            \subseteq Promise!Errors({"DecodeError", "LimitError", "IntegrityError"})
    BY SetsOfErrors
  <2> QED
    BY <1>3, <2>1, SameWords
<1>6. Genuine(w) => own /\ p.target = h.target_sha256
  BY DEF Genuine, Payload
<1>7. \/ n.status # "OK" /\ Answer(r, n) \in Promise!Faults
      \/ own /\ n.status = "OK" /\ n.value = p.target
      \/ /\ ~own
         /\ n.status # "OK" => Answer(r, n) \in {Raised("DecodeError"), Raised("LimitError")}
  <2>1. r.op \in Appliers /\ n \in Decodes(h.codec, p, v, h.target_length) \cup ExtensionStatuses(r)
    BY DEF Appliers, Tail
  <2>2. h.target_length \in Int
    BY HeaderNumbers
  <2> DEFINE c == h.codec
             m == h.target_length
  <2> HIDE DEF p, c, m
  <2>3. r.op \in Appliers /\ n \in Decodes(c, p, v, m) \cup ExtensionStatuses(r) /\ m \in Int
    BY <2>1, <2>2 DEF c, m
  <2>4. \/ n.status # "OK" /\ Answer(r, n) \in Promise!Faults
        \/ /\ p = Payload(c, v, p.target, p.sized) /\ m = Length[p.target]
           /\ n.status = "OK" /\ n.value = p.target
        \/ /\ ~(p = Payload(c, v, p.target, p.sized) /\ m = Length[p.target])
           /\ \/ n.status # "OK" /\ Answer(r, n) \in {Raised("DecodeError"), Raised("LimitError")}
              \/ n.status = "OK" /\ n.value \in Contents /\ Length[n.value] = m
    BY <2>3, DecodedOutcome
  <2> QED
    BY <2>4 DEF c, m
<1>8. Promise!Outcomes(r, v, w) = A
  BY OutcomesOf
<1> HIDE DEF own, A, p
<1> QED
  BY <1>2, <1>4, <1>5, <1>6, <1>7, <1>8

\* What the payload of a blob can be.
LEMMA WholePayload ==
    ASSUME NEW w, IsBlob(w)
    PROVE  /\ \/ Whole(w) = Junk
              \/ /\ w.header = Short /\ Whole(w) = w.payload
                 /\ \E codec \in Codecs, b, v \in Contents, sized \in BOOLEAN :
                       w.payload = Payload(codec, b, v, sized)
           /\ w.header = Short => Whole(w) = w.payload
  BY DEF IsBlob, IsPayload, Whole

\* raw.apply, after its limits.
LEMMA RawApplyPromise ==
    ASSUME NEW r, r.op = "raw_apply", r.bound \in Int, NEW v \in Contents, NEW w, IsBlob(w),
           Fits(r, Bytes(v), Bytes(w)), NEW n, n \in Decodes(r.codec, Whole(w), v, r.bound) \cup ExtensionStatuses(r)
    PROVE  /\ n.status # "OK" => Answer(r, n) \in Promise!Outcomes(r, v, w)
           /\ n.status = "OK" => Returned(n.value) \in Promise!Outcomes(r, v, w)
<1> DEFINE p == w.payload
           q == Whole(w)
           own == w.header = Short /\ p.codec = r.codec /\ p.base = v /\ Length[p.target] = r.bound
<1>1. Length[v] <= RAW_MAX /\ r.bound \in 0..RAW_MAX
  BY DEF Fits, Bytes
<1>2. ~(Length[v] > RAW_MAX)
  BY <1>1, ContentsAssumption, MaximaAssumption
<1>3. Promise!Outcomes(r, v, w) = Promise!Faults \cup
          IF own THEN {Returned(p.target)}
          ELSE Promise!Errors({"DecodeError", "LimitError"}) \cup
               {Returned(x) : x \in {x \in Contents : Length[x] = r.bound}}
  BY <1>1, <1>2, OutcomesOf, SameWords DEF Promise!RawApplyOutcomes
<1>4. own <=> q = Payload(r.codec, v, q.target, q.sized) /\ r.bound = Length[q.target]
  <2>1. CASE q = Junk
    <3>1. q.base = None /\ v # None
      BY <2>1, ContentsAssumption DEF Junk, Payload
    <3>2. ~(q = Payload(r.codec, v, q.target, q.sized))
      BY <3>1 DEF Payload
    <3>3. ~own
      BY <3>1, WholePayload
    <3> QED
      BY <3>2, <3>3
  <2>2. CASE /\ w.header = Short /\ q = p
             /\ \E codec \in Codecs, b, x \in Contents, sized \in BOOLEAN : p = Payload(codec, b, x, sized)
    BY <2>2 DEF Payload
  <2> QED
    BY <2>1, <2>2, WholePayload
<1>5. own => q.target = p.target
  BY WholePayload
<1>6. Raised("DecodeError") \in Promise!Errors({"DecodeError", "LimitError"}) /\
      Raised("LimitError") \in Promise!Errors({"DecodeError", "LimitError"})
  BY SetsOfErrors
<1>7. \/ n.status # "OK" /\ Answer(r, n) \in Promise!Faults
      \/ own /\ n.status = "OK" /\ n.value = q.target
      \/ /\ ~own
         /\ \/ n.status # "OK" /\ Answer(r, n) \in {Raised("DecodeError"), Raised("LimitError")}
            \/ n.status = "OK" /\ n.value \in Contents /\ Length[n.value] = r.bound
  BY <1>4, DecodedOutcome DEF Appliers
<1> HIDE DEF own, q, p
<1> QED
  BY <1>3, <1>5, <1>6, <1>7

\* decompress, after its limit.
LEMMA DecompressPromise ==
    ASSUME NEW r, r.op = "decompress", r.bound \in Int, NEW v, NEW w, IsBlob(w),
           Fits(r, Bytes(v), Bytes(w)), NEW n, n \in Decompresses(Whole(w), r.bound) \cup ExtensionStatuses(r)
    PROVE  /\ n.status # "OK" => Answer(r, n) \in Promise!Outcomes(r, v, w)
           /\ n.status = "OK" => Returned(n.value) \in Promise!Outcomes(r, v, w)
<1> DEFINE p == w.payload
           q == Whole(w)
           own == w.header = Short /\ p \in {Payload(ZSTD, empty, x, TRUE) : x \in Contents}
           good == q = Payload(ZSTD, empty, q.target, q.sized)
<1>1. r.bound \in 0..FRAME_MAX /\ r.bound \in Nat
  BY MaximaAssumption DEF Fits
<1>2. Promise!Outcomes(r, v, w) = Promise!Faults \cup
          IF ~own THEN Promise!Errors({"DecodeError", "LimitError"}) \cup
                       {Returned(x) : x \in {x \in Contents : Length[x] <= r.bound}}
          ELSE IF Length[p.target] <= r.bound THEN {Returned(p.target)} ELSE Promise!Errors({"LimitError"})
  <2>1. {Promise!Frame(x) : x \in Contents} = {Payload(ZSTD, empty, x, TRUE) : x \in Contents}
    BY SameWords DEF Promise!Frame
  <2>2. {Promise!Returned(x) : x \in {x \in Contents : Length[x] <= r.bound}}
            = {Returned(x) : x \in {x \in Contents : Length[x] <= r.bound}}
    BY SameWords
  <2>3. Promise!Returned(p.target) = Returned(p.target) /\ Promise!Short = Short
    BY SameWords
  <2>4. Promise!Outcomes(r, v, w) = Promise!DecompressOutcomes(w, r.bound)
    BY OutcomesOf
  <2> QED
    BY <1>1, <2>1, <2>2, <2>3, <2>4 DEF Promise!DecompressOutcomes
<1>3. own => good /\ q.sized /\ q.target = p.target
  BY WholePayload DEF Payload
<1>4. good => q.target \in Contents /\ w.header = Short /\ q = p
  <2>1. CASE q = Junk
    <3>1. ~good
      BY <2>1, CodecsAssumption DEF Junk, Payload, Codecs
    <3> QED
      BY <3>1
  <2>2. CASE /\ w.header = Short /\ q = p
             /\ \E codec \in Codecs, b, x \in Contents, sized \in BOOLEAN : p = Payload(codec, b, x, sized)
    BY <2>2 DEF Payload
  <2> QED
    BY <2>1, <2>2, WholePayload
<1>5. /\ Raised("DecodeError") \in Promise!Errors({"DecodeError", "LimitError"})
      /\ Raised("LimitError") \in Promise!Errors({"DecodeError", "LimitError"})
      /\ Raised("LimitError") \in Promise!Errors({"LimitError"})
  BY SetsOfErrors
<1>6. \/ n.status # "OK" /\ Answer(r, n) \in Promise!Faults
      \/ good /\ ~q.sized /\ n.status # "OK" /\ Answer(r, n) = Raised("LimitError")
      \/ good /\ Length[q.target] <= r.bound /\ n.status = "OK" /\ n.value = q.target
      \/ good /\ ~(Length[q.target] <= r.bound) /\ n.status # "OK" /\ Answer(r, n) = Raised("LimitError")
      \/ ~good /\ n.status # "OK" /\ Answer(r, n) \in {Raised("DecodeError"), Raised("LimitError")}
      \/ ~good /\ n.status = "OK" /\ n.value \in Contents /\ Length[n.value] <= r.bound
  BY <1>1, DecompressedOutcome
<1> HIDE DEF own, q, p, good
<1> QED
  BY <1>2, <1>3, <1>4, <1>5, <1>6

-------------------------------------------------------------------------------
(***************************************************************************)
(* Every step is one of the promise, or none.                              *)
(***************************************************************************)
Rec(t) == [req |-> req[t], base |-> base[t], other |-> other[t], outcome |-> outcome[t]]

LEMMA CallOf ==
    ASSUME NEW t \in Threads
    PROVE  /\ pc[t] = "idle" => calls[t] = NoCall
           /\ pc[t] # "idle" => calls[t] = Rec(t)
           /\ Rec(t) # NoCall
  BY DEF calls, Rec, NoCall

LEMMA CallsExcept ==
    ASSUME NEW t \in Threads, StepOf(t)
    PROVE  /\ pc'[t] = "idle" => calls' = [calls EXCEPT ![t] = NoCall]
           /\ pc'[t] # "idle" => calls' = [calls EXCEPT ![t] = Rec(t)']
  BY DEF calls, Rec, StepOf

\* A step that changes nothing the caller could see.
LEMMA SilentStep ==
    ASSUME NEW t \in Threads, StepOf(t), mem' = mem, pc[t] # "idle", pc'[t] # "idle", Rec(t)' = Rec(t)
    PROVE  UNCHANGED Promise!vars
<1>1. calls' = [calls EXCEPT ![t] = calls[t]]
  BY CallOf, CallsExcept
<1>2. calls' = calls
  BY <1>1 DEF calls
<1> QED
  BY <1>2 DEF Promise!vars

LEMMA AnswerStep ==
    ASSUME Inv, NEW t \in Threads, NEW x, Ends(t, x), pc[t] \notin {"idle", "done"},
           x \in Promise!Promised(Rec(t))
    PROVE  Promise!Answer(t)
<1>1. StepOf(t) /\ mem' = mem
  BY EndsFrame DEF Inv
<1>2. calls[t] = Rec(t) /\ Rec(t) # NoCall
  BY CallOf
<1>3. outcome[t] = NoAnswer
  BY DEF Inv, ThreadInv, LocalInv, OutcomeInv
<1>4. Rec(t)' = [Rec(t) EXCEPT !.outcome = x] /\ pc'[t] # "idle"
  BY EndsLocals DEF Rec, Inv
<1>5. calls' = [calls EXCEPT ![t].outcome = x]
  BY <1>1, <1>2, <1>4, CallsExcept
<1>6. Rec(t).outcome = NoAnswer
  BY <1>3 DEF Rec
<1> QED
  BY <1>1, <1>2, <1>5, <1>6, SameWords DEF Promise!Answer

\* The outcome promised for something that is not bytes-like, or no ZstdProfile.
LEMMA NotBytes ==
    ASSUME NEW t \in Threads,
           base[t] = Text \/ other[t] = Text \/ (req[t].op = "encode_base" /\ req[t].codec # ZSTD)
    PROVE  Raised("TypeError") \in Promise!Promised(Rec(t))
<1>1. Promise!Promised(Rec(t)) = Promise!Errors({"TypeError"})
  BY SameWords DEF Promise!Promised, Rec
<1> QED
  BY <1>1, SetsOfErrors

\* The outcomes promised once both arguments were looked at.
LEMMA Seen ==
    ASSUME Inv, NEW t \in Threads, pc[t] \in Taken \ {"unpack"}
    PROVE  Promise!Promised(Rec(t)) = Promise!Outcomes(req[t], base[t].value, other[t].value)
<1>1. /\ base[t] = Bytes(base[t].value) /\ base[t].value \in Contents
      /\ other[t] = Bytes(other[t].value) /\ other[t] # Text
  BY ArgumentsCopied
<1>2. ~base[t].mutable /\ ~other[t].mutable
  BY <1>1, ReadBytes
<1>3. base[t] # Text
  BY <1>1, ContentsAssumption DEF Text, Bytes
<1>4. ~(req[t].op = "encode_base" /\ req[t].codec # ZSTD)
  BY DEF Inv, ThreadInv, LocalInv, WhereInv, Taken, InApply, InExtension
<1> QED
  BY <1>1, <1>2, <1>3, <1>4, SameWords DEF Promise!Promised, Rec

LEMMA SeenArguments ==
    ASSUME Inv, NEW t \in Threads, pc[t] \in Taken \ {"unpack"}
    PROVE  /\ Base(t) = base[t].value /\ base[t].value \in Contents /\ Other(t) = other[t].value
           /\ req[t].op \in Operations /\ req[t].bound \in Int
           /\ req[t].op \in Encoders => other[t].value \in Contents
           /\ req[t].op \notin Encoders => IsBlob(other[t].value)
<1>1. /\ base[t] = Bytes(base[t].value) /\ base[t].value \in Contents
      /\ other[t] = Bytes(other[t].value) /\ other[t] # Text
      /\ IsCall([req |-> req[t], base |-> base[t], other |-> other[t]])
  BY ArgumentsCopied
<1> QED
  BY <1>1, ReadBytes, HeldValue DEF Base, Other

\* The steps before the arguments are both copied.
LEMMA CopyRefines ==
    ASSUME Inv, NEW t \in Threads, CheckProfile(t) \/ CopyBase(t) \/ CopyOther(t) \/ Unpack(t)
    PROVE  Promise!Look(t) \/ Promise!Answer(t) \/ UNCHANGED Promise!vars
<1>1. StepOf(t) /\ mem' = mem
  BY PythonFrame DEF Python, Inv
<1>2. pc[t] \in {"profile", "copy_base", "copy_other", "unpack"}
  BY DEF CheckProfile, CopyBase, CopyOther, Unpack, At
<1>3. IsCall([req |-> req[t], base |-> base[t], other |-> other[t]])
  BY <1>2 DEF Inv, ThreadInv, LocalInv, ArgumentsInv
<1>4. IsObject(base[t]) /\ IsObject(other[t])
  BY <1>3 DEF IsCall
<1>5. calls[t] = Rec(t) /\ Rec(t) # NoCall
  BY <1>2, CallOf
<1>6. ASSUME NEW o, IsObject(o) PROVE o.mutable \/ Bytes(Read(o)) = o
  BY <1>6, ReadBytes DEF IsObject, Buffer
<1>7. ASSUME Ends(t, Raised("TypeError")),
             base[t] = Text \/ other[t] = Text \/ (req[t].op = "encode_base" /\ req[t].codec # ZSTD)
      PROVE  Promise!Answer(t)
  BY <1>2, <1>7, AnswerStep, NotBytes
<1>8. \A o : Promise!Read(o) = Read(o)
  BY DEF Promise!Read, Read
<1> USE DEF Raises
<1>9. CASE CheckProfile(t)
  <2>1. req[t].op = "encode_base"
    BY <1>9 DEF CheckProfile, At, Inv, ThreadInv, LocalInv, WhereInv
  <2>2. CASE Passes(t, "copy_base")
    <3>1. Rec(t)' = Rec(t) /\ pc'[t] # "idle"
      BY <2>2, PassesLocals DEF Rec, Inv
    <3> QED
      BY <1>1, <1>2, <3>1, SilentStep
  <2> QED
    BY <1>7, <1>9, <2>1, <2>2 DEF CheckProfile
<1>10. CASE CopyBase(t)
  <2>1. CASE Ends(t, Raised("TypeError"))
    BY <1>7, <1>10, <2>1, Answered DEF CopyBase, Ends, Goto, Inv, ShapeInv, ThreadInv, LocalInv, OutcomeInv, At
  <2>2. CASE base[t] # Text /\ Goto(t, "copy_other") /\ base' = [base EXCEPT ![t] = _bytes(@)]
             /\ UNCHANGED <<other, header, native, held, outcome>>
    <3>1. pc'[t] # "idle" /\ Rec(t)' = [Rec(t) EXCEPT !.base = Bytes(Read(@))]
      BY <2>2 DEF Rec, Goto, _bytes, Inv, ShapeInv
    <3>2. CASE base[t].mutable
      <4>1. calls' = [calls EXCEPT ![t].base = Bytes(Read(@))]
        BY <1>1, <1>5, <3>1, CallsExcept
      <4>2. calls' = [calls EXCEPT ![t].base = Promise!Bytes(Promise!Read(@))]
        BY <1>8, <4>1, SameWords
      <4>3. calls[t].base = base[t] /\ calls[t] # Promise!NoCall
        BY <1>5, SameWords DEF Rec
      <4> QED
        BY <1>1, <3>2, <4>2, <4>3 DEF Promise!Look
    <3>3. CASE Bytes(Read(base[t])) = base[t]
      <4>1. Rec(t)' = Rec(t)
        BY <3>1, <3>3 DEF Rec
      <4> QED
        BY <1>1, <1>2, <3>1, <4>1, SilentStep
    <3> QED
      BY <1>4, <1>6, <3>2, <3>3
  <2> QED
    BY <1>10, <2>1, <2>2 DEF CopyBase
<1>11. ASSUME NEW next, next # "idle", Goto(t, next), other' = [other EXCEPT ![t] = Bytes(Read(@))],
              UNCHANGED <<base, outcome>>
       PROVE  Promise!Look(t) \/ UNCHANGED Promise!vars
  <2>1. pc'[t] # "idle" /\ Rec(t)' = [Rec(t) EXCEPT !.other = Bytes(Read(@))]
    BY <1>11 DEF Rec, Goto, Inv, ShapeInv
  <2>2. CASE other[t].mutable
    <3>1. calls' = [calls EXCEPT ![t].other = Bytes(Read(@))]
      BY <1>1, <1>5, <2>1, CallsExcept
    <3>2. calls' = [calls EXCEPT ![t].other = Promise!Bytes(Promise!Read(@))]
      BY <1>8, <3>1, SameWords
    <3>3. calls[t].other = other[t] /\ calls[t] # Promise!NoCall
      BY <1>5, SameWords DEF Rec
    <3> QED
      BY <1>1, <2>2, <3>2, <3>3 DEF Promise!Look
  <2>3. CASE Bytes(Read(other[t])) = other[t]
    <3>1. Rec(t)' = Rec(t)
      BY <2>1, <2>3 DEF Rec
    <3> QED
      BY <1>1, <1>2, <2>1, <3>1, SilentStep
  <2> QED
    BY <1>4, <1>6, <2>2, <2>3
<1>12. CASE CopyOther(t)
  <2>1. CASE other[t] = Text /\ Ends(t, Raised("TypeError"))
    BY <1>7, <2>1
  <2>2. CASE Goto(t, Copied(t)) /\ other' = [other EXCEPT ![t] = _bytes(@)]
             /\ UNCHANGED <<base, header, native, held, outcome>>
    BY <1>11, <2>2 DEF Copied, _bytes
  <2> QED
    BY <1>12, <2>1, <2>2 DEF CopyOther
<1>13. CASE Unpack(t)
  <2>1. CASE other[t] = Text /\ Ends(t, Raised("TypeError"))
    BY <1>7, <2>1
  <2>2. CASE Goto(t, "fields") /\ other' = [other EXCEPT ![t] = Bytes(Other(t))]
             /\ UNCHANGED <<base, native, held, outcome>>
    <3>1. other' = [other EXCEPT ![t] = Bytes(Read(@))]
      BY <2>2 DEF Other
    <3> QED
      BY <1>11, <2>2, <3>1
  <2> QED
    BY <1>13, <2>1, <2>2 DEF Unpack
<1> QED
  BY <1>9, <1>10, <1>12, <1>13

\* A step that ends with an outcome promised for the arguments, or goes on silently.
LEMMA SeenStep ==
    ASSUME Inv, NEW t \in Threads, pc[t] \in Taken \ {"unpack"},
           \/ \E x \in Promise!Outcomes(req[t], base[t].value, other[t].value) : Ends(t, x)
           \/ \E next : next # "idle" /\ Passes(t, next)
    PROVE  Promise!Answer(t) \/ UNCHANGED Promise!vars
<1>1. pc[t] \notin {"idle", "done"}
  BY DEF Taken, InApply, InExtension
<1>2. CASE \E x \in Promise!Outcomes(req[t], base[t].value, other[t].value) : Ends(t, x)
  BY <1>1, <1>2, Seen, AnswerStep
<1>3. CASE \E next : next # "idle" /\ Passes(t, next)
  <2>1. PICK next : next # "idle" /\ Passes(t, next)
    BY <1>3
  <2>2. Rec(t)' = Rec(t) /\ pc'[t] # "idle" /\ StepOf(t) /\ mem' = mem
    BY <2>1, PassesLocals, PassesFrame DEF Rec, Inv
  <2> QED
    BY <1>1, <2>2, SilentStep
<1> QED
  BY <1>2, <1>3

LEMMA BlobChecksRefine ==
    ASSUME Inv, NEW t \in Threads, CheckFields(t) \/ CheckLengths(t) \/ CheckBase(t) \/ CheckTarget(t)
    PROVE  Promise!Answer(t) \/ UNCHANGED Promise!vars
<1> DEFINE r == req[t]
           v == base[t].value
           w == other[t].value
           h == header[t]
<1>1. pc[t] \in {"fields"} \cup InApply
  BY DEF CheckFields, CheckLengths, CheckBase, CheckTarget, At, InApply
<1>2. pc[t] \in Taken \ {"unpack"} /\ h = w.header
  BY <1>1 DEF Taken, InApply, Inv, ThreadInv, LocalInv, ChecksInv
<1>3. r.op \in {"apply", "inspect"} /\ (pc[t] \in InApply => r.op = "apply" /\ WellFormed(h))
  BY <1>1 DEF InApply, Inv, ThreadInv, LocalInv, WhereInv, ChecksInv
<1>4. Base(t) = v /\ v \in Contents /\ r.bound \in Int /\ IsBlob(w)
  BY <1>2, <1>3, SeenArguments DEF Encoders, Envelopers
<1> USE DEF Raises, Returns
<1>5. CASE CheckFields(t)
  <2>1. CASE ~WellFormed(h) /\ Ends(t, Raised("EnvelopeError"))
    <3>1. Promise!Outcomes(r, v, w) = Promise!Errors({"EnvelopeError"})
      <4>1. ~Promise!WellFormed(w.header)
        BY <1>2, <2>1, SameWords
      <4>2. /\ Promise!ApplyOutcomes(v, w, r.bound) = Promise!Errors({"EnvelopeError"})
            /\ Promise!InspectOutcomes(w) = Promise!Errors({"EnvelopeError"})
        BY <4>1 DEF Promise!ApplyOutcomes, Promise!InspectOutcomes
      <4> QED
        BY <1>3, <4>2, OutcomesOf
    <3> QED
      BY <1>2, <2>1, <3>1, SeenStep, SetsOfErrors
  <2>2. CASE WellFormed(h) /\ r.op = "inspect" /\ Ends(t, Returned(h))
    <3>1. Promise!Outcomes(r, v, w) = {Returned(w.header)}
      BY <1>2, <2>2, OutcomesOf, SameWords DEF Promise!InspectOutcomes
    <3> QED
      BY <1>2, <2>2, <3>1, SeenStep
  <2>3. CASE Passes(t, "lengths")
    BY <1>2, <2>3, SeenStep
  <2> QED
    BY <1>5, <2>1, <2>2, <2>3 DEF CheckFields
<1>6. ASSUME r.op = "apply", WellFormed(h)
      PROVE  /\ v # h.base_sha256 \/ Length[v] # h.base_length
                    => Raised("BaseMismatchError") \in Promise!Outcomes(r, v, w)
             /\ ~(h.target_length <= min(r.bound, RAW_MAX)) => Raised("LimitError") \in Promise!Outcomes(r, v, w)
  <2>1. Promise!Outcomes(r, v, w) = Promise!ApplyOutcomes(v, w, r.bound)
    BY <1>6, OutcomesOf
  <2>2. Promise!WellFormed(w.header) /\ Promise!min(r.bound, RAW_MAX) = min(r.bound, RAW_MAX)
    BY <1>2, <1>6, SameWords
  <2>3. v # h.base_sha256 \/ Length[v] # h.base_length =>
            Promise!Errors({"BaseMismatchError"}) \subseteq Promise!ApplyOutcomes(v, w, r.bound)
    BY <1>2, <2>2 DEF Promise!ApplyOutcomes, Promise!When
  <2>4. ~(w.header.target_length <= Promise!min(r.bound, RAW_MAX)) =>
            Promise!Errors({"LimitError"}) \subseteq Promise!ApplyOutcomes(v, w, r.bound)
    BY <2>2 DEF Promise!ApplyOutcomes, Promise!When
  <2> QED
    BY <1>2, <2>1, <2>2, <2>3, <2>4, SetsOfErrors
<1>7. CASE CheckLengths(t)
  <2>1. pc[t] \in InApply
    BY <1>7 DEF CheckLengths, At, InApply
  <2>2. CASE BaseLengthDiffers(t) /\ Ends(t, Raised("BaseMismatchError"))
    BY <1>2, <1>3, <1>4, <1>6, <2>1, <2>2, SeenStep DEF BaseLengthDiffers
  <2>3. CASE TargetTooLong(t) /\ Ends(t, Raised("LimitError"))
    <3>1. w.header.target_length \in Nat
      BY <1>2, <1>3, <1>4, <2>1, HeaderNumbers
    <3>2. ~(h.target_length <= min(r.bound, RAW_MAX))
      BY <1>2, <1>4, <2>3, <3>1, MaximaAssumption DEF TargetTooLong, min
    <3> QED
      BY <1>2, <1>3, <1>6, <2>1, <2>3, <3>2, SeenStep
  <2>4. CASE Passes(t, "base_hash")
    BY <1>2, <2>4, SeenStep
  <2> QED
    BY <1>7, <2>2, <2>3, <2>4 DEF CheckLengths
<1>8. CASE CheckBase(t)
  <2>1. pc[t] \in InApply
    BY <1>8 DEF CheckBase, At, InApply
  <2>2. CASE Base(t) # h.base_sha256 /\ Ends(t, Raised("BaseMismatchError"))
    BY <1>2, <1>3, <1>4, <1>6, <2>1, <2>2, SeenStep
  <2>3. CASE Passes(t, "enter")
    BY <1>2, <2>3, SeenStep
  <2> QED
    BY <1>8, <2>2, <2>3 DEF CheckBase
<1>9. CASE CheckTarget(t)
  <2>1. pc[t] = "target_hash" /\ pc[t] \in InApply
    BY <1>9 DEF CheckTarget, At, InApply
  <2>2. /\ v = w.header.base_sha256 /\ w.header.base_length = Length[v]
        /\ w.header.target_length <= min(r.bound, RAW_MAX)
        /\ native[t] \in Results(r, v, w, h) /\ native[t].status = "OK"
    BY <1>2, <2>1 DEF Inv, ThreadInv, LocalInv, ChecksInv, NativeInv, InApply, InExtension
  <2>3. native[t] \in Decodes(w.header.codec, Tail(w), v, w.header.target_length) \cup ExtensionStatuses(r)
    BY <1>2, <1>3, <2>1, <2>2 DEF Results
  <2>4. /\ native[t].value = w.header.target_sha256 => Returned(native[t].value) \in Promise!Outcomes(r, v, w)
        /\ native[t].value # w.header.target_sha256 => Raised("IntegrityError") \in Promise!Outcomes(r, v, w)
    <3> HIDE DEF r, v, w, h
    <3> QED
      BY <1>2, <1>3, <1>4, <2>1, <2>2, <2>3, ApplyPromise
  <2>5. \/ native[t].value = w.header.target_sha256 /\ Ends(t, Returned(native[t].value))
        \/ native[t].value # w.header.target_sha256 /\ Ends(t, Raised("IntegrityError"))
    BY <1>2, <1>9 DEF CheckTarget
  <2> QED
    BY <1>2, <2>4, <2>5, SeenStep
<1> QED
  BY <1>5, <1>7, <1>8, <1>9

LEMMA LimitsRefine ==
    ASSUME Inv, NEW t \in Threads, CheckLimits(t) \/ _envelope(t)
    PROVE  Promise!Answer(t) \/ UNCHANGED Promise!vars
<1> DEFINE r == req[t]
           v == base[t].value
           w == other[t].value
           O == Promise!Outcomes(r, v, w)
<1>1. pc[t] \in {"limits", "envelope"} /\ pc[t] \in Taken \ {"unpack"}
  BY DEF CheckLimits, _envelope, At, Taken
<1>2. /\ Base(t) = v /\ v \in Contents /\ Other(t) = w /\ r.bound \in Int /\ r.op \in Operations
      /\ r.op \in Encoders => w \in Contents
  BY <1>1, SeenArguments
<1> USE DEF Raises, Returns
<1>3. CASE CheckLimits(t)
  <2>1. CASE OverLimit(t) /\ Ends(t, Raised("LimitError"))
    <3> DEFINE E == Promise!Errors({"LimitError"})
    <3>1. v \in Contents /\ Length[v] \in Nat /\ (r.op \in Encoders => Length[w] \in Nat)
      BY <1>2, ContentsAssumption
    <3>2. \/ r.op \in WithBase /\ ~(Length[v] <= RAW_MAX)
          \/ r.op \in Envelopers /\ ~(Length[w] <= RAW_MAX)
          \/ r.op = "raw_apply" /\ r.bound \notin 0..RAW_MAX
          \/ r.op = "compress" /\ Length[w] > FRAME_MAX
          \/ r.op = "decompress" /\ r.bound \notin 0..FRAME_MAX
      BY <1>2, <2>1, <3>1, MaximaAssumption DEF OverLimit, Encoders
    <3>3. r.op # "apply" /\ r.op # "inspect"
      BY <1>3 DEF CheckLimits, At, Inv, ThreadInv, LocalInv, WhereInv
    <3>4. CASE r.op \in Envelopers
      <4>1. ~(Length[v] <= RAW_MAX /\ Length[w] <= RAW_MAX)
        BY <3>2, <3>4 DEF Envelopers, WithBase
      <4>2. E \subseteq Promise!EncodeOutcomes(r.codec, v, w)
        BY <4>1 DEF Promise!EncodeOutcomes, Promise!When
      <4> QED
        BY <3>4, <4>2, OutcomesOf, SetsOfErrors, <1>1, <2>1, SeenStep
    <3>5. CASE r.op = "raw_encode"
      <4>1. Length[v] > RAW_MAX
        BY <3>1, <3>2, <3>5, MaximaAssumption DEF Envelopers, WithBase
      <4>2. E \subseteq Promise!RawEncodeOutcomes(r.codec, v, w)
        BY <4>1 DEF Promise!RawEncodeOutcomes, Promise!When
      <4> QED
        BY <3>5, <4>2, OutcomesOf, SetsOfErrors, <1>1, <2>1, SeenStep
    <3>6. CASE r.op = "raw_apply"
      <4>1. Length[v] > RAW_MAX \/ r.bound \notin 0..RAW_MAX
        BY <3>1, <3>2, <3>6, MaximaAssumption DEF Envelopers, WithBase
      <4>2. E \subseteq Promise!RawApplyOutcomes(r.codec, v, w, r.bound)
        BY <4>1 DEF Promise!RawApplyOutcomes
      <4> QED
        BY <3>6, <4>2, OutcomesOf, SetsOfErrors, <1>1, <2>1, SeenStep
    <3>7. CASE r.op = "compress"
      <4>1. Length[w] > FRAME_MAX
        BY <3>2, <3>7 DEF Envelopers, WithBase
      <4>2. E \subseteq Promise!CompressOutcomes(w)
        BY <4>1 DEF Promise!CompressOutcomes
      <4> QED
        BY <3>7, <4>2, OutcomesOf, SetsOfErrors, <1>1, <2>1, SeenStep
    <3>8. CASE r.op = "decompress"
      <4>1. r.bound \notin 0..FRAME_MAX
        BY <3>2, <3>8 DEF Envelopers, WithBase
      <4>2. E \subseteq Promise!DecompressOutcomes(w, r.bound)
        BY <4>1 DEF Promise!DecompressOutcomes
      <4> QED
        BY <3>8, <4>2, OutcomesOf, SetsOfErrors, <1>1, <2>1, SeenStep
    <3> QED
      BY <1>2, <3>3, <3>4, <3>5, <3>6, <3>7, <3>8 DEF Operations, Encoders, Appliers
  <2>2. CASE NoProfile(t) /\ Ends(t, Raised("TypeError"))
    <3>1. r.op \in Envelopers /\ r.codec = None
      BY <2>2 DEF NoProfile, Envelopers
    <3>2. Promise!Errors({"TypeError"}) \subseteq Promise!EncodeOutcomes(r.codec, v, w)
      BY <3>1 DEF Promise!EncodeOutcomes, Promise!When
    <3> QED
      BY <3>1, <3>2, OutcomesOf, SetsOfErrors, <1>1, <2>2, SeenStep
  <2>3. CASE Passes(t, "enter")
    BY <1>1, <2>3, SeenStep
  <2> QED
    BY <1>3, <2>1, <2>2, <2>3 DEF CheckLimits
<1>4. CASE _envelope(t)
  <2>1. pc[t] = "envelope" /\ Ends(t, Returned(Envelope(r.codec, v, w, native[t].value)))
    BY <1>2, <1>4 DEF _envelope, At
  <2>2. /\ r.op \in Envelopers /\ Fits(r, base[t], other[t])
        /\ native[t] \in Results(r, v, w, header[t]) /\ native[t].status = "OK"
    BY <2>1 DEF Inv, ThreadInv, LocalInv, WhereInv, ChecksInv, NativeInv
  <2>3. native[t] \in Encodes(r.codec, v, w, BOOLEAN, RAW_MAX) \cup ExtensionStatuses(r)
    BY <2>2 DEF Results, Envelopers
  <2>4. Fits(r, Bytes(v), Bytes(w)) /\ w \in Contents
    BY <1>2, <2>2 DEF Fits, Bytes, Encoders
  <2>5. Returned(Envelope(r.codec, v, w, native[t].value)) \in O
    BY <2>2, <2>3, <2>4, EncodePromise
  <2> QED
    BY <1>1, <2>1, <2>5, SeenStep
<1> QED
  BY <1>3, <1>4

LEMMA LeaveRefines ==
    ASSUME Inv, NEW t \in Threads, LeaveRaising(t) \/ Leave(t)
    PROVE  Promise!Answer(t) \/ UNCHANGED Promise!vars
<1> DEFINE r == req[t]
           v == base[t].value
           w == other[t].value
           h == header[t]
           n == native[t]
           O == Promise!Outcomes(r, v, w)
<1>1. pc[t] = "leave" /\ pc[t] \in Taken \ {"unpack"}
  BY DEF LeaveRaising, Leave, At, Taken, InExtension
<1>2. /\ v \in Contents /\ r.bound \in Int /\ r.op \in Operations
      /\ r.op \in Encoders => w \in Contents
      /\ r.op \notin Encoders => IsBlob(w)
  BY <1>1, SeenArguments
<1>3. /\ Fits(r, base[t], other[t]) /\ n \in Results(r, v, w, h) \cup ExtensionStatuses(r)
      /\ r.op # "inspect"
      /\ r.op = "apply" =>
            /\ h = w.header /\ WellFormed(h) /\ v = w.header.base_sha256
            /\ w.header.base_length = Length[v] /\ w.header.target_length <= min(r.bound, RAW_MAX)
  BY <1>1 DEF Inv, ThreadInv, LocalInv, WhereInv, ChecksInv, NativeInv, InExtension, InApply
<1>4. Fits(r, Bytes(v), Bytes(w))
  BY <1>3 DEF Fits, Bytes
<1>5. /\ n.status # "OK" => Answer(r, n) \in O
      /\ n.status = "OK" /\ r.op \in {"raw_encode", "compress"} => Returned(Blob(Short, n.value)) \in O
      /\ n.status = "OK" /\ r.op \in {"raw_apply", "decompress"} => Returned(n.value) \in O
  <2> HIDE DEF r, v, w, n, h
  <2>1. CASE r.op \in Envelopers
    <3>1. n \in Encodes(r.codec, v, w, BOOLEAN, RAW_MAX) \cup ExtensionStatuses(r)
      BY <1>3, <2>1 DEF Results, Envelopers
    <3> QED
      BY <1>2, <1>4, <2>1, <3>1, EncodePromise DEF Encoders, Envelopers
  <2>2. CASE r.op = "raw_encode"
    <3>1. n \in Encodes(r.codec, v, w, BOOLEAN, RAW_MAX) \cup ExtensionStatuses(r)
      BY <1>3, <2>2 DEF Results
    <3> QED
      BY <1>2, <1>4, <2>2, <3>1, RawEncodePromise DEF Encoders
  <2>3. CASE r.op = "compress"
    <3>1. n \in Encodes(ZSTD, empty, w, {TRUE}, FRAME_MAX) \cup ExtensionStatuses(r)
      BY <1>3, <2>3 DEF Results
    <3> QED
      BY <1>2, <1>4, <2>3, <3>1, CompressPromise DEF Encoders
  <2>4. CASE r.op = "apply"
    <3>1. n \in Decodes(w.header.codec, Tail(w), v, w.header.target_length) \cup ExtensionStatuses(r)
      BY <1>3, <2>4 DEF Results
    <3>2. r.op \notin Encoders
      BY <2>4 DEF Encoders, Envelopers
    <3> QED
      BY <1>2, <1>3, <2>4, <3>1, <3>2, ApplyPromise
  <2>5. CASE r.op = "raw_apply"
    <3>1. n \in Decodes(r.codec, Whole(w), v, r.bound) \cup ExtensionStatuses(r)
      BY <1>3, <2>5 DEF Results
    <3>2. r.op \notin Encoders
      BY <2>5 DEF Encoders, Envelopers
    <3> QED
      BY <1>2, <1>4, <2>5, <3>1, <3>2, RawApplyPromise
  <2>6. CASE r.op = "decompress"
    <3>1. n \in Decompresses(Whole(w), r.bound) \cup ExtensionStatuses(r)
      BY <1>3, <2>6 DEF Results
    <3>2. r.op \notin Encoders
      BY <2>6 DEF Encoders, Envelopers
    <3> QED
      BY <1>2, <1>4, <2>6, <3>1, <3>2, DecompressPromise
  <2> QED
    BY <1>2, <1>3, <2>1, <2>2, <2>3, <2>4, <2>5, <2>6 DEF Operations, Encoders, Appliers
<1>6. CASE LeaveRaising(t)
  <2>1. n.status # "OK" /\ Ends(t, Answer(r, n))
    BY <1>6 DEF LeaveRaising, Raises, Answer
  <2> QED
    BY <1>1, <1>5, <2>1, SeenStep
<1>7. CASE Leave(t)
  <2>1. n.status = "OK"
    BY <1>7 DEF Leave
  <2>2. CASE Passes(t, "target_hash") \/ Passes(t, "envelope")
    BY <1>1, <2>2, SeenStep
  <2>3. CASE r.op \in {"raw_encode", "compress"} /\ Ends(t, Returned(Blob(Short, n.value)))
    BY <1>1, <1>5, <2>1, <2>3, SeenStep
  <2>4. CASE r.op \in {"raw_apply", "decompress"} /\ Ends(t, Returned(n.value))
    BY <1>1, <1>5, <2>1, <2>4, SeenStep
  <2> QED
    BY <1>7, <2>2, <2>3, <2>4 DEF Leave, Returns
<1> QED
  BY <1>6, <1>7

\* Between the checks and the outcome the caller sees nothing of the extension.
LEMMA ExtensionRefines ==
    ASSUME Inv, NEW t \in Threads,
           AllocateTarget(t) \/ ParseArguments(t) \/ AllowThreads(t) \/ Codec(t) \/ FinishApply(t) \/ Finish(t)
    PROVE  UNCHANGED Promise!vars
<1>1. StepOf(t) /\ mem' = mem
  BY PythonFrame DEF Python, Inv
<1>2. Rec(t)' = Rec(t)
  BY DEF AllocateTarget, ParseArguments, AllowThreads, Codec, FinishApply, Finish, Passes, Goto, locals, Rec
<1>3. pc[t] # "idle"
  BY DEF AllocateTarget, ParseArguments, AllowThreads, Codec, FinishApply, Finish, At
<1>4. pc'[t] # "idle"
  BY DEF AllocateTarget, ParseArguments, AllowThreads, Codec, FinishApply, Finish, Passes, Goto, Inv, ShapeInv
<1> QED
  BY <1>1, <1>2, <1>3, <1>4, SilentStep

LEMMA EndsRefine ==
    ASSUME Inv, NEW t \in Threads, Call(t) \/ Return(t)
    PROVE  Promise!Call(t) \/ Promise!Return(t)
<1>1. StepOf(t) /\ mem' = mem
  BY PythonFrame DEF Python, Inv
<1>2. CASE Call(t)
  <2>1. pc[t] = "idle" /\ outcome[t] = NoAnswer
    BY <1>2 DEF Call, Inv, ThreadInv, LocalInv, OutcomeInv
  <2>2. PICK r \in Requests[t] :
            /\ req' = [req EXCEPT ![t] = r.req]
            /\ base' = [base EXCEPT ![t] = r.base]
            /\ other' = [other EXCEPT ![t] = r.other]
            /\ pc' = [pc EXCEPT ![t] = First(r.req.op)]
    BY <1>2 DEF Call
  <2>3. First(r.req.op) # "idle"
    BY DEF First
  <2>4. pc'[t] # "idle" /\ Rec(t)' = [req |-> r.req, base |-> r.base, other |-> r.other, outcome |-> NoAnswer]
    BY <1>2, <2>1, <2>2, <2>3 DEF Call, Rec, Inv, ShapeInv
  <2>5. calls' = [calls EXCEPT ![t] = [req |-> r.req, base |-> r.base, other |-> r.other, outcome |-> NoAnswer]]
    BY <1>1, <2>4, CallsExcept
  <2>6. calls[t] = Promise!NoCall /\ NoAnswer = Promise!NoAnswer
    BY <2>1, CallOf, SameWords
  <2> QED
    BY <1>1, <2>5, <2>6 DEF Promise!Call
<1>3. CASE Return(t)
  <2>1. pc[t] = "done" /\ outcome[t] # NoAnswer
    BY <1>3 DEF Return, At, Inv, ThreadInv, LocalInv, OutcomeInv
  <2>2. pc'[t] = "idle"
    BY <1>3 DEF Return, Inv, ShapeInv
  <2>3. calls' = [calls EXCEPT ![t] = NoCall]
    BY <1>1, <2>2, CallsExcept
  <2>4. calls[t] # NoCall /\ calls[t].outcome # NoAnswer
    <3>1. calls[t] = Rec(t) /\ Rec(t) # NoCall
      BY <2>1, CallOf
    <3>2. Rec(t).outcome = outcome[t]
      BY DEF Rec
    <3> QED
      BY <2>1, <3>1, <3>2
  <2> QED
    BY <1>1, <2>3, <2>4, SameWords DEF Promise!Return
<1> QED
  BY <1>2, <1>3

\* What every caller sees is ApiPromise, for any threads, requests and buffers: although the
\* code reads lengths, digests and payloads at different times, gives up the GIL in between,
\* and the buffers change meanwhile, each argument is looked at once and the outcome is one
\* promised for what was seen.
THEOREM Implements == Spec => KeepsPromise
<1>1. Init => Promise!Init
  BY SameWords DEF Init, Promise!Init, calls
<1>2. Inv /\ [Next]_vars => [Promise!Next]_(Promise!vars)
  <2> SUFFICES ASSUME Inv, [Next]_vars PROVE Promise!Next \/ UNCHANGED Promise!vars
    OBVIOUS
  <2>1. CASE UNCHANGED vars
    BY <2>1 DEF vars, Promise!vars, calls
  <2>2. ASSUME NEW t \in Threads, Acquire(t) \/ Drop(t) PROVE UNCHANGED Promise!vars
    BY <2>2 DEF Acquire, Drop, locals, Promise!vars, calls
  <2>3. ASSUME NEW t \in Threads, Write(t) PROVE Promise!Next
    <3>1. UNCHANGED calls
      BY <2>3 DEF Write, locals, calls
    <3> QED
      BY <2>3, <3>1 DEF Write, Promise!Next, Promise!Write
  <2>4. ASSUME NEW t \in Threads, Call(t) \/ Python(t) \/ Codec(t) PROVE Promise!Next \/ UNCHANGED Promise!vars
    BY <2>4, CopyRefines, BlobChecksRefine, LimitsRefine, LeaveRefines, ExtensionRefines, EndsRefine
       DEF Python, Promise!Next
  <2> QED
    BY <2>1, <2>2, <2>3, <2>4 DEF Next
<1> QED
  BY <1>1, <1>2, Invariance, PTL DEF Spec, KeepsPromise, Promise!Spec

-------------------------------------------------------------------------------
(***************************************************************************)
(* The codecs.  What PythonApi takes a zstd codec to return is what the    *)
(* interface of the bridge promises, which FrameDecompress and ZstdApply   *)
(* are proved to keep.                                                     *)
(***************************************************************************)
CONSTANTS PAYLOAD_MAX,      \* limit of a payload's size
          WINDOW_LOG_MAX,   \* zstd_apply grants windows up to 2^WINDOW_LOG_MAX
          StreamLog         \* frame_decompress always grants windows up to 2^StreamLog

Exact == INSTANCE ExactDecode WITH Requests <- {}, request <- req
Bounded == INSTANCE BoundedDecode WITH Requests <- {}, request <- req

\* What phd_zstd_apply is given for a payload, a base and a target of n bytes.  A payload
\* made of this base and of n bytes is one frame, whole, in a window the profiles allow.
AppliedAs(r, payload, b, n) ==
    /\ Exact!IsStream(r.src) /\ ~r.null /\ r.base = Length[b] /\ r.target = n
    /\ r.header \in {"frame", "skippable", "cut", "malformed"}
    /\ payload = Payload(ZSTD, b, payload.target, payload.sized) /\ Length[payload.target] = n =>
          /\ r.src.len <= PAYLOAD_MAX /\ r.header = "frame" /\ Exact!OneFrame(r.src, n)
          /\ r.src.window <= WINDOW_LOG_MAX
          /\ r.src.stated[0] = IF payload.sized THEN n ELSE -1

\* What phd_zstd_decompress is given for a payload and a bound of n bytes.  A frame that
\* states its size asks for no wider a window than that size needs.
DecompressedAs(r, payload, n) ==
    /\ Bounded!IsStream(r.src) /\ ~r.null /\ r.max_output = n
    /\ payload = Payload(ZSTD, empty, payload.target, payload.sized) =>
          /\ r.src.len \in 1..FRAME_MAX /\ r.src.bad > r.src.len /\ Bounded!Complete(r.src)
          /\ r.src.cum[r.src.len] = Length[payload.target]
          /\ payload.sized => ~Bounded!Refused(r.src.window, Length[payload.target])

\* What the extension sees of a codec that ended with status and left the bytes v.
ResultOf(status, v) == IF status = "OK" THEN Gives(v) ELSE Status(status)

\* The types of what a decoder is given.
LEMMA StreamType ==
    ASSUME NEW s, Exact!IsStream(s) \/ Bounded!IsStream(s)
    PROVE  /\ s.len \in Nat /\ s.window \in Nat /\ s.bad \in 1..(s.len + 1)
           /\ \A i \in 0..s.len : s.cum[i] \in Nat /\ s.cum[i] <= s.cum[s.len]
<1>1. /\ s.len \in Nat /\ s.window \in Nat /\ s.bad \in 1..(s.len + 1)
      /\ s.cum \in [0..s.len -> Nat]
      /\ \A i, j \in 0..s.len : i <= j => s.cum[i] <= s.cum[j]
  BY DEF Exact!IsStream, Bounded!IsStream
<1>2. s.len \in 0..s.len
  BY <1>1
<1>3. ASSUME NEW i \in 0..s.len PROVE s.cum[i] \in Nat /\ s.cum[i] <= s.cum[s.len]
  <2>1. i <= s.len
    BY <1>1
  <2> QED
    BY <1>1, <1>2, <2>1
<1> QED
  BY <1>1, <1>3

\* phd_zstd_apply returns nothing to the API but what PythonApi takes it to return: for a
\* payload of the right base and size its target, whatever the decoder's window, chunks and
\* stated sizes are, and for every other an error or bytes of the size asked for.
THEOREM ZstdApplyFits ==
    ASSUME PAYLOAD_MAX \in Nat, WINDOW_LOG_MAX \in Nat,
           NEW b \in Contents, Length[b] <= RAW_MAX, NEW n \in 0..RAW_MAX,
           NEW payload, NEW r, AppliedAs(r, payload, b, n),
           NEW status, Exact!Allowed(r, status),
           NEW v \in Contents, Length[v] = n,
           payload = Payload(ZSTD, b, payload.target, payload.sized) /\ Length[payload.target] = n
               => v = payload.target
    PROVE  ResultOf(status, v) \in Decodes(ZSTD, payload, b, n)
<1> DEFINE genuine == payload = Payload(ZSTD, b, payload.target, payload.sized) /\ n = Length[payload.target]
<1>1. Exact!HeaderStatus(r) \in {"LIMIT", "ZSTD", "INVALID", "DECODE"}
  BY DEF Exact!HeaderStatus, AppliedAs
<1>2. status \in {"ALLOC", "OK", "LIMIT", "INVALID", "ZSTD"}
  BY <1>1 DEF Exact!Allowed, Exact!Decoded
<1>3. status = "ALLOC" => ResultOf(status, v) \in NativeFaults
  BY DEF ResultOf, NativeFaults, Statuses
<1>4. CASE ~genuine
  <2>1. status = "OK" => ResultOf(status, v) \in {Gives(x) : x \in OfLength({n})}
    BY DEF ResultOf, OfLength
  <2>2. status \in {"LIMIT", "INVALID", "ZSTD"} => ResultOf(status, v) \in Malformed
    BY DEF ResultOf, Malformed, Statuses
  <2>3. Decodes(ZSTD, payload, b, n) = NativeFaults \cup (Malformed \cup {Gives(x) : x \in OfLength({n})})
    BY <1>4 DEF Decodes
  <2> QED
    BY <1>2, <1>3, <2>1, <2>2, <2>3
<1>5. CASE genuine
  <2>1. /\ Exact!IsStream(r.src) /\ ~r.null /\ r.base = Length[b] /\ r.target = n
        /\ r.src.len <= PAYLOAD_MAX /\ r.header = "frame" /\ Exact!OneFrame(r.src, n)
        /\ r.src.window <= WINDOW_LOG_MAX /\ r.src.stated[0] \in {-1, n}
    BY <1>5 DEF AppliedAs
  <2>2. /\ r.src.len \in Nat /\ r.src.window \in Nat /\ Length[b] \in Nat
        /\ \A i \in 0..r.src.len : r.src.cum[i] \in Nat /\ r.src.cum[i] <= r.src.cum[r.src.len]
    BY <2>1, StreamType, ContentsAssumption
  <2>3. ~Exact!TooLarge(r)
    BY <2>1, <2>2, MaximaAssumption DEF Exact!TooLarge
  <2>4. Exact!Decoded(r.src, n, status)
    <3>1. ~(r.src.window > WINDOW_LOG_MAX) /\ ~(r.src.stated[0] \notin {-1, r.target})
      BY <2>1, <2>2
    <3>2. Exact!HeaderStatus(r) = "DECODE"
      BY <2>1, <2>3, <3>1, Zenon DEF Exact!HeaderStatus
    <3> QED
      BY <2>1, <3>2 DEF Exact!Allowed
  <2>5. ~Exact!Exceeds(r.src, n) /\ ~Exact!Mismatch(r.src, n) /\ ~Exact!Truncated(r.src, n)
    BY <2>1, <2>2 DEF Exact!Exceeds, Exact!Mismatch, Exact!Truncated, Exact!OneFrame
  <2>6. ~(r.src.bad <= r.src.len)
    BY <2>1, <2>2, StreamType DEF Exact!OneFrame
  <2>7. status \in {"ALLOC", "OK"}
    BY <2>4, <2>5, <2>6 DEF Exact!Decoded
  <2>8. status = "OK" => ResultOf(status, v) = Gives(payload.target)
    BY <1>5 DEF ResultOf
  <2>9. Decodes(ZSTD, payload, b, n) = NativeFaults \cup {Gives(payload.target)}
    BY <1>5 DEF Decodes
  <2> QED
    BY <1>3, <2>7, <2>8, <2>9
<1> QED
  BY <1>4, <1>5

\* phd_zstd_decompress returns nothing to the API but what PythonApi takes it to return: a
\* whole frame within the bound gives its content unless it may be refused for its window,
\* one beyond the bound never does.  (Powers are stated because the provers know none.)
THEOREM DecompressFits ==
    ASSUME StreamLog \in Nat, \A i \in Nat : 2^i \in Nat,
           NEW n \in 0..FRAME_MAX, NEW payload, IsPayload(payload), NEW r, DecompressedAs(r, payload, n),
           NEW o, Bounded!Allowed(r, o),
           NEW v \in Contents, o.status = "OK" => Length[v] = o.size,
           payload = Payload(ZSTD, empty, payload.target, payload.sized) /\ o.status = "OK"
               => v = payload.target
    PROVE  ResultOf(o.status, v) \in Decompresses(payload, n)
<1> DEFINE genuine == payload = Payload(ZSTD, empty, payload.target, payload.sized)
<1>1. /\ Bounded!IsStream(r.src) /\ ~r.null /\ r.max_output = n /\ n \in Nat /\ n <= FRAME_MAX
      /\ r.src.len \in Nat /\ r.src.cum[r.src.len] \in Nat
  <2>1. Bounded!IsStream(r.src) /\ ~r.null /\ r.max_output = n
    BY DEF DecompressedAs
  <2>2. r.src.len \in Nat /\ r.src.cum[r.src.len] \in Nat
    BY <2>1, StreamType
  <2> QED
    BY <2>1, <2>2, MaximaAssumption
<1>2. \/ o.status \in {"ALLOC", "LIMIT", "ZSTD", "WINDOW", "INVALID"}
      \/ o.status = "OK" /\ o.size = r.src.cum[r.src.len] /\ r.src.cum[r.src.len] <= n
  BY <1>1 DEF Bounded!Allowed, Bounded!Unreadable, Bounded!Decoded, Bounded!DecodedTo, Bounded!Outcome
<1>3. o.status = "ALLOC" => ResultOf(o.status, v) \in NativeFaults
  BY DEF ResultOf, NativeFaults, Statuses
<1>4. CASE ~genuine
  <2>1. o.status = "OK" => ResultOf(o.status, v) \in {Gives(x) : x \in OfLength(0..n)}
    BY <1>1, <1>2 DEF ResultOf, OfLength
  <2>2. o.status \in {"LIMIT", "INVALID", "ZSTD", "WINDOW"} => ResultOf(o.status, v) \in Malformed
    BY DEF ResultOf, Malformed, Statuses
  <2>3. Decompresses(payload, n) = NativeFaults \cup (Malformed \cup {Gives(x) : x \in OfLength(0..n)})
    BY <1>4 DEF Decompresses
  <2> QED
    BY <1>2, <1>3, <2>1, <2>2, <2>3
<1>5. CASE genuine
  <2>0. payload.target \in Contents
    BY <1>5, CodecsAssumption DEF IsPayload, Junk, Payload, ZSTD, Codecs
  <2>1. /\ r.src.len \in 1..FRAME_MAX /\ r.src.bad > r.src.len /\ Bounded!Complete(r.src)
        /\ r.src.cum[r.src.len] = Length[payload.target]
        /\ payload.sized => ~Bounded!Refused(r.src.window, Length[payload.target])
    BY <1>5 DEF DecompressedAs
  <2>2. \A i \in 0..r.src.len : r.src.cum[i] \in Nat /\ r.src.cum[i] <= r.src.cum[r.src.len]
    BY <1>1, StreamType
  <2>3. Bounded!Decoded(r.src, n, o)
    BY <1>1, <2>1, MaximaAssumption DEF Bounded!Allowed, Bounded!Unreadable, Bounded!TooLarge, Bounded!Accepted
  <2>4. r.src.bad > r.src.len /\ ~(r.src.bad <= r.src.len)
    BY <1>1, <2>1, StreamType
  <2>5. \/ o.status = "ALLOC"
        \/ o.status = "OK" /\ Length[payload.target] <= n
        \/ o.status = "LIMIT" /\ ~(Length[payload.target] <= n)
        \/ o.status = "WINDOW" /\ Bounded!Refused(r.src.window, n)
    <3>1. CASE o.status = "ALLOC"
      BY <3>1
    <3>2. CASE \E bad \in Bounded!Stops(r.src, n) : Bounded!DecodedTo(r.src, n, bad, o)
      <4>1. PICK bad \in Bounded!Stops(r.src, n) : Bounded!DecodedTo(r.src, n, bad, o)
        BY <3>2
      <4>2. bad = r.src.bad \/ (bad = r.src.head /\ Bounded!Refused(r.src.window, n))
        BY DEF Bounded!Stops, Bounded!RefusedAt
      <4>3. Bounded!Exceeds(r.src, bad, n) => ~(Length[payload.target] <= n)
        BY <1>1, <2>0, <2>1, <2>2, ContentsAssumption DEF Bounded!Exceeds
      <4>4. CASE bad = r.src.bad
        <5>1. ~(bad < r.src.bad) /\ ~(bad <= r.src.len)
          BY <1>1, <2>4, <4>4, StreamType
        <5> QED
          BY <2>1, <4>1, <4>3, <5>1 DEF Bounded!DecodedTo, Bounded!Outcome
      <4>5. CASE bad = r.src.head /\ bad # r.src.bad /\ Bounded!Refused(r.src.window, n)
        <5>1. bad < r.src.bad
          BY <4>5 DEF Bounded!Stops, Bounded!RefusedAt
        <5> QED
          BY <2>1, <4>1, <4>3, <4>5, <5>1 DEF Bounded!DecodedTo, Bounded!Outcome
      <4> QED
        BY <4>2, <4>4, <4>5
    <3> QED
      BY <2>3, <3>1, <3>2 DEF Bounded!Decoded, Bounded!Outcome
  <2>7. ~payload.sized \/ ~(Length[payload.target] <= n) \/ ~Bounded!Refused(r.src.window, n)
    <3> SUFFICES ASSUME payload.sized, Length[payload.target] <= n, Bounded!Refused(r.src.window, n)
                 PROVE  FALSE
      OBVIOUS
    <3>1. PICK w \in Nat : w = r.src.window
      BY <1>1, StreamType
    <3>2. PICK l \in Nat : l = Length[payload.target]
      BY <2>0, ContentsAssumption
    <3>3. w > StreamLog /\ 2^(w - 1) >= n /\ ~(w > StreamLog /\ 2^(w - 1) >= l)
      BY <2>1, <3>1, <3>2 DEF Bounded!Refused
    <3>4. w - 1 \in Nat
      BY <3>1, <3>3
    <3>5. PICK p \in Nat : p = 2^(w - 1)
      BY <3>4
    <3>6. l <= n /\ p >= n /\ ~(p >= l)
      BY <3>2, <3>3, <3>5
    <3> QED
      BY <1>1, <3>6
  <2>8. Decompresses(payload, n) = NativeFaults \cup When(~payload.sized, Statuses({"WINDOW"})) \cup
            IF Length[payload.target] <= n THEN {Gives(payload.target)} ELSE Statuses({"LIMIT", "WINDOW"})
    BY <1>5 DEF Decompresses
  <2>9. CASE o.status = "ALLOC"
    BY <1>3, <2>8, <2>9
  <2>10. CASE o.status = "OK" /\ Length[payload.target] <= n
    BY <1>5, <2>8, <2>10 DEF ResultOf
  <2>11. CASE o.status \in {"LIMIT", "WINDOW"} /\ ~(Length[payload.target] <= n)
    <3>1. ResultOf(o.status, v) \in Statuses({"LIMIT", "WINDOW"})
      BY <2>11 DEF ResultOf, Statuses
    <3> QED
      BY <2>8, <2>11, <3>1
  <2>12. CASE o.status = "WINDOW" /\ ~payload.sized
    <3>1. ResultOf(o.status, v) \in When(~payload.sized, Statuses({"WINDOW"}))
      BY <2>12 DEF ResultOf, Statuses, When
    <3> QED
      BY <2>8, <3>1
  <2> QED
    BY <2>5, <2>7, <2>9, <2>10, <2>11, <2>12
<1> QED
  BY <1>4, <1>5
===============================================================================
