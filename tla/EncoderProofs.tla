------------------------------ MODULE EncoderProofs ------------------------------
(***************************************************************************)
(* Proofs about the zstd encoder: EncoderOptions, for every profile, every *)
(* size and everything zstd may recommend; then the loop of ZstdEncode,    *)
(* however zstd divides its work; and that Encoder composes the two.       *)
(***************************************************************************)
EXTENDS Encoder, FiniteSetTheorems, TLAPS

-------------------------------------------------------------------------------
(***************************************************************************)
(* EncoderOptions.                                                         *)
(***************************************************************************)
Accepts == IF call.kind = "hdiff" THEN hdiff_options ELSE zstd_options
Wanted == IF call.kind = "hdiff" THEN Plugin ELSE Derived

\* What has been checked by the time parameters are set, and what is set then.
OptionsInv ==
    /\ call \in Calls /\ advice \in Advices
    /\ stage \in {"parse", "check", "set"} /\ call.kind = "zstd" => o.ldm \in DOMAIN _LDM
    /\ stage = "set" => Accepts
    /\ stage # "done" => outcome = "none"
    /\ NeverRefusedByZstd
    /\ outcome = "accepted" => Accepts /\ set = Wanted /\ ldm \in 0..2

-------------------------------------------------------------------------------
LEMMA CallType ==
    ASSUME call \in Calls
    PROVE  /\ call.kind \in Kinds /\ base \in Nat /\ target \in Nat
           /\ o.level \in Int /\ o.window_log \in Int
           /\ o.ldm_hash_log \in Int /\ o.ldm_min_match \in Int
           /\ o.ldm_bucket_log \in Int /\ o.ldm_rate_log \in Int
  BY CallsAssumption DEF IsCall, Fields, o, base, target

LEMMA AdviceType ==
    ASSUME advice \in Advices
    PROVE  advice.chainLog \in 6..30 /\ advice.strategy \in 1..9 /\ advice.shrink \in 0..20
  BY AdvicesAssumption DEF Advice

LEMMA LdmType == ASSUME call.kind = "zstd" => o.ldm \in DOMAIN _LDM PROVE ldm \in 0..2
  BY DEF ldm, _LDM

\* The number of bits of a size is a number.
LEMMA BitsType == ASSUME NEW n PROVE bits(n) \in Nat
  <1>1. IsFiniteSet(0..30)
    BY 0 \in Int, 30 \in Int, FS_Interval, Zenon
  <1>2. IsFiniteSet({k \in 0..30 : 2^k <= n})
    BY <1>1, FS_Subset
  <1>. QED
    BY <1>2, FS_CardinalityType DEF bits

\* A window that is set is one that zstd_apply accepts.
LEMMA WindowRange ==
    ASSUME call \in Calls, zstd_options
    PROVE  window = 0 \/ window \in 10..30
  <1>1. CASE Automatic
    BY <1>1, BitsType, SMT DEF window, clamp
  <1>2. CASE ~Automatic
    BY <1>2, CallType DEF window, zstd_options, InRange, automatic_or, within, WINDOW_LOG_MAX
  <1>. QED
    BY <1>1, <1>2

LEMMA RateRange ==
    ASSUME call \in Calls, advice \in Advices, zstd_options
    PROVE  logRate \in 1..24
  <1>1. advice.strategy \div 3 \in 0..3
    BY AdviceType
  <1>. QED
    BY <1>1, CallType DEF logRate, zstd_options, InRange, automatic_or, within

\* The table derived from a window is within zstd's range and not larger than the
\* window, unless the bucket needs more.
LEMMA DerivedHashRange ==
    ASSUME call \in Calls, advice \in Advices, zstd_options, NEW w \in 10..30
    PROVE  /\ derivedHash(w) \in 6..30 /\ derivedHash(w) <= max(10, w)
           /\ derivedHash(w) >= o.ldm_bucket_log
  <1>1. o.ldm_bucket_log \in 0..8
    BY CallType DEF zstd_options, InRange, automatic_or, within
  <1>2. adjustedWindow(w) \in 10..30 /\ adjustedWindow(w) <= max(10, w)
    BY AdviceType DEF adjustedWindow, max
  <1>3. adjustedWindow(w) - logRate \in Int /\ adjustedWindow(w) - logRate <= adjustedWindow(w)
    BY <1>2, RateRange
  <1>4. /\ clamp(adjustedWindow(w) - logRate, 6, 30) \in 6..30
        /\ clamp(adjustedWindow(w) - logRate, 6, 30) <= max(10, w)
    BY <1>2, <1>3 DEF clamp, max
  <1>. QED
    BY <1>1, <1>4 DEF derivedHash, max

LEMMA HashRange ==
    ASSUME call \in Calls, advice \in Advices, zstd_options
    PROVE  /\ hashLog = 0 \/ hashLog \in 6..30
           /\ hashLog # 0 => hashLog >= o.ldm_bucket_log
           /\ hashLog = 0 => o.ldm_bucket_log = 0 /\ o.ldm_rate_log = 0
           /\ o.ldm_hash_log = 0 /\ hashLog # 0 =>
                hashLog <= max(10, IF window # 0 THEN window ELSE 27)
  <1>. DEFINE w == IF window # 0 THEN window ELSE 27
  <1>1. w \in 10..30
    BY WindowRange
  <1>2. /\ derivedHash(w) \in 6..30 /\ derivedHash(w) <= max(10, w)
        /\ derivedHash(w) >= o.ldm_bucket_log
    BY <1>1, DerivedHashRange
  <1>3. CASE o.ldm_hash_log = 0 /\ (o.ldm_bucket_log # 0 \/ o.ldm_rate_log # 0)
    BY <1>2, <1>3 DEF hashLog
  <1>4. CASE o.ldm_hash_log # 0
    BY <1>4, CallType DEF hashLog, zstd_options, InRange, automatic_or, within
  <1>5. CASE o.ldm_hash_log = 0 /\ o.ldm_bucket_log = 0 /\ o.ldm_rate_log = 0
    BY <1>5, CallType DEF hashLog
  <1>. QED
    BY <1>3, <1>4, <1>5

\* So is the table that zstd works with in the end.
LEMMA EffectiveHashRange ==
    ASSUME call \in Calls, advice \in Advices, zstd_options, set = Derived
    PROVE  /\ EffectiveHash \in 6..30 /\ EffectiveHash >= set["bucket"]
           /\ o.ldm_hash_log = 0 =>
                EffectiveHash <= max(10, IF set["window"] # 0 THEN set["window"] ELSE 27)
  <1>. DEFINE w == IF window # 0 THEN window ELSE 27
  <1>1. /\ set["hash"] = hashLog /\ set["bucket"] = o.ldm_bucket_log
        /\ set["window"] = window /\ set["rate"] = o.ldm_rate_log
    BY DEF Derived
  <1>2. CASE hashLog # 0
    BY <1>1, <1>2, HashRange DEF EffectiveHash
  <1>3. CASE hashLog = 0
    <2>1. set["bucket"] = 0 /\ set["rate"] = 0 /\ set["hash"] = 0
      BY <1>1, <1>3, HashRange
    <2>2. w \in 10..30
      BY WindowRange
    <2>3. adjustedWindow(w) \in 10..30 /\ adjustedWindow(w) <= max(10, w)
      BY <2>2, AdviceType DEF adjustedWindow, max
    <2>4. 7 - advice.strategy \div 3 \in 4..7
      BY AdviceType
    <2>5. EffectiveHash = clamp(adjustedWindow(w) - (7 - advice.strategy \div 3), 6, 30)
      BY <1>1, <2>1, <2>3, <2>4 DEF EffectiveHash
    <2>. QED
      BY <1>1, <2>1, <2>2, <2>3, <2>4, <2>5 DEF clamp, max
  <1>. QED
    BY <1>2, <1>3

\* Every parameter that an accepted profile makes the encoder set is one zstd takes.
LEMMA Settable ==
    ASSUME call \in Calls, advice \in Advices, Accepts, ldm \in 0..2
    PROVE  \A p \in Parameters : Wanted[p] # 0 => SettableZstd(p, Wanted[p])
  <1>1. CASE call.kind = "hdiff"
    <2>1. o.window_log \in 10..23
      BY <1>1, CallType DEF Accepts, hdiff_options, within, HDIFF_WINDOW_LOG_MAX
    <2>2. Wanted["window"] = o.window_log
      BY <1>1 DEF Wanted, Plugin, Untouched, Parameters
    <2>3. \A p \in Parameters \ {"window"} : Wanted[p] = 0
      BY <1>1 DEF Wanted, Plugin, Untouched, Parameters
    <2>4. SettableZstd("window", Wanted["window"])
      BY <2>1, <2>2 DEF SettableZstd, within
    <2>. QED
      BY <2>3, <2>4
  <1>2. CASE call.kind # "hdiff"
    <2>. USE <1>2
    <2>0. zstd_options
      BY DEF Accepts
    <2>1. Wanted["window"] = 0 \/ SettableZstd("window", Wanted["window"])
      BY <2>0, WindowRange DEF Wanted, Derived, SettableZstd, within
    <2>2. Wanted["ldm"] = 0 \/ SettableZstd("ldm", Wanted["ldm"])
      BY <2>0 DEF Wanted, Derived, SettableZstd, within, useLdm
    <2>3. Wanted["hash"] = 0 \/ SettableZstd("hash", Wanted["hash"])
      BY <2>0, HashRange DEF Wanted, Derived, SettableZstd, within
    <2>4. Wanted["minMatch"] = 0 \/ SettableZstd("minMatch", Wanted["minMatch"])
      BY <2>0, CallType
         DEF Wanted, Derived, SettableZstd, within, zstd_options, InRange, automatic_or
    <2>5. Wanted["bucket"] = 0 \/ SettableZstd("bucket", Wanted["bucket"])
      BY <2>0, CallType
         DEF Wanted, Derived, SettableZstd, within, zstd_options, InRange, automatic_or
    <2>6. Wanted["rate"] = 0 \/ SettableZstd("rate", Wanted["rate"])
      BY <2>0, CallType
         DEF Wanted, Derived, SettableZstd, within, zstd_options, InRange, automatic_or
    <2>. QED
      BY <2>1, <2>2, <2>3, <2>4, <2>5, <2>6 DEF Parameters
  <1>. QED
    BY <1>1, <1>2

-------------------------------------------------------------------------------
LEMMA OptionsInitial == OptionsInit => OptionsInv
  BY DEF OptionsInit, OptionsInv, NeverRefusedByZstd

LEMMA OptionsStep == OptionsInv /\ [OptionsNext]_optionsVars => OptionsInv'
  <1>. SUFFICES ASSUME OptionsInv, [OptionsNext]_optionsVars PROVE OptionsInv'
    OBVIOUS
  <1>. USE DEF OptionsInv, NeverRefusedByZstd
  <1>0. CASE UNCHANGED optionsVars
    BY <1>0 DEF optionsVars, Accepts, Wanted, Plugin, Derived, window, useLdm, hashLog, derivedHash,
                logRate, adjustedWindow, Automatic, Outgrows, hdiff_options, zstd_options,
                InRange, Tunings, ldm, o, base, target
  <1>1. CASE Python
    BY <1>1 DEF Python, End, o
  <1>2. CASE Parse
    BY <1>2 DEF Parse, End, o
  <1>3. CASE Check
    BY <1>3 DEF Check, End, o, Accepts, hdiff_options, zstd_options, InRange, Tunings, ldm
  <1>4. CASE Set
    <2>1. ldm \in 0..2 /\ Accepts
      BY <1>4, LdmType DEF Set
    <2>2. Wanted' = Wanted /\ Accepts' = Accepts /\ ldm' = ldm
      BY <1>4 DEF Set, Accepts, Wanted, Plugin, Derived, window, useLdm, hashLog, derivedHash,
                  logRate, adjustedWindow, Automatic, Outgrows, hdiff_options, zstd_options,
                  InRange, Tunings, ldm, o, base, target
    <2>3. set' = Wanted /\ stage' = "done" /\ outcome' = "accepted"
      BY <1>4, <2>1, Settable DEF Set, End, Wanted
    <2>. QED
      BY <1>4, <2>1, <2>2, <2>3 DEF Set, o
  <1>. QED
    BY <1>0, <1>1, <1>2, <1>3, <1>4 DEF OptionsNext

LEMMA OptionsInvariance == OptionsSpec => []OptionsInv
  <1>. QED
    BY OptionsInitial, OptionsStep, PTL DEF OptionsSpec

-------------------------------------------------------------------------------
\* No accepted profile is ever refused by zstd: the ranges of hdiff_options and
\* zstd_options and the clamping in zstd_encode leave only values zstd takes.
THEOREM NeverRefused == OptionsSpec => []NeverRefusedByZstd
  <1>1. OptionsInv => NeverRefusedByZstd
    BY DEF OptionsInv
  <1>. QED
    BY <1>1, OptionsInvariance, PTL

\* An explicit bucket size survives zstd's own reduction to the hash log.
THEOREM BucketIsHonoured == OptionsSpec => []BucketHonoured
  <1>1. OptionsInv => BucketHonoured
    <2>. SUFFICES ASSUME OptionsInv, outcome = "accepted" PROVE EffectiveBucket = set["bucket"]
      BY DEF BucketHonoured
    <2>. USE DEF OptionsInv
    <2>1. CASE call.kind = "hdiff"
      <3>1. set["bucket"] = 0 /\ set["hash"] = 0 /\ set["rate"] = 0 /\ set["window"] = o.window_log
        BY <2>1 DEF Wanted, Plugin, Untouched, Parameters
      <3>2. o.window_log \in 10..23
        BY <2>1, CallType DEF Accepts, hdiff_options, within, HDIFF_WINDOW_LOG_MAX
      <3>3. adjustedWindow(o.window_log) \in 10..30
        BY <3>2, AdviceType DEF adjustedWindow, max
      <3>4. 7 - advice.strategy \div 3 \in 4..7
        BY AdviceType
      <3>5. EffectiveHash \in 6..30
        BY <3>1, <3>2, <3>3, <3>4 DEF EffectiveHash, clamp
      <3>. QED
        BY <3>1, <3>5 DEF EffectiveBucket
    <2>2. CASE call.kind # "hdiff"
      <3>1. zstd_options /\ set = Derived
        BY <2>2 DEF Accepts, Wanted
      <3>2. set["bucket"] \in Int
        BY <3>1, CallType DEF Derived
      <3>. QED
        BY <3>1, <3>2, EffectiveHashRange DEF EffectiveBucket
    <2>. QED
      BY <2>1, <2>2
  <1>. QED
    BY <1>1, OptionsInvariance, PTL

\* The LDM table never outgrows its window unless the profile asks for it.
THEOREM TableFitsWindow == OptionsSpec => []TableWithinWindow
  <1>1. OptionsInv => TableWithinWindow
    <2>. SUFFICES ASSUME OptionsInv, outcome = "accepted", call.kind # "hdiff", o.ldm_hash_log = 0
                  PROVE  EffectiveHash <= max(10, IF set["window"] # 0 THEN set["window"] ELSE 27)
      BY DEF TableWithinWindow
    <2>1. zstd_options /\ set = Derived
      BY DEF OptionsInv, Accepts, Wanted
    <2>. QED
      BY <2>1, EffectiveHashRange DEF OptionsInv
  <1>. QED
    BY <1>1, OptionsInvariance, PTL

\* What the provers must be told of powers of two: the 31 there are below 2^31.
Pow(k) == 2^k

LEMMA Powers ==
    /\ Pow(0) = 1 /\ Pow(1) = 2 /\ Pow(2) = 4 /\ Pow(3) = 8
    /\ Pow(4) = 16 /\ Pow(5) = 32 /\ Pow(6) = 64 /\ Pow(7) = 128
    /\ Pow(8) = 256 /\ Pow(9) = 512 /\ Pow(10) = 1024 /\ Pow(11) = 2048
    /\ Pow(12) = 4096 /\ Pow(13) = 8192 /\ Pow(14) = 16384 /\ Pow(15) = 32768
    /\ Pow(16) = 65536 /\ Pow(17) = 131072 /\ Pow(18) = 262144 /\ Pow(19) = 524288
    /\ Pow(20) = 1048576 /\ Pow(21) = 2097152 /\ Pow(22) = 4194304 /\ Pow(23) = 8388608
    /\ Pow(24) = 16777216 /\ Pow(25) = 33554432 /\ Pow(26) = 67108864 /\ Pow(27) = 134217728
    /\ Pow(28) = 268435456 /\ Pow(29) = 536870912 /\ Pow(30) = 1073741824
  BY SMT DEF Pow

LEMMA PowersGrow == \A k \in 0..30 : Pow(k) \in Nat /\ \A j \in 0..30 : j < k => Pow(j) < Pow(k)
  BY Powers, SMT

\* bits is the bit length: the power of two that it gives is beyond n.
LEMMA BitLength == ASSUME NEW n \in 0..PHD_RAW_MAX PROVE bits(n) \in 0..29 /\ n < Pow(bits(n))
  <1>. DEFINE S == {k \in 0..30 : Pow(k) <= n}
  <1>1. bits(n) = Cardinality(S)
    BY DEF bits, Pow
  <1>2. CASE n = 0
    <2>1. S = {}
      BY <1>2, Powers, SMT
    <2>2. bits(n) = 0
      BY <1>1, <2>1, FS_EmptySet
    <2>. QED
      BY <1>2, <2>2, Powers
  <1>3. CASE n # 0
    <2>1. PICK b \in 0..28 : Pow(b) <= n /\ n < Pow(b + 1)
      <3>1. n \in Nat /\ n < Pow(29)
        <4>1. n \in 0..Pow(28)
          BY DEF Pow, PHD_RAW_MAX
        <4>. QED
          BY <4>1, PowersGrow
      <3>2. ASSUME \A k \in 0..28 : Pow(k) <= n => Pow(k + 1) <= n PROVE FALSE
        BY <1>3, <3>1, <3>2, Powers, SMT
      <3>3. \A k \in 0..28 : Pow(k) \in Nat /\ Pow(k + 1) \in Nat
        BY PowersGrow
      <3>. QED
        BY <3>2, <3>3, SMT
    <2>2. ASSUME NEW k \in 0..30 PROVE Pow(k) <= n <=> k <= b
      <3>1. k <= b => Pow(k) <= Pow(b)
        BY PowersGrow
      <3>2. b + 1 <= k => Pow(b + 1) <= Pow(k)
        BY PowersGrow
      <3>. QED
        BY <2>1, <3>1, <3>2, PowersGrow
    <2>3. S = 0..b
      BY <2>2
    <2>4. bits(n) = b + 1
      <3>1. b \in Int /\ b >= 0
        OBVIOUS
      <3>2. Cardinality(0..b) = b + 1
        BY <3>1, 0 \in Int, FS_Interval
      <3>. QED
        BY <1>1, <2>3, <3>2
    <2>. QED
      BY <2>1, <2>4
  <1>. QED
    BY <1>2, <1>3

\* An automatic window reaches to the last byte of the base: it is larger than the target.
THEOREM WindowCoversTarget == OptionsSpec => []WindowHoldsTarget
  <1>1. OptionsInv => WindowHoldsTarget
    <2>. SUFFICES ASSUME OptionsInv, outcome = "accepted", Automatic, call.kind = "zstd"
                  PROVE  target < 2^set["window"]
      BY DEF WindowHoldsTarget
    <2>1. set["window"] = clamp(bits(target), 10, 30)
      BY DEF OptionsInv, Wanted, Derived, window
    <2>2. bits(target) \in 0..29 /\ target < Pow(bits(target))
      <3>1. target \in 0..PHD_RAW_MAX
        BY CallsAssumption DEF OptionsInv, IsCall, target
      <3>. QED
        BY <3>1, BitLength
    <2>3. set["window"] \in 10..30 /\ bits(target) <= set["window"]
      BY <2>1, <2>2 DEF clamp
    <2>4. /\ Pow(bits(target)) <= Pow(set["window"])
          /\ Pow(set["window"]) \in Nat /\ Pow(bits(target)) \in Nat
      BY <2>2, <2>3, PowersGrow
    <2>5. target \in Nat
      BY CallType DEF OptionsInv
    <2>. QED
      BY <2>2, <2>4, <2>5 DEF Pow
  <1>. QED
    BY <1>1, OptionsInvariance, PTL

-------------------------------------------------------------------------------
(***************************************************************************)
(* ZstdEncode.                                                             *)
(***************************************************************************)
ZstdTypes ==
    /\ request \in Requests
    /\ pc \in {"start", "encode", "release", "done"}
    /\ ctx \in [taken : 0..tn, flushed : 0..request.frame.size]
    /\ pos \in 0..tn /\ ib \in Nat /\ encoded \in Nat

\* Until the frame is whole its end has not been flushed; nothing exceeds the limit.
EncodingInv ==
    /\ pc = "start" => ctx = Unused /\ pos = 0 /\ ib = 0 /\ encoded = 0
    /\ pc = "encode" => ctx.flushed < request.frame.size
    /\ pc \in {"encode", "release"} => encoded = ctx.flushed /\ encoded <= limits.output
    /\ pc = "release" => ctx.taken = tn /\ ctx.flushed = request.frame.size
    /\ pc # "done" => result = NoResult

ZstdInv == ZstdTypes /\ EncodingInv /\ InputOnce /\ WholeFrame

LEMMA ZstdRequestType ==
    ASSUME request \in Requests
    PROVE  /\ tn \in Nat /\ request.frame.size \in Nat \ {0} /\ request.frame.source = tn
           /\ limits.input \in Nat /\ limits.output \in Nat
  BY RequestsAssumption DEF IsRequest, IsFrame, tn, limits

LEMMA ChunkType == ASSUME ZstdTypes PROVE chunk \in Nat /\ pos + chunk \in 0..tn
  BY ZstdRequestType, LimitsAssumption DEF ZstdTypes, chunk, min

\* A turn of the compressor, for a chunk that ends inside the target or with it.
LEMMA ZstdTurn ==
    ASSUME ZstdTypes, NEW r \in Outcomes
    PROVE  /\ r.taken \in ctx.taken..(pos + chunk)
           /\ r.flushed \in ctx.flushed..(ctx.flushed + BUFFER)
           /\ Failed(r) => r.ret \in {"wrong", "memory"} /\ r.flushed = ctx.flushed
           /\ r.ret = "done" => last /\ r.taken = tn /\ r.flushed = request.frame.size
           /\ r.ret = "more" => r.flushed < request.frame.size
  BY ChunkType, ZstdRequestType
     DEF Outcomes, CompressStream, Continued, Ended, Unfinished, Failed, last

LEMMA ZstdInitial == Init => ZstdInv
  BY ZstdRequestType
     DEF Init, ZstdInv, ZstdTypes, EncodingInv, InputOnce, WholeFrame, Unused, NoResult,
         IsFrame

LEMMA ZstdBeginStep == ASSUME ZstdInv, Begin PROVE ZstdInv'
<1>1. /\ request' = request /\ UNCHANGED <<ctx, pos, ib, encoded>>
      /\ tn' = tn /\ limits' = limits /\ TooLarge' = TooLarge
  BY DEF Begin, tn, limits, TooLarge
<1>2. chunk' = chunk /\ chunk \in Nat
  BY <1>1, ChunkType DEF chunk, ZstdInv
<1> QED
  BY <1>1, <1>2, ZstdRequestType
     DEF Begin, Throw, PhdResult, ZstdInv, ZstdTypes, EncodingInv, InputOnce, WholeFrame,
         Unused, NoResult

LEMMA EncodeStep == ASSUME ZstdInv, Encode PROVE ZstdInv'
<1>1. /\ request' = request /\ result' = result /\ tn' = tn /\ limits' = limits
      /\ pc = "encode" /\ request \in Requests
  BY DEF Encode, tn, limits, ZstdInv, ZstdTypes
<1>2. PICK r \in Outcomes :
        /\ ~Failed(r) /\ ~TooMuch(r)
        /\ ctx' = [taken |-> r.taken, flushed |-> r.flushed]
        /\ encoded' = encoded + produced(r)
        /\ \/ Again(r) /\ ib' = r.taken - pos /\ UNCHANGED <<pc, pos>>
           \/ /\ ~Again(r)
              /\ pos' = pos + chunk
              /\ ib' = 0
              /\ pc' = IF pos' = tn THEN "release" ELSE "encode"
  BY DEF Encode
<1>3. /\ r.taken \in ctx.taken..(pos + chunk) /\ r.flushed \in Nat /\ r.flushed >= ctx.flushed
      /\ r.ret = "done" => last /\ r.taken = tn /\ r.flushed = request.frame.size
      /\ r.ret = "more" => r.flushed < request.frame.size
      /\ r.ret \in {"done", "more"}
  BY <1>1, <1>2, ZstdTurn DEF Failed, ZstdInv, ZstdTypes
<1>4. /\ tn \in Nat /\ limits.output \in Nat /\ request.frame.size \in Nat
      /\ chunk \in Nat /\ pos + chunk \in 0..tn /\ pos \in 0..tn
      /\ ctx.taken \in 0..tn /\ ctx.flushed \in Nat /\ encoded = ctx.flushed
      /\ ctx.taken = pos + ib /\ ib \in Nat
  BY <1>1, ZstdRequestType, ChunkType DEF ZstdInv, ZstdTypes, EncodingInv, InputOnce
<1>5. encoded' = r.flushed /\ r.flushed <= limits.output
  BY <1>2, <1>3, <1>4 DEF produced, TooMuch
<1>6. CASE Again(r)
  <2>1. r.flushed < request.frame.size
    BY <1>3, <1>4, <1>6, ZstdRequestType DEF Again
  <2>2. chunk' = chunk
    BY <1>1, <1>2, <1>6 DEF chunk
  <2>3. ib' = r.taken - pos /\ UNCHANGED <<pc, pos>>
    BY <1>2, <1>6
  <2>4. ZstdTypes'
    BY <1>1, <1>2, <1>3, <1>4, <1>5, <2>1, <2>3 DEF ZstdTypes
  <2> QED
    BY <1>1, <1>2, <1>3, <1>4, <1>5, <2>1, <2>2, <2>3, <2>4
       DEF ZstdInv, EncodingInv, InputOnce, WholeFrame, NoResult
<1>7. CASE ~Again(r)
  <2>1. r.taken = pos + chunk
    BY <1>3, <1>7 DEF Again, last
  <2>2. /\ pos' = pos + chunk /\ ib' = 0
        /\ pc' = IF pos + chunk = tn THEN "release" ELSE "encode"
    BY <1>2, <1>7
  <2>3. IF pos + chunk = tn THEN r.flushed = request.frame.size
                                ELSE r.flushed < request.frame.size
    BY <1>3, <1>7 DEF Again, last
  <2>4. ZstdTypes'
    BY <1>1, <1>2, <1>3, <1>4, <1>5, <2>1, <2>2, <2>3 DEF ZstdTypes
  <2>5. chunk' \in Nat
    BY <1>1, <1>4, <2>2, LimitsAssumption DEF chunk, min
  <2> QED
    BY <1>1, <1>2, <1>3, <1>4, <1>5, <2>1, <2>2, <2>3, <2>4, <2>5
       DEF ZstdInv, EncodingInv, InputOnce, WholeFrame, NoResult
<1> QED
  BY <1>6, <1>7

LEMMA EncodeFailsStep == ASSUME ZstdInv, EncodeFails PROVE ZstdInv'
<1>1. /\ request' = request /\ UNCHANGED <<ctx, pos, ib, encoded>>
      /\ tn' = tn /\ limits' = limits /\ TooLarge' = TooLarge
      /\ pc' = "done" /\ pc = "encode"
  BY DEF EncodeFails, Throw, tn, limits, TooLarge
<1>2. PICK r \in Outcomes, s \in {"ZSTD", "ALLOC", "LIMIT"} :
          result' = PhdResult(s, 0) /\ (s = "LIMIT" => ~Failed(r) /\ TooMuch(r))
  BY DEF EncodeFails, Throw
<1>3. s = "LIMIT" => request.frame.size > limits.output
  <2>1. /\ ~Failed(r) => r.flushed \in Nat /\ r.flushed <= request.frame.size
        /\ ctx.flushed = encoded
    BY <1>1, <1>2, ZstdTurn, ZstdRequestType DEF ZstdInv, ZstdTypes, EncodingInv, Failed
  <2> QED
    BY <1>2, <2>1, ZstdRequestType DEF TooMuch, produced, ZstdInv, ZstdTypes
<1> QED
  BY <1>1, <1>2, <1>3 DEF PhdResult, ZstdInv, ZstdTypes, EncodingInv, InputOnce, WholeFrame

LEMMA ReleaseStep == ASSUME ZstdInv, Release PROVE ZstdInv'
  BY ZstdRequestType
     DEF Release, PhdResult, ZstdInv, ZstdTypes, EncodingInv, InputOnce, WholeFrame, tn,
         limits

\* However zstd divides its work, the loop's own account of it stays right.
THEOREM ZstdInvariance == Spec => []ZstdInv
<1>1. ZstdInv /\ [Next]_vars => ZstdInv'
  <2> SUFFICES ASSUME ZstdInv, [Next]_vars PROVE ZstdInv'
    OBVIOUS
  <2>1. CASE UNCHANGED vars
    BY <2>1
       DEF vars, ZstdInv, ZstdTypes, EncodingInv, InputOnce, WholeFrame, chunk, tn,
           limits, TooLarge
  <2> QED
    BY <2>1, ZstdBeginStep, EncodeStep, EncodeFailsStep, ReleaseStep DEF Next
<1> QED
  BY ZstdInitial, <1>1, PTL DEF Spec

\* The compressor gets every byte of the target once and in order, wherever chunks and
\* pieces end.
THEOREM Once == Spec => []InputOnce
<1>1. ZstdInv => InputOnce
  BY DEF ZstdInv
<1> QED
  BY ZstdInvariance, <1>1, PTL

\* A result is the whole frame of the whole target within the limit, and a call is refused
\* for its size only if the frame does not fit.
THEOREM WholeWithinLimit == Spec => []WholeFrame
<1>1. ZstdInv => WholeFrame
  BY DEF ZstdInv
<1> QED
  BY ZstdInvariance, <1>1, PTL
-------------------------------------------------------------------------------
(***************************************************************************)
(* How long a call takes.                                                  *)
(***************************************************************************)
Rank == CASE pc = "start" -> 3 [] pc = "encode" -> 2 [] pc = "release" -> 1

\* What is still to be done: chunks to begin, frame to flush, and the steps around the
\* loop.
StepsLeft ==
    IF pc = "done" THEN 0 ELSE Rank + (tn - pos) + (request.frame.size - ctx.flushed)

LEMMA StepsLeftType ==
    ASSUME ZstdInv
    PROVE  /\ StepsLeft \in Nat
           /\ pc # "done" => StepsLeft > 0 /\ Rank \in 1..3
           /\ pos \in 0..tn /\ ctx.flushed \in 0..request.frame.size
           /\ tn \in Nat /\ request.frame.size \in Nat
<1>1. /\ pos \in 0..tn /\ ctx.flushed \in 0..request.frame.size
      /\ tn \in Nat /\ request.frame.size \in Nat
  BY ZstdRequestType DEF ZstdInv, ZstdTypes
<1>2. ASSUME pc # "done" PROVE Rank \in 1..3
  BY <1>2 DEF ZstdInv, ZstdTypes, Rank
<1> QED BY <1>1, <1>2 DEF StepsLeft

\* A turn that does not end the call begins a chunk, or fills the output buffer.
LEMMA EncodeAdvances ==
    ASSUME ZstdInv, Encode
    PROVE  /\ ctx.flushed <= ctx'.flushed /\ pos <= pos'
           /\ pc' = "encode" => pos < pos' \/ ctx.flushed < ctx'.flushed
           /\ pc' \in {"encode", "release"}
<1>1. PICK r \in Outcomes :
        /\ ~Failed(r) /\ ctx' = [taken |-> r.taken, flushed |-> r.flushed]
        /\ \/ Again(r) /\ UNCHANGED <<pc, pos>>
           \/ /\ ~Again(r)
              /\ pos' = pos + chunk
              /\ pc' = IF pos' = tn THEN "release" ELSE "encode"
  BY DEF Encode
<1>2. /\ r.flushed \in ctx.flushed..(ctx.flushed + BUFFER) /\ r.ret \in {"done", "more"}
      /\ chunk \in Nat /\ pos \in Nat /\ ctx.flushed \in Nat /\ pc = "encode"
      /\ BUFFER \in Nat \ {0} /\ tn \in Nat
  BY <1>1, ZstdTurn, ChunkType, StepsLeftType, LimitsAssumption DEF ZstdInv, Failed, Encode
<1>3. CASE Again(r)
  <2>1. r.flushed = ctx.flushed + BUFFER
    BY <1>1, <1>2, <1>3 DEF Again, Outcomes, CompressStream, Ended, Unfinished
  <2> QED BY <1>1, <1>2, <1>3, <2>1
<1>4. CASE ~Again(r)
  <2>1. pos' = pos + chunk /\ pc' = IF pos + chunk = tn THEN "release" ELSE "encode"
    BY <1>1, <1>4
  <2>2. pos + chunk # tn => chunk > 0
    BY <1>2, LimitsAssumption DEF chunk, min
  <2> QED BY <1>1, <1>2, <2>1, <2>2
<1> QED BY <1>3, <1>4

LEMMA StepsDecrease == ASSUME ZstdInv, ZstdInv', Next PROVE StepsLeft' < StepsLeft
<1>1. pc # "done" /\ tn' = tn /\ request' = request
  BY DEF Next, Begin, Encode, EncodeFails, Release, tn
<1>2. CASE pc' = "done"
  BY <1>1, <1>2, StepsLeftType DEF StepsLeft
<1>3. CASE pc' # "done"
  <2>1. PICK k, p, f, l, q, g, s :
          /\ k = Rank /\ p = pos /\ f = ctx.flushed
          /\ l = Rank' /\ q = pos' /\ g = ctx'.flushed /\ s = request.frame.size
    OBVIOUS
  <2>2. StepsLeft = k + (tn - p) + (s - f) /\ StepsLeft' = l + (tn - q) + (s - g)
    BY <1>1, <1>3, <2>1 DEF StepsLeft
  <2>3. /\ k \in Nat /\ l \in Nat /\ p \in Nat /\ f \in Nat /\ q \in Nat /\ g \in Nat
        /\ s \in Nat /\ tn \in Nat
    BY <1>1, <1>3, <2>1, StepsLeftType DEF Rank, ZstdInv, ZstdTypes
  <2>4. CASE Begin
    <3>1. l < k /\ q = p /\ g = f
      BY <1>3, <2>1, <2>4 DEF Begin, Throw, Rank
    <3> QED BY <2>2, <2>3, <3>1
  <2>5. CASE Encode
    <3>1. p <= q /\ f <= g /\ (pc' = "encode" => p < q \/ f < g) /\ pc' \in {"encode", "release"}
      BY <2>1, <2>5, EncodeAdvances
    <3>2. pc' = "encode" => l = k
      BY <2>1, <2>5 DEF Encode, Rank
    <3>3. pc' = "release" => l < k
      BY <2>1, <2>5 DEF Encode, Rank
    <3> QED BY <2>2, <2>3, <3>1, <3>2, <3>3
  <2> QED BY <1>3, <2>4, <2>5 DEF Next, EncodeFails, Release, Throw
<1> QED BY <1>2, <1>3

\* Every step brings a call nearer to its end, for every size of chunk and buffer: it
\* returns after at most 3 steps, one more for each byte of the target and of the frame.
THEOREM BoundedSteps ==
    Spec => /\ StepsLeft = 3 + tn + request.frame.size
            /\ [](StepsLeft \in Nat)
            /\ [][StepsLeft' < StepsLeft]_vars
<1>1. Init => StepsLeft = 3 + tn + request.frame.size
  <2> SUFFICES ASSUME Init PROVE StepsLeft = 3 + tn + request.frame.size
    OBVIOUS
  <2>1. tn \in Nat /\ request.frame.size \in Nat
    BY ZstdRequestType DEF Init
  <2> QED BY <2>1 DEF Init, StepsLeft, Rank, Unused
<1>2. ZstdInv => StepsLeft \in Nat
  BY StepsLeftType
<1>3. ZstdInv /\ ZstdInv' /\ [Next]_vars => [StepsLeft' < StepsLeft]_vars
  BY StepsDecrease
<1> QED
  BY <1>1, <1>2, <1>3, ZstdInvariance, PTL DEF Spec

\* The loop never waits: while it encodes, zstd has an answer to the next call, whatever
\* has been taken and flushed so far.
THEOREM AlwaysAnswered == Spec => [](pc = "encode" => Outcomes # {})
<1>1. ASSUME ZstdInv, pc = "encode" PROVE Outcomes # {}
  <2>1. /\ ctx.taken \in Nat /\ ctx.taken <= pos + chunk /\ pos + chunk \in Nat
        /\ pos + chunk <= tn /\ tn = request.frame.source
        /\ ctx.flushed \in Nat /\ ctx.flushed < request.frame.size
        /\ request.frame.size \in Nat /\ BUFFER \in Nat \ {0}
    <3>1. ctx.taken = pos + ib /\ ib <= chunk /\ ib \in Nat /\ pos \in Nat /\ chunk \in Nat
      BY <1>1, ChunkType, StepsLeftType DEF ZstdInv, ZstdTypes, InputOnce
    <3> QED
      BY <1>1, <3>1, ChunkType, StepsLeftType, LimitsAssumption
         DEF ZstdInv, ZstdTypes, EncodingInv, tn
  <2>2. CASE ctx.taken < pos + chunk
    <3> DEFINE r == [taken |-> ctx.taken, flushed |-> ctx.flushed, ret |-> "memory"]
    <3>1. r \in Outcomes
      BY <2>1, <2>2 DEF Outcomes, CompressStream
    <3> QED BY <3>1
  <2>3. CASE ctx.taken = pos + chunk /\ ~last
    <3> DEFINE r == [taken |-> ctx.taken, flushed |-> ctx.flushed, ret |-> "more"]
    <3>1. r \in Outcomes
      BY <2>1, <2>3 DEF Outcomes, CompressStream, Continued
    <3> QED BY <3>1
  <2>4. CASE ctx.taken = pos + chunk /\ last /\ request.frame.size <= ctx.flushed + BUFFER
    <3> DEFINE r == [taken |-> ctx.taken, flushed |-> request.frame.size, ret |-> "done"]
    <3>1. r \in Outcomes
      BY <2>1, <2>4 DEF Outcomes, CompressStream, Ended, last
    <3> QED BY <3>1
  <2>5. CASE ctx.taken = pos + chunk /\ last /\ ctx.flushed + BUFFER < request.frame.size
    <3> DEFINE r == [taken |-> ctx.taken, flushed |-> ctx.flushed + BUFFER, ret |-> "more"]
    <3>1. r \in Outcomes
      BY <2>1, <2>5 DEF Outcomes, CompressStream, Unfinished, last
    <3> QED BY <3>1
  <2> QED BY <2>1, <2>2, <2>3, <2>4, <2>5
<1> QED BY <1>1, ZstdInvariance, PTL
-------------------------------------------------------------------------------
(***************************************************************************)
(* Encoder.                                                                *)
(***************************************************************************)
\* A call of the whole encoder is one of each part: the parameters are those EncoderOptions
\* speaks of, and between creating the compressor and the loop nothing but setting them
\* happens.  zstd's refusal of a parameter, which would be a step of neither, never occurs,
\* as the profile has been checked.
THEOREM Composition == EncoderSpec => OptionsSpec /\ Init /\ [][Next]_vars
<1>1. EncoderInit => OptionsInit /\ Init
  BY DEF EncoderInit
<1>2. [EncoderNext]_encoderVars => [OptionsNext]_optionsVars
  BY DEF EncoderNext, encoderVars, OptionsNext, Create, SetParameters, Ready
<1>3. EncoderSpec => []OptionsInv
  BY <1>1, <1>2, OptionsInvariance, PTL DEF EncoderSpec, OptionsSpec
<1>4. OptionsInv /\ OptionsInv' /\ [EncoderNext]_encoderVars => [Next]_vars
  <2> SUFFICES ASSUME OptionsInv, OptionsInv', [EncoderNext]_encoderVars PROVE [Next]_vars
    OBVIOUS
  <2>1. CASE SetParameters
    <3>1. outcome' # "NativeError"
      BY DEF OptionsInv, NeverRefusedByZstd
    <3>2. outcome' = "accepted"
      BY <2>1, <3>1 DEF SetParameters, Set, End
    <3> QED
      BY <2>1, <3>2 DEF SetParameters
  <2>2. CASE ~SetParameters
    BY <2>2 DEF EncoderNext, encoderVars, Create, Next
  <2> QED
    BY <2>1, <2>2
<1> QED
  BY <1>1, <1>2, <1>3, <1>4, PTL DEF EncoderSpec, OptionsSpec
===============================================================================
