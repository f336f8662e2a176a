----------------------------- MODULE EncoderOptions -----------------------------
(***************************************************************************)
(* The way of a profile to the zstd encoder: _hdiff_args and _zstd_args    *)
(* (src/pyhdiff/__init__.py), the parsing of arguments (_native.c), the    *)
(* ranges of bridge.cpp, and the parameters that zstd_encode and the       *)
(* compress plugin of hdiff_encode set, with the window and the            *)
(* long-distance matching (LDM) values that zstd_encode derives.  One      *)
(* behaviour is one call, with sizes within the limits (see ZstdEncode).   *)
(*                                                                         *)
(* A call is a record: kind, the function called; o, its profile, with one *)
(* field for each int of the struct Options except workers (always 0); bn  *)
(* and tn, the sizes of base and target.                                   *)
(***************************************************************************)
EXTENDS Integers, FiniteSets

CONSTANTS Calls,
          Advices,  \* what zstd may recommend for a level and the sizes
          INT_MAX   \* the largest C int, scaled down; beyond every range

PHD_RAW_MAX == 2^28
WINDOW_LOG_MAX == 30   \* PHD_ZSTD_WINDOW_LOG_MAX
HDIFF_WINDOW_LOG_MAX == 23
FAST_BLOCK_MAX == 1048576
STEP_MAX == 262144

Kinds == {"hdiff", "zstd", "compress"}
_LDM == [auto |-> 0, on |-> 1, off |-> 2]

Fields == {"level", "window_log", "content_size", "checksum", "match_score", "fast_block_bytes",
           "step_bytes", "ldm_hash_log", "ldm_min_match", "ldm_bucket_log", "ldm_rate_log"}

IsCall(r) ==
    /\ r.kind \in Kinds
    /\ \A f \in Fields : r.o[f] \in Int
    /\ r.bn \in Nat /\ r.tn \in Nat
    /\ r.kind # "compress" => r.bn <= PHD_RAW_MAX /\ r.tn <= PHD_RAW_MAX
    /\ r.kind = "compress" =>   \* phd_zstd_compress fills in the rest
         /\ r.bn = 0 /\ r.o.content_size = 1
         /\ \A f \in {"ldm_hash_log", "ldm_min_match", "ldm_bucket_log", "ldm_rate_log"} : r.o[f] = 0

ASSUME CallsAssumption == \A r \in Calls : IsCall(r)
ASSUME IntAssumption == INT_MAX \in Nat /\ INT_MAX > FAST_BLOCK_MAX

VARIABLES call,       \* its function and arguments
          stage,      \* where the call is
          advice,     \* what zstd says of its level: ZSTD_getCParams and ZSTD_adjustCParams
          set,        \* the parameters set on the compressor, by name; 0 is unset
          outcome     \* "accepted", or the exception of the call; "none" before that

optionsVars == <<call, stage, advice, set, outcome>>

o == call.o
base == call.bn
target == call.tn

max(a, b) == IF a >= b THEN a ELSE b
clamp(v, low, high) == IF v < low THEN low ELSE IF v > high THEN high ELSE v
within(v, low, high) == v >= low /\ v <= high
automatic_orLess(v, low, high) == v >= 0 /\ v <= high   \* a mutant: values below the range are automatic
automatic_or(v, low, high) == v = 0 \/ within(v, low, high)
bits(n) == Cardinality({k \in 0..30 : 2^k <= n})

-------------------------------------------------------------------------------
(***************************************************************************)
(* What zstd is relied on for: the values it recommends for a level, the   *)
(* parameters it takes, and what LDM makes of those that are set.          *)
(***************************************************************************)
Advice == [chainLog : 6..30, strategy : 1..9, shrink : 0..20]
ASSUME AdvicesAssumption == Advices \subseteq Advice
btlazy2 == 6

\* ZSTD_adjustCParams makes a window smaller that both sources do not fill.
adjustedWindow(w) == max(10, w - advice.shrink)

Parameters == {"window", "ldm", "hash", "minMatch", "bucket", "rate"}
Untouched == [p \in Parameters |-> 0]

SettableZstd(p, v) ==
    CASE p = "window"   -> within(v, 10, 31)
      [] p = "ldm"      -> within(v, 0, 2)
      [] p = "hash"     -> within(v, 6, 30)
      [] p = "minMatch" -> within(v, 4, 4096)
      [] p = "bucket"   -> within(v, 1, 8)
      [] p = "rate"     -> within(v, 0, 25)

\* ZSTD_ldm_adjustParameters: an unset hash log is the window less the rate, unsigned.
EffectiveHash ==
    IF set["hash"] # 0 THEN set["hash"]
    ELSE LET filled == adjustedWindow(IF set["window"] # 0 THEN set["window"] ELSE 27)
             rateLog == IF set["rate"] # 0 THEN set["rate"] ELSE 7 - advice.strategy \div 3
         IN  IF filled < rateLog THEN 30 ELSE clamp(filled - rateLog, 6, 30)
EffectiveBucket == IF set["bucket"] > EffectiveHash THEN EffectiveHash ELSE set["bucket"]

-------------------------------------------------------------------------------
OptionsInit ==
    /\ call \in Calls
    /\ stage = "python"
    /\ advice \in Advices
    /\ set = Untouched
    /\ outcome = "none"

End(what) == stage' = "done" /\ outcome' = what

\* _zstd_args looks up ldm before anything else is looked at.
Python ==
    /\ stage = "python"
    /\ IF call.kind = "zstd" /\ o.ldm \notin DOMAIN _LDM
       THEN End("OptionError")
       ELSE stage' = "parse" /\ UNCHANGED outcome
    /\ UNCHANGED <<call, advice, set>>

ldm == IF call.kind = "zstd" THEN _LDM[o.ldm] ELSE 0

\* PyArg_ParseTuple with "i": the value must fit a C int.
Parse ==
    /\ stage = "parse"
    /\ IF \E f \in Fields : ~within(o[f], -INT_MAX - 1, INT_MAX)
       THEN End("OverflowError")
       ELSE stage' = "check" /\ UNCHANGED outcome
    /\ UNCHANGED <<call, advice, set>>

hdiff_options ==
    /\ within(o.match_score, 0, 64)
    /\ within(o.level, 1, 22)
    /\ within(o.window_log, 10, HDIFF_WINDOW_LOG_MAX)
    /\ automatic_or(o.fast_block_bytes, 4, FAST_BLOCK_MAX)
    /\ within(o.step_bytes, 4096, STEP_MAX)
    /\ within(o.content_size, 0, 1) /\ within(o.checksum, 0, 1)

Tunings == {o.ldm_hash_log, o.ldm_min_match, o.ldm_bucket_log, o.ldm_rate_log}

InRange ==
    /\ within(o.level, 1, 22)
    /\ automatic_or(o.window_log, 10, WINDOW_LOG_MAX)
    /\ within(ldm, 0, 2) /\ within(o.content_size, 0, 1) /\ within(o.checksum, 0, 1)
    /\ automatic_or(o.ldm_hash_log, 6, 23)
    /\ automatic_or(o.ldm_min_match, 4, 4096)
    /\ automatic_or(o.ldm_bucket_log, 1, 8)
    /\ automatic_or(o.ldm_rate_log, 1, 24)

zstd_options ==
    /\ InRange
    /\ o.ldm_hash_log # 0 => o.ldm_bucket_log <= o.ldm_hash_log
    /\ ldm = 1 \/ Tunings = {0}

Check ==
    /\ stage = "check"
    /\ IF IF call.kind = "hdiff" THEN hdiff_options ELSE zstd_options
       THEN stage' = "set" /\ UNCHANGED outcome
       ELSE End("OptionError")
    /\ UNCHANGED <<call, advice, set>>

(***************************************************************************)
(* The first lines of zstd_encode.  phd_zstd_compress is zstd_encode       *)
(* without a base.                                                         *)
(***************************************************************************)
Automatic == base > 0 /\ o.window_log = 0

windowNarrow == IF Automatic THEN clamp(bits(target) - 1, 10, 30) ELSE o.window_log   \* a mutant
window == IF Automatic THEN clamp(bits(target), 10, 30) ELSE o.window_log

Outgrows == bits(target) > advice.chainLog - (IF advice.strategy >= btlazy2 THEN 1 ELSE 0)

useLdm == IF base > 0 /\ ldm = 0 /\ (Automatic => Outgrows) THEN 1 ELSE ldm

logRate == IF o.ldm_rate_log # 0 THEN o.ldm_rate_log ELSE 7 - advice.strategy \div 3
derivedHash(w) == max(o.ldm_bucket_log, clamp(adjustedWindow(w) - logRate, 6, 30))

hashLogBucketOnly ==   \* a mutant: left to zstd when only the rate is given
    IF o.ldm_hash_log = 0 /\ o.ldm_bucket_log # 0
    THEN derivedHash(IF window # 0 THEN window ELSE 27) ELSE o.ldm_hash_log
hashLogNoBucket ==     \* a mutant: the bucket does not count
    IF o.ldm_hash_log = 0 /\ (o.ldm_bucket_log # 0 \/ o.ldm_rate_log # 0)
    THEN clamp(adjustedWindow(IF window # 0 THEN window ELSE 27) - logRate, 6, 30)
    ELSE o.ldm_hash_log
hashLog ==
    IF o.ldm_hash_log = 0 /\ (o.ldm_bucket_log # 0 \/ o.ldm_rate_log # 0)
    THEN derivedHash(IF window # 0 THEN window ELSE 27)
    ELSE o.ldm_hash_log

Derived == [window |-> window, ldm |-> useLdm, hash |-> hashLog,
            minMatch |-> o.ldm_min_match, bucket |-> o.ldm_bucket_log, rate |-> o.ldm_rate_log]

\* The compress plugin sets the window; LDM is left to zstd.
Plugin == [Untouched EXCEPT !["window"] = o.window_log]

Set ==
    /\ stage = "set"
    /\ LET wanted == IF call.kind = "hdiff" THEN Plugin ELSE Derived
       IN  IF \A p \in Parameters : wanted[p] # 0 => SettableZstd(p, wanted[p])
           THEN set' = wanted /\ End("accepted")
           ELSE End("NativeError") /\ UNCHANGED set
    /\ UNCHANGED <<call, advice>>

OptionsNext == Python \/ Parse \/ Check \/ Set

OptionsSpec == OptionsInit /\ [][OptionsNext]_optionsVars

-------------------------------------------------------------------------------
(***************************************************************************)
(* Properties                                                              *)
(***************************************************************************)

\* A profile that passes the checks is never refused by zstd, whatever is derived from
\* it: no combination of accepted values ends as an internal failure.
NeverRefusedByZstd == outcome # "NativeError"

\* An explicit bucket size is honoured even for very small sources.
BucketHonoured == outcome = "accepted" => EffectiveBucket = set["bucket"]

\* The LDM hash table is never larger than its window unless it is asked for: the
\* rate cannot make the difference of window and rate wrap around.
TableWithinWindow ==
    (outcome = "accepted" /\ call.kind # "hdiff" /\ set["ldm"] = 1 /\ o.ldm_hash_log = 0) =>
        EffectiveHash <= max(10, IF set["window"] # 0 THEN set["window"] ELSE 27)

\* With a base and an automatic window the window holds the whole target, down to the
\* sizes that are powers of two, so the base stays within reach to its last byte.
WindowHoldsTarget == outcome = "accepted" /\ Automatic /\ call.kind = "zstd" => target < 2^set["window"]

===============================================================================
