-------------------------------- MODULE Encoder --------------------------------
(***************************************************************************)
(* phd_zstd_encode and phd_zstd_compress as a whole: the way of a profile  *)
(* through its checks (EncoderOptions), then zstd_encode, which checks the *)
(* sizes, creates a compressor, sets the parameters on it and runs the     *)
(* loop (ZstdEncode).  A call with an HDiffPatch profile ends here with    *)
(* the parameters of the plugin; its loop is HdiffEncode's.                *)
(***************************************************************************)
EXTENDS EncoderOptions, ZstdEncode

CONSTANTS Arguments,    \* records of calls, advices zstd may have for them, and requests
          ENCODED_MAX   \* a bound: the loop is followed for targets up to this size

encoderVars == <<optionsVars, vars>>

\* Both parts get the buffers of the call.
SameSizes == request.base = base /\ tn = target

EncoderInit ==
    /\ \E a \in Arguments : call \in a.calls /\ advice \in a.advices /\ request \in a.requests
    /\ SameSizes
    /\ OptionsInit /\ Init

IsZstd == call.kind # "hdiff"

\* The sizes are checked and the compressor is created after the profile's checks.
Create == IsZstd /\ stage = "set" /\ Begin /\ UNCHANGED optionsVars

\* Parameters are set on the compressor; a refusal ends the call and frees it.
SetParameters ==
    /\ Set
    /\ IsZstd => pc = "encode"
    /\ IF IsZstd /\ outcome' # "accepted"
       THEN Throw("ZSTD") /\ UNCHANGED <<request, ctx, pos, ib, encoded>>
       ELSE UNCHANGED vars

\* The loop runs with all parameters set.
Ready == IsZstd /\ outcome = "accepted" /\ target <= ENCODED_MAX /\ UNCHANGED optionsVars

EncoderNext ==
    \/ Python /\ UNCHANGED vars
    \/ Parse /\ UNCHANGED vars
    \/ Check /\ UNCHANGED vars
    \/ Create
    \/ SetParameters
    \/ Ready /\ Encode
    \/ Ready /\ EncodeFails
    \/ Ready /\ Release

EncoderSpec == EncoderInit /\ [][EncoderNext]_encoderVars /\ WF_encoderVars(EncoderNext)

-------------------------------------------------------------------------------
(***************************************************************************)
(* Properties                                                              *)
(***************************************************************************)
Returned ==
    \/ pc = "done"
    \/ stage = "done" /\ outcome # "accepted"
    \/ outcome = "accepted" /\ (~IsZstd \/ target > ENCODED_MAX)   \* not followed further

\* Every call returns, with an error or with its frame, for empty targets and targets
\* that end with a chunk too.
Termination == <>Returned
===============================================================================
