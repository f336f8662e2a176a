------------------------------- MODULE MCEncoder -------------------------------
(***************************************************************************)
(* For the profile: sizes around the powers of two that matter, the        *)
(* boundary values of every range alone, and all combinations of the       *)
(* values that interact: the window and LDM.  For the loop: targets of up  *)
(* to three and a half chunks whose frames take up to five and a half      *)
(* pieces, with every limit around their sizes.                            *)
(***************************************************************************)
EXTENDS Encoder

Zero == [level |-> 3, window_log |-> 0, content_size |-> 1, checksum |-> 1, match_score |-> 0,
         fast_block_bytes |-> 0, step_bytes |-> 0, ldm |-> "auto", ldm_hash_log |-> 0,
         ldm_min_match |-> 0, ldm_bucket_log |-> 0, ldm_rate_log |-> 0]
HDiffProfile == [Zero EXCEPT !.match_score = 6, !.level = 19, !.window_log = 23,
                             !.fast_block_bytes = 1024, !.step_bytes = 262144, !.checksum = 0]

Edges(low, high) == {low - 1, low, high, high + 1}
Beyond == {INT_MAX, INT_MAX + 1, -INT_MAX - 1, -INT_MAX - 2}

One(profile, f, values) == {[profile EXCEPT ![f] = v] : v \in values \union Beyond}

HDiffProfiles ==
    {HDiffProfile}
    \union One(HDiffProfile, "match_score", Edges(0, 64))
    \union One(HDiffProfile, "level", Edges(1, 22))
    \union One(HDiffProfile, "window_log", Edges(10, 23))
    \union One(HDiffProfile, "fast_block_bytes", Edges(4, 1048576) \union {-1, 0, 1})
    \union One(HDiffProfile, "step_bytes", Edges(4096, 262144))
ZstdEdges ==
    One(Zero, "level", Edges(1, 22))
    \union One(Zero, "window_log", Edges(10, 30))
    \union One([Zero EXCEPT !.ldm = "on"], "ldm_min_match", Edges(4, 4096))
    \union One([Zero EXCEPT !.ldm = "on"], "ldm_rate_log", Edges(1, 24))
    \union One([Zero EXCEPT !.ldm = "on"], "ldm_hash_log", Edges(6, 23))
    \union One([Zero EXCEPT !.ldm = "on"], "ldm_bucket_log", Edges(1, 8))
    \union {[Zero EXCEPT !.ldm_min_match = 4], [Zero EXCEPT !.ldm = "maybe"]}
\* The values that interact.
ZstdProfiles ==
    {[Zero EXCEPT !.window_log = w, !.ldm = l, !.ldm_hash_log = h,
                         !.ldm_bucket_log = b, !.ldm_rate_log = r] :
               w \in {0, 10, 23, 30}, l \in {"auto", "on", "off"},
               h \in {0, 6, 23}, b \in {0, 1, 7, 8}, r \in {0, 1, 24}}
CompressProfiles == One(Zero, "level", Edges(1, 22)) \union One(Zero, "window_log", Edges(10, 30))

Call(kind, profiles, bases, targets) == [kind : {kind}, o : profiles, bn : bases, tn : targets]
EdgeCalls(b, t) ==
    Call("hdiff", HDiffProfiles, {b}, {t})
    \union Call("zstd", ZstdEdges, {b}, {t})
    \union Call("compress", CompressProfiles, {b} \intersect {0}, {t})
MCAdvices == [chainLog : {6, 13, 29}, strategy : {1, 5, 6, 9}, shrink : {0, 20}]
Advice1 == [chainLog : {13}, strategy : {5}, shrink : {0}]

\* A request that fits, of the call's sizes.
Roomy(b, t) ==
    [base |-> b, frame |-> [source |-> t, size |-> 3], limits |-> [input |-> 2^28, output |-> 3]]

LoopRequests(b, t) ==
    [base : {b}, frame : [source : {t}, size : 1..11],
     limits : [input : {6, 9}, output : {0, 1, 4, 8, 10, 11}]]

ForEdges ==
    {[calls |-> EdgeCalls(b, t), advices |-> Advice1, requests |-> {Roomy(b, t)}] :
        b \in {0, 1}, t \in {0, 5, 2^28}}
ForProfiles ==
    {[calls |-> Call("zstd", ZstdProfiles, {b}, {t}), advices |-> MCAdvices, requests |-> {Roomy(b, t)}] :
        b \in {0, 1}, t \in {0, 1, 1023, 1024, 4095, 4096, 2^22, 2^28}}
ForLoop ==
    {[calls |-> Call("zstd", {Zero}, {b}, {t}), advices |-> Advice1, requests |-> LoopRequests(b, t)] :
        b \in {0, RAW_MAX + 1}, t \in 0..7}

MCArguments == ForEdges \union ForProfiles \union ForLoop
MCCalls == UNION {a.calls : a \in MCArguments}
MCRequests == UNION {a.requests : a \in MCArguments}
===============================================================================
