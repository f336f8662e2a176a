------------------------------- MODULE MCPythonApi -------------------------------
(***************************************************************************)
(* A thread that asks for everything, on values and on two shared buffers, *)
(* and a thread that writes to the buffers.                                *)
(***************************************************************************)
EXTENDS PythonApi, TLC

CONSTANTS t1, t2, a, b, c, content, blob

MCThreads == {t1, t2}

MCContents == {empty, a, b, c}
MCLength == [v \in MCContents |-> CASE v = empty -> 0 [] v = c -> 3 [] OTHER -> 1]

delta == Payload(HDIFF, a, b, TRUE)
good == Envelope(HDIFF, a, b, delta)
wrong == [good EXCEPT !.payload.target = a]

\* Envelopes that lie about one thing each, and bytes that are none.
Forged ==
    {[good EXCEPT !.header.magic = "JUNK"],
     [good EXCEPT !.header.format_version = 2],
     [good EXCEPT !.header.codec = 3],
     [good EXCEPT !.header.reserved = 1],
     [good EXCEPT !.header.payload_length = 2],
     [good EXCEPT !.header.base_length = 0],
     [good EXCEPT !.header.target_length = 3],
     [good EXCEPT !.header.codec = ZSTD],
     [good EXCEPT !.payload = Junk],
     [good EXCEPT !.payload.base = b],
     wrong}

Blobs == {good, Envelope(ZSTD, empty, a, Payload(ZSTD, empty, a, FALSE)), Blob(Short, delta)} \cup Forged

MCWritten ==
    (content :> {a, b}) @@ (blob :> {good, wrong, Blob(Short, delta)})

Ask(op, codec, bound, bs, os) ==
    {[req |-> Request(op, codec, bound), base |-> x, other |-> y] : x \in bs, y \in os}

NoBase == {Bytes(empty)}   \* no base
Bases == {Bytes(a), Buffer(content)}
Targets == {Bytes(empty), Buffer(content)}
Refused(x) == {<<Text, x>>, <<x, Text>>, <<Bytes(c), x>>, <<x, Bytes(c)>>}
Frames == {Bytes(Blob(Short, Frame(a))), Bytes(Blob(Short, Payload(ZSTD, empty, a, FALSE))), Buffer(blob)}

Everything ==
    UNION {
        UNION {Ask(op, codec, 0, Bases, Targets) : op \in {"encode_delta", "raw_encode"}, codec \in Codecs},
        UNION {{[req |-> Request(op, HDIFF, 0), base |-> p[1], other |-> p[2]] : p \in Refused(Bytes(a))} :
                  op \in {"encode_delta", "raw_encode"}},
        Ask("encode_delta", None, 0, Bases, Targets),
        UNION {Ask("encode_base", codec, 0, NoBase, Targets) : codec \in Codecs},
        UNION {Ask("apply", None, n, Bases, {Bytes(x) : x \in Blobs} \cup {Buffer(blob), Text}) : n \in {0, 1}},
        Ask("apply", None, 3, {Bytes(c)}, {Bytes(x) : x \in Forged}),
        Ask("inspect", None, 0, NoBase, {Bytes(x) : x \in Blobs} \cup {Buffer(blob), Text}),
        UNION {Ask("raw_apply", codec, n, Bases, Frames) : codec \in Codecs, n \in {-1, 1, 2}},
        Ask("compress", ZSTD, 0, NoBase, Targets \cup {Bytes(c), Text}),
        UNION {Ask("decompress", ZSTD, n, NoBase, Frames) : n \in {-1, 0, 1, 3}}}

MCRequests ==
    [t \in MCThreads |-> IF t = t1 THEN Everything ELSE {}]
===============================================================================
