---------------------------------- MODULE Phdf ----------------------------------
(***************************************************************************)
(* The values that pass through the Python API (src/pyhdiff/__init__.py    *)
(* and raw.py): contents, payloads, envelopes, the objects that hold them  *)
(* and the outcomes of calls.                                              *)
(*                                                                         *)
(* A CONTENT is what a base or a target holds.  Its SHA-256 digest is      *)
(* taken to be the content itself: digests are assumed not to collide.     *)
(* A PAYLOAD is what an encoder made, by what went into it, or Junk; the   *)
(* codec writes the content size into it or not.  A BLOB is a header and a *)
(* payload: an envelope, or bytes too Short to have a header, such as a    *)
(* payload by itself.                                                      *)
(***************************************************************************)
EXTENDS Integers

CONSTANTS Contents,         \* the contents of bases and targets
          empty,            \* the content of no bytes
          Length,           \* the length of each content
          RAW_MAX,
          FRAME_MAX,
          None

ASSUME ContentsAssumption ==
    empty \in Contents /\ None \notin Contents /\ Length \in [Contents -> Nat] /\ Length[empty] = 0
ASSUME MaximaAssumption == RAW_MAX \in Nat /\ FRAME_MAX \in Nat /\ RAW_MAX <= FRAME_MAX

HDIFF == 1
ZSTD == 2
Codecs == {HDIFF, ZSTD}
ASSUME CodecsAssumption == None \notin Codecs

MAGIC == "PHDF"
FORMAT_VERSION == 1

-------------------------------------------------------------------------------
(***************************************************************************)
(* Payloads and envelopes.                                                 *)
(***************************************************************************)
Payload(codec, b, t, sized) == [codec |-> codec, base |-> b, target |-> t, sized |-> sized]
Junk == Payload(None, None, None, FALSE)

\* The frame compress makes: it records the size of its content.
Frame(v) == Payload(ZSTD, empty, v, TRUE)

\* Payloads count as one unit of length.
PayloadLength == 1

Header(codec, b, t) ==
    [magic |-> MAGIC, format_version |-> FORMAT_VERSION, codec |-> codec, reserved |-> 0,
     base_length |-> Length[b], target_length |-> Length[t], payload_length |-> PayloadLength,
     base_sha256 |-> b, target_sha256 |-> t]

Short == None

Blob(header, payload) == [header |-> header, payload |-> payload]
Envelope(codec, b, t, payload) == Blob(Header(codec, b, t), payload)

WellFormed(header) ==
    /\ header # Short
    /\ header.magic = MAGIC
    /\ header.format_version = FORMAT_VERSION
    /\ header.codec \in Codecs
    /\ header.reserved = 0
    /\ header.payload_length = PayloadLength

\* What bytes can be, read as a payload or as a blob: lengths are unsigned numbers.
IsPayload(p) ==
    \/ p = Junk
    \/ \E codec \in Codecs, b, t \in Contents, sized \in BOOLEAN : p = Payload(codec, b, t, sized)

IsBlob(x) ==
    /\ x = Blob(x.header, x.payload)
    /\ IsPayload(x.payload)
    /\ x.header # Short => x.header.base_length \in Nat /\ x.header.target_length \in Nat

\* The blob is what the encoders of the envelope API make of some contents.
Genuine(blob) ==
    /\ WellFormed(blob.header)
    /\ LET h == blob.header
           p == blob.payload
       IN  /\ p = Payload(h.codec, h.base_sha256, h.target_sha256, p.sized)
           /\ h.base_length = Length[h.base_sha256] /\ h.base_length <= RAW_MAX
           /\ h.target_length = Length[h.target_sha256] /\ h.target_length <= RAW_MAX

-------------------------------------------------------------------------------
(***************************************************************************)
(* Objects, requests and outcomes.  An object is bytes, with its value; a  *)
(* mutable buffer, with its name; or Text, which is not bytes-like.  A     *)
(* request names the operation, the codec its profile selects (None for an *)
(* object that is no profile) and the bound on the output.                 *)
(***************************************************************************)
Bytes(v) == [mutable |-> FALSE, value |-> v]
Buffer(b) == [mutable |-> TRUE, value |-> b]
Text == Bytes(None)

Request(op, codec, bound) == [op |-> op, codec |-> codec, bound |-> bound]

NoCall == [idle |-> TRUE]          \* instead of a call, where there is none
NoAnswer == [pending |-> TRUE]     \* instead of an outcome, before there is one

Envelopers == {"encode_delta", "encode_base"}
Encoders == Envelopers \cup {"raw_encode", "compress"}
Appliers == {"apply", "raw_apply"}
WithBase == {"encode_delta", "encode_base", "apply", "raw_encode", "raw_apply"}

Operations == Encoders \cup Appliers \cup {"inspect", "decompress"}

Returned(v) == [returned |-> v]
Raised(e) == [raised |-> e]

min(a, b) == IF a <= b THEN a ELSE b
When(p, S) == IF p THEN S ELSE {}
===============================================================================
