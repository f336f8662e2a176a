----------------------------- MODULE ZstdCompressor -----------------------------
(***************************************************************************)
(* What src/native/bridge.cpp relies on from zstd's streaming compressor,  *)
(* ZSTD_compressStream2 with a pledged source size: a contract, as zstd is *)
(* a library outside this repository.                                      *)
(*                                                                         *)
(* A frame f is a record: source, the pledged size, and size, the bytes    *)
(* its compressed form has, at least one.  A compressor is a record: taken *)
(* bytes of the source, and flushed bytes of the frame.                    *)
(***************************************************************************)
EXTENDS Integers

IsFrame(f) == f.source \in Nat /\ f.size \in Nat \ {0}

Unused == [taken |-> 0, flushed |-> 0]

\* The bytes that close a frame appear only when its end is asked for.
Continued(f, r) == r.ret = "more" /\ r.flushed < f.size
Ended(f, r, avail) == r.ret = "done" /\ r.taken = avail /\ r.flushed = f.size
Unfinished(f, r, full) == r.ret = "more" /\ r.flushed = full /\ r.flushed < f.size

(***************************************************************************)
(* One call, with the source up to avail as input and room bytes of        *)
(* output.  It stops when the output is full or, unless the end of the     *)
(* frame is asked for, when the input is taken.  "done" is the return      *)
(* value 0 of a call that ends the frame, "more" any other size; the       *)
(* others are zstd error codes.  It allocates only while it takes input.   *)
(***************************************************************************)
CompressStream(f, c, avail, room, end) ==
    {r \in [taken   : c.taken..avail,
            flushed : c.flushed..(c.flushed + room),
            ret     : {"done", "more", "wrong", "memory"}] :
        \/ /\ end /\ avail = f.source
           /\ Ended(f, r, avail) \/ Unfinished(f, r, c.flushed + room)
        \/ /\ ~end /\ avail <= f.source
           /\ Continued(f, r)
           /\ r.taken = avail \/ r.flushed = c.flushed + room
        \/ /\ r.taken = c.taken /\ r.flushed = c.flushed
           /\ \/ r.ret = "wrong" /\ (avail > f.source \/ (end /\ avail # f.source))
              \/ r.ret = "memory" /\ c.taken < avail}
===============================================================================
