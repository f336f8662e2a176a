---------------------------- MODULE HdiffEncodeProofs ----------------------------
(***************************************************************************)
(* Proofs about HdiffEncode: whatever HDiffPatch writes, for any sizes of  *)
(* what the plugin passes on.                                              *)
(***************************************************************************)
EXTENDS HdiffEncode, TLAPS

Cells == 0..(PAYLOAD_MAX - 1)

Types ==
    /\ request \in Requests
    /\ pc \in {"start", "hdiff", "read", "feed", "done"}
    /\ size \in 0..PAYLOAD_MAX /\ capacity \in Nat /\ writes \in 0..MaxWrites
    /\ DOMAIN cells = Cells
    /\ offset \in 0..size /\ read \in 0..frame.source
    /\ ctx \in [taken : 0..frame.source, flushed : Nat]

\* Before the plugin runs it has done nothing.  While it runs, what it wrote stands where
\* HDiffPatch wants it, and the frame is not at its end.
PluginInv ==
    /\ pc = "start" => returned = NotYet
    /\ returned = NotYet /\ pc \in {"start", "hdiff"} =>
          read = 0 /\ ctx = Unused /\ written = 0
    /\ pc \in {"read", "feed"} =>
          /\ returned = NotYet
          /\ ctx.taken <= read
          /\ written = ctx.flushed /\ written < frame.size /\ written <= request.room
          /\ offset + written <= size
          /\ \A i \in 0..(written - 1) : cells[offset + i] = i

\* The bytes written so far are the beginning of the block, without a gap (NoGarbage).
Inv == Types /\ NoGarbage /\ PluginInv

LEMMA RequestType ==
    ASSUME request \in Requests
    PROVE  frame.source \in Nat /\ frame.size \in Nat \ {0} /\ request.room \in Nat
  BY RequestsAssumption DEF IsRequest, IsFrame, frame

LEMMA Turn ==
    ASSUME Types, PluginInv, pc = "feed", NEW r \in Outcomes
    PROVE  /\ r.taken \in ctx.taken..read /\ r.flushed \in ctx.flushed..(ctx.flushed + PIECE)
           /\ Failed(r) => r.ret \in {"wrong", "memory"}
           /\ r.ret = "done" => last /\ r.taken = read /\ r.flushed = frame.size
           /\ r.ret = "more" => r.flushed < frame.size
  BY RequestType
     DEF Outcomes, CompressStream, Continued, Ended, Unfinished, Failed, last,
         Types, PluginInv

\* A write leaves no gap, stays in the block and changes nothing beside it.
LEMMA WriteKeeps ==
    ASSUME Types, NoGarbage,
           NEW start \in Nat, NEW n \in Nat, NEW from, from \in Nat \/ from = Patch,
           Write(start, n, from)
    PROVE  /\ NoGarbage' /\ size' \in 0..PAYLOAD_MAX /\ capacity' \in Nat /\ DOMAIN cells' = Cells
           /\ size <= size' /\ start + n <= size'
           /\ \A i \in Cells : cells'[i] = IF start <= i /\ i < start + n
                                             THEN IF from = Patch THEN Patch ELSE from + (i - start)
                                             ELSE cells[i]
<1>1. /\ PAYLOAD_MAX \in Nat /\ size \in Nat /\ capacity \in Nat
      /\ size <= capacity /\ size <= PAYLOAD_MAX
  BY LimitsAssumption DEF Types, NoGarbage
<1>2. /\ start + n <= PAYLOAD_MAX /\ start <= size
      /\ size' = IF size >= start + n THEN size ELSE start + n
  BY <1>1 DEF Write, InLimit, InOrder, max
<1>3. size' \in 0..PAYLOAD_MAX /\ size <= size' /\ start + n <= size'
  BY <1>1, <1>2
<1>4. capacity' \in Nat /\ size' <= capacity'
  <2>1. PICK finish, more : finish = size' /\ more = capacity + capacity \div 2
    OBVIOUS
  <2>2. finish \in Nat /\ more \in Nat
    BY <1>1, <1>3, <2>1
  <2>3. capacity' = IF capacity - size < finish - size
                    THEN (IF finish >= more THEN finish ELSE more) ELSE capacity
    BY <2>1 DEF Write, Grown, max
  <2>4. (IF capacity - size < finish - size
         THEN (IF finish >= more THEN finish ELSE more) ELSE capacity) \in Nat
    BY <1>1, <2>2
  <2>5. finish <= IF capacity - size < finish - size
                  THEN (IF finish >= more THEN finish ELSE more) ELSE capacity
    BY <1>1, <2>2
  <2> QED
    BY <2>1, <2>3, <2>4, <2>5
<1>5. /\ DOMAIN cells' = Cells
      /\ \A i \in Cells : cells'[i] = IF start <= i /\ i < start + n
                                        THEN IF from = Patch THEN Patch ELSE from + (i - start)
                                        ELSE cells[i]
  BY DEF Write, Types
<1>6. ASSUME NEW i \in Cells PROVE cells'[i] # Uninitialized <=> i < size'
  <2>1. i \in Nat /\ (cells[i] # Uninitialized <=> i < size)
    BY <1>1 DEF Cells, NoGarbage, Types
  <2>2. CASE start <= i /\ i < start + n
    BY <1>1, <1>3, <1>5, <2>1, <2>2 DEF Patch, Uninitialized
  <2>3. CASE ~(start <= i /\ i < start + n)
    BY <1>1, <1>2, <1>3, <1>5, <2>1, <2>3
  <2> QED
    BY <2>2, <2>3
<1> QED
  BY <1>3, <1>4, <1>5, <1>6 DEF NoGarbage

LEMMA Initial == Init => Inv
<1> SUFFICES ASSUME Init PROVE Inv
  OBVIOUS
<1>1. Types
  BY RequestType, LimitsAssumption DEF Init, Types, Unused, Cells
<1>2. NoGarbage
  BY <1>1 DEF Init, NoGarbage, Uninitialized
<1> QED
  BY <1>1, <1>2 DEF Init, Inv, PluginInv, NotYet

LEMMA BeginStep == ASSUME Inv, Begin PROVE Inv'
  BY DEF Begin, Throw, Goto, buffer, plugin, Inv, Types, NoGarbage,
         PluginInv, frame, Cells, NotYet

LEMMA HdiffWriteStep == ASSUME Inv, HdiffWrite PROVE Inv'
<1>1. PICK p \in Places :
        \/ Write(p[1], p[2], Patch) /\ UNCHANGED <<pc, result>>
        \/ WriteFails(p[1], p[2]) /\ UNCHANGED buffer
  BY DEF HdiffWrite
<1>2. /\ p[1] \in Nat /\ p[2] \in Nat /\ pc = "hdiff" /\ UNCHANGED <<request, plugin>>
      /\ writes' \in 0..MaxWrites
  BY LimitsAssumption DEF Places, HdiffWrite, Inv, Types
<1>3. CASE Write(p[1], p[2], Patch) /\ UNCHANGED <<pc, result>>
  BY <1>2, <1>3, WriteKeeps DEF Inv, Types, PluginInv, plugin, frame, Cells
<1>4. CASE WriteFails(p[1], p[2]) /\ UNCHANGED buffer
  BY <1>2, <1>4
     DEF WriteFails, Throw, Inv, Types, PluginInv, NoGarbage, plugin, buffer,
         frame, Cells
<1> QED
  BY <1>1, <1>3, <1>4

LEMMA HdiffEndsStep == ASSUME Inv, HdiffFails \/ HdiffReturns PROVE Inv'
<1>1. /\ pc' = "done" /\ UNCHANGED <<request, size, cells, writes, plugin>>
      /\ capacity' = capacity \/ capacity' = max(capacity, 1)
  BY DEF HdiffFails, HdiffReturns, Throw, buffer
<1>2. capacity \in Nat /\ size \in Nat /\ size <= capacity
  BY DEF Inv, Types, NoGarbage
<1>3. capacity' \in Nat /\ size' <= capacity'
  BY <1>1, <1>2 DEF max
<1>4. Types' /\ PluginInv'
  BY <1>1, <1>3 DEF Inv, Types, PluginInv, plugin, frame, Cells
<1>5. NoGarbage'
  BY <1>1, <1>3 DEF Inv, NoGarbage
<1> QED
  BY <1>4, <1>5 DEF Inv

LEMMA CompressStep == ASSUME Inv, Compress PROVE Inv'
<1>1. /\ UNCHANGED <<request, buffer, writes, read, ctx, written, returned>>
      /\ pc = "hdiff" /\ returned = NotYet
  BY DEF Compress
<1>2. /\ frame.size \in Nat \ {0} /\ request.room \in Nat /\ size \in Nat
      /\ read = 0 /\ ctx = Unused /\ written = 0
  BY <1>1, RequestType, LimitsAssumption DEF Inv, Types, PluginInv
<1>3. CASE Goto("read") /\ offset' \in 0..size
  <2>1. PICK at \in 0..size : offset' = at
    BY <1>3
  <2>2. /\ pc' = "read" /\ UNCHANGED <<size, capacity, cells, frame, request>>
        /\ written' = 0 /\ ctx'.taken = 0 /\ ctx'.flushed = 0 /\ read' = 0 /\ returned' = NotYet
    BY <1>1, <1>2, <1>3 DEF Goto, buffer, frame, Unused
  <2>3. at + 0 <= size /\ 0 < frame.size /\ 0 <= request.room
    BY <1>2, <2>1
  <2>4. PluginInv'
    BY <2>1, <2>2, <2>3 DEF PluginInv
  <2> QED
    BY <1>1, <1>3, <2>2, <2>4 DEF Inv, Types, NoGarbage, Cells
<1>4. CASE Throw("ALLOC") /\ UNCHANGED offset
  BY <1>1, <1>4 DEF Throw, buffer, Inv, Types, NoGarbage, PluginInv, frame, Cells
<1> QED
  BY <1>3, <1>4 DEF Compress

LEMMA ReadStep == ASSUME Inv, Read PROVE Inv'
<1>1. UNCHANGED <<request, buffer, writes, offset, ctx, written, returned>> /\ pc = "read"
  BY DEF Read
<1>2. CASE Goto("feed") /\ read' = read + min(CHUNK, frame.source - read)
  <2>1. read' \in 0..frame.source /\ read <= read'
    BY <1>1, <1>2, RequestType, LimitsAssumption DEF Inv, Types, min
  <2>2. ctx.taken <= read' /\ ctx.taken \in 0..frame.source
    BY <1>1, <2>1, RequestType DEF Inv, Types, PluginInv
  <2> QED
    BY <1>1, <1>2, <2>1, <2>2
       DEF Goto, buffer, Inv, Types, NoGarbage, PluginInv, frame, Cells
<1>3. CASE Throw("INVALID") /\ UNCHANGED read
  BY <1>1, <1>3 DEF Throw, buffer, Inv, Types, NoGarbage, PluginInv, frame, Cells
<1> QED
  BY <1>2, <1>3 DEF Read

\* The plugin's output goes on where it ended.
LEMMA Fed ==
    ASSUME Inv, pc = "feed", NEW r \in Outcomes, ~Failed(r), ~Refused(r),
           Write(offset + written, produced(r), ctx.flushed)
    PROVE  /\ NoGarbage' /\ size' \in 0..PAYLOAD_MAX /\ capacity' \in Nat /\ DOMAIN cells' = Cells
           /\ offset \in 0..size' /\ written + produced(r) = r.flushed
           /\ r.flushed \in Nat /\ r.flushed <= frame.size /\ r.flushed <= request.room
           /\ offset + r.flushed <= size'
           /\ \A i \in 0..(r.flushed - 1) : cells'[offset + i] = i
<1>1. /\ offset \in Nat /\ size \in 0..PAYLOAD_MAX /\ PAYLOAD_MAX \in Nat /\ offset <= size
      /\ written = ctx.flushed /\ written \in Nat /\ offset + written <= size
      /\ \A i \in 0..(written - 1) : cells[offset + i] = i
  BY LimitsAssumption DEF Inv, Types, PluginInv
<1>2. /\ r.flushed \in Nat /\ written <= r.flushed /\ r.flushed <= frame.size
      /\ frame.size \in Nat /\ request.room \in Nat
  BY <1>1, Turn, RequestType, LimitsAssumption DEF Inv, Types, Failed
<1>3. produced(r) \in Nat /\ written + produced(r) = r.flushed /\ r.flushed <= request.room
  BY <1>1, <1>2 DEF produced, Refused
<1>4. offset + written \in Nat /\ (offset + written) + produced(r) = offset + r.flushed
  BY <1>1, <1>2, <1>3
<1>5. /\ NoGarbage' /\ size' \in 0..PAYLOAD_MAX /\ capacity' \in Nat /\ DOMAIN cells' = Cells
      /\ size <= size' /\ offset + r.flushed <= size'
      /\ \A i \in Cells : cells'[i] = IF offset + written <= i /\ i < offset + r.flushed
                                        THEN IF ctx.flushed = Patch THEN Patch
                                             ELSE ctx.flushed + (i - (offset + written))
                                        ELSE cells[i]
  BY <1>1, <1>3, <1>4, WriteKeeps DEF Inv
<1>6. ASSUME NEW i \in 0..(r.flushed - 1) PROVE cells'[offset + i] = i
  <2>1. i \in Nat /\ i < r.flushed /\ offset + i \in Cells
    BY <1>1, <1>2, <1>5, <1>6 DEF Cells
  <2>2. CASE i < written
    BY <1>1, <1>2, <1>5, <2>1, <2>2
  <2>3. CASE written <= i
    BY <1>1, <1>2, <1>5, <2>1, <2>3 DEF Patch
  <2> QED
    BY <1>1, <2>1, <2>2, <2>3
<1> QED
  BY <1>1, <1>2, <1>3, <1>5, <1>6

LEMMA FeedStep == ASSUME Inv, Feed PROVE Inv'
<1>1. UNCHANGED <<request, writes, offset, read>> /\ pc = "feed" /\ frame' = frame
  BY DEF Feed, frame
<1>2. PICK r \in Outcomes :
        /\ ~Failed(r) /\ ~Refused(r)
        /\ Write(offset + written, produced(r), ctx.flushed)
        /\ ctx' = [taken |-> r.taken, flushed |-> r.flushed]
        /\ written' = written + produced(r)
        /\ \/ Again(r) /\ UNCHANGED <<pc, returned>>
           \/ ~Again(r) /\ last /\ pc' = "hdiff" /\ returned' = written'
           \/ ~Again(r) /\ ~last /\ pc' = "read" /\ UNCHANGED returned
  BY DEF Feed
<1>3. /\ NoGarbage' /\ size' \in 0..PAYLOAD_MAX /\ capacity' \in Nat /\ DOMAIN cells' = Cells
      /\ offset \in 0..size' /\ written + produced(r) = r.flushed
      /\ r.flushed \in Nat /\ r.flushed <= frame.size /\ r.flushed <= request.room
      /\ offset + r.flushed <= size'
      /\ \A i \in 0..(r.flushed - 1) : cells'[offset + i] = i
  BY <1>1, <1>2, Fed
<1>4. /\ r.taken \in 0..read /\ read \in 0..frame.source /\ frame.source \in Nat
      /\ r.ret = "more" => r.flushed < frame.size
      /\ r.ret \in {"done", "more"}
      /\ r.ret = "done" => last
      /\ request \in Requests /\ writes \in 0..MaxWrites
  BY <1>1, <1>2, Turn, RequestType DEF Inv, Types, Failed
<1>5. Types'
  <2>1. ctx' \in [taken : 0..frame.source, flushed : Nat]
    BY <1>2, <1>3, <1>4
  <2> QED
    BY <1>1, <1>2, <1>3, <1>4, <2>1 DEF Types, Cells
<1>6. PluginInv'
  <2>1. CASE pc' \in {"feed", "read"}
    <3>1. r.ret = "more" /\ returned' = returned
      BY <1>1, <1>2, <1>4, <2>1 DEF Again, last
    <3> QED
      BY <1>1, <1>2, <1>3, <1>4, <2>1, <3>1 DEF PluginInv, Inv
  <2>2. CASE pc' = "hdiff"
    BY <1>1, <1>2, <1>3, <2>2 DEF PluginInv, NotYet
  <2> QED
    BY <1>1, <1>2, <2>1, <2>2
<1> QED
  BY <1>3, <1>5, <1>6 DEF Inv

LEMMA AbandonStep == ASSUME Inv, Abandon PROVE Inv'
  BY DEF Abandon, Goto, buffer, Inv, Types, NoGarbage, PluginInv, frame, Cells,
         NotYet

LEMMA FeedFailsStep == ASSUME Inv, FeedFails PROVE Inv'
<1>1. pc' = "done" /\ UNCHANGED <<request, buffer, writes, plugin>>
  BY DEF FeedFails, WriteFails, Throw
<1> QED
  BY <1>1 DEF buffer, plugin, Inv, Types, NoGarbage, PluginInv, frame, Cells

\* Wherever HDiffPatch writes and whenever it calls the plugin.
THEOREM Invariance == Spec => []Inv
<1>1. Inv /\ [Next]_vars => Inv'
  <2> SUFFICES ASSUME Inv, [Next]_vars PROVE Inv'
    OBVIOUS
  <2>1. CASE UNCHANGED vars
    BY <2>1
       DEF vars, buffer, plugin, Inv, Types, NoGarbage, PluginInv, frame, Cells
  <2> QED
    BY <2>1, BeginStep, HdiffWriteStep, HdiffEndsStep, CompressStep, ReadStep, FeedStep,
       AbandonStep,
       FeedFailsStep DEF Next
<1> QED
  BY Initial, <1>1, PTL DEF Spec

\* BoundedOutput hands out no byte that nobody wrote, for any order of writes.
THEOREM NoByteUnwritten == Spec => []NoGarbage
<1>1. Inv => NoGarbage
  BY DEF Inv
<1> QED
  BY Invariance, <1>1, PTL

\* The plugin returns the size of a whole frame that stands where HDiffPatch wants it, or
\* zero, exactly when the frame does not fit.
THEOREM WholeFrames == Spec => WholeOrAbandoned
<1>1. ASSUME Inv, Next, pc = "feed", pc' = "hdiff"
      PROVE  IF frame.size > request.room THEN returned' = 0
             ELSE /\ returned' = frame.size
                  /\ \A i \in 0..(frame.size - 1) : cells'[offset + i] = i
  <2>1. request.room \in Nat /\ frame.size \in Nat
    BY <1>1, RequestType DEF Inv, Types
  <2>2. CASE Feed
    <3>1. PICK r \in Outcomes :
        /\ ~Failed(r) /\ ~Refused(r)
        /\ Write(offset + written, produced(r), ctx.flushed)
        /\ written' = written + produced(r)
        /\ ~Again(r) /\ last /\ returned' = written'
      BY <1>1, <2>2 DEF Feed
    <3>2. r.flushed = frame.size
      BY <1>1, <3>1, Turn DEF Again, Inv
    <3> QED
      BY <1>1, <2>1, <3>1, <3>2, Fed
  <2>3. CASE Abandon
    <3>1. PICK r \in Outcomes : ~Failed(r) /\ Refused(r)
      BY <2>3 DEF Abandon
    <3>2. /\ r.flushed \in Nat /\ r.flushed <= frame.size
          /\ written + produced(r) = r.flushed
      BY <1>1, <2>1, <3>1, Turn, LimitsAssumption
         DEF Inv, Types, PluginInv, Failed, produced
    <3> QED
      BY <2>1, <2>3, <3>1, <3>2 DEF Refused, Abandon
  <2> QED
    BY <1>1, <2>2, <2>3
       DEF Next, Begin, HdiffWrite, HdiffFails, HdiffReturns, Compress, Read,
           FeedFails, WriteFails, Throw
<1>2. Inv /\ [Next]_vars =>
          [pc = "feed" /\ pc' = "hdiff" =>
              IF frame.size > request.room THEN returned' = 0
              ELSE /\ returned' = frame.size
                   /\ \A i \in 0..(frame.size - 1) : cells'[offset + i] = i]_vars
  BY <1>1
<1> QED
  BY Invariance, <1>2, PTL DEF Spec, WholeOrAbandoned
-------------------------------------------------------------------------------
(***************************************************************************)
(* How long a call takes.                                                  *)
(***************************************************************************)

\* Steps outside the loops: a chunk that is read is fed, and the last one is the end.
Rank ==
    CASE pc = "start" -> 7 [] pc = "hdiff" -> 6 [] pc = "read" -> 4
      [] pc = "feed" -> IF last THEN 3 ELSE 5

\* What is still to be done: writes of HDiffPatch's own, and unless the plugin has returned,
\* stream to read and frame to flush.
StepsLeft ==
    IF pc = "done" THEN 0
    ELSE IF pc = "hdiff" /\ returned # NotYet THEN 1 + (MaxWrites - writes)
    ELSE Rank + (MaxWrites - writes) + 2 * (frame.source - read) + (frame.size - ctx.flushed)

LEMMA StepsLeftType ==
    ASSUME Inv
    PROVE  /\ StepsLeft \in Nat
           /\ pc # "done" => StepsLeft > 0 /\ Rank \in 3..7
           /\ MaxWrites \in Nat /\ writes \in 0..MaxWrites
           /\ frame.source \in Nat /\ read \in 0..frame.source /\ ctx.flushed \in Nat
           /\ frame.size \in Nat \ {0}
           /\ pc # "done" /\ ~(pc = "hdiff" /\ returned # NotYet) => ctx.flushed <= frame.size
<1>1. /\ MaxWrites \in Nat /\ writes \in 0..MaxWrites
      /\ frame.source \in Nat /\ read \in 0..frame.source /\ ctx.flushed \in Nat
      /\ frame.size \in Nat \ {0}
  BY RequestType, LimitsAssumption DEF Inv, Types
<1>2. ASSUME pc # "done" PROVE Rank \in 3..7
  BY <1>2 DEF Inv, Types, Rank
<1>3. ASSUME pc # "done", ~(pc = "hdiff" /\ returned # NotYet) PROVE ctx.flushed <= frame.size
  <2>1. CASE pc \in {"read", "feed"}
    BY <1>1, <2>1 DEF Inv, PluginInv
  <2>2. CASE pc = "start"
    BY <1>1, <2>2 DEF Inv, PluginInv, Unused
  <2>3. CASE pc = "hdiff" /\ returned = NotYet
    BY <1>1, <2>3 DEF Inv, PluginInv, Unused
  <2> QED
    BY <1>3, <2>1, <2>2, <2>3 DEF Inv, Types
<1>4. StepsLeft \in Nat /\ (pc # "done" => StepsLeft > 0)
  <2>1. CASE pc # "done" /\ ~(pc = "hdiff" /\ returned # NotYet)
    BY <1>1, <1>2, <1>3, <2>1 DEF StepsLeft
  <2>2. CASE pc = "done" \/ (pc = "hdiff" /\ returned # NotYet)
    BY <1>1, <2>2 DEF StepsLeft
  <2> QED
    BY <2>1, <2>2
<1> QED
  BY <1>1, <1>2, <1>3, <1>4

\* A turn that keeps the chunk fills the piece.
LEMMA FeedAdvances ==
    ASSUME Inv, Feed
    PROVE  /\ ctx.flushed <= ctx'.flushed
           /\ \/ pc' = "feed" /\ returned' = returned /\ ctx.flushed < ctx'.flushed
              \/ pc' = "read" /\ returned' = returned /\ ~last
              \/ pc' = "hdiff" /\ returned' # NotYet
<1>1. PICK r \in Outcomes :
        /\ ~Failed(r) /\ ~Refused(r)
        /\ Write(offset + written, produced(r), ctx.flushed)
        /\ ctx' = [taken |-> r.taken, flushed |-> r.flushed]
        /\ written' = written + produced(r)
        /\ \/ Again(r) /\ UNCHANGED <<pc, returned>>
           \/ ~Again(r) /\ last /\ pc' = "hdiff" /\ returned' = written'
           \/ ~Again(r) /\ ~last /\ pc' = "read" /\ UNCHANGED returned
  BY DEF Feed
<1>2. /\ r.flushed \in ctx.flushed..(ctx.flushed + PIECE) /\ r.ret \in {"done", "more"}
      /\ ctx.flushed \in Nat /\ pc = "feed" /\ PIECE \in Nat \ {0}
  BY <1>1, Turn, StepsLeftType, LimitsAssumption DEF Inv, Failed, Feed
<1>3. written' = r.flushed
  BY <1>1, <1>2, Fed
<1>4. CASE Again(r) /\ UNCHANGED <<pc, returned>>
  <2>1. r.flushed = ctx.flushed + PIECE
    BY <1>1, <1>2, <1>4 DEF Again, Outcomes, CompressStream, Ended, Unfinished
  <2> QED
    BY <1>1, <1>2, <1>4, <2>1
<1>5. CASE ~Again(r) /\ last /\ pc' = "hdiff" /\ returned' = written'
  BY <1>1, <1>2, <1>3, <1>5 DEF NotYet
<1>6. CASE ~Again(r) /\ ~last /\ pc' = "read" /\ UNCHANGED returned
  BY <1>1, <1>2, <1>6
<1> QED
  BY <1>1, <1>4, <1>5, <1>6

LEMMA StepsDecrease == ASSUME Inv, Inv', Next PROVE StepsLeft' < StepsLeft
<1>1. pc # "done" /\ frame' = frame /\ MaxWrites \in Nat
  BY LimitsAssumption
     DEF Next, Begin, HdiffWrite, HdiffFails, HdiffReturns, Compress, Read, Feed, Abandon,
         FeedFails, frame
<1>2. CASE pc' = "done"
  BY <1>1, <1>2, StepsLeftType DEF StepsLeft
<1>3. CASE pc' # "done"
  <2>1. PICK k, u, p, f, l, v, q, g, n, s :
          /\ k = Rank /\ u = writes /\ p = read /\ f = ctx.flushed
          /\ l = Rank' /\ v = writes' /\ q = read' /\ g = ctx'.flushed
          /\ n = frame.source /\ s = frame.size
    OBVIOUS
  <2>2. /\ k \in Nat /\ l \in Nat /\ u \in 0..MaxWrites /\ v \in 0..MaxWrites
        /\ MaxWrites \in Nat /\ n \in Nat /\ s \in Nat /\ p \in 0..n /\ q \in 0..n /\ f \in Nat /\ g \in Nat
    BY <1>1, <1>3, <2>1, StepsLeftType DEF Rank, Inv, Types
  <2>3. ~(pc = "hdiff" /\ returned # NotYet) =>
            /\ StepsLeft = k + (MaxWrites - u) + 2 * (n - p) + (s - f)
            /\ f <= s /\ k >= 3
    BY <1>1, <2>1, StepsLeftType DEF StepsLeft
  <2>4. ~(pc' = "hdiff" /\ returned' # NotYet) =>
            StepsLeft' = l + (MaxWrites - v) + 2 * (n - q) + (s - g)
    BY <1>1, <1>3, <2>1 DEF StepsLeft
  <2>5. pc = "hdiff" /\ returned # NotYet => StepsLeft = 1 + (MaxWrites - u)
    BY <2>1 DEF StepsLeft
  <2>6. pc' = "hdiff" /\ returned' # NotYet => StepsLeft' = 1 + (MaxWrites - v)
    BY <2>1 DEF StepsLeft
  <2>7. CASE Begin
    <3>1. /\ pc = "start" /\ pc' = "hdiff" /\ k = 7 /\ l = 6 /\ v = u /\ q = p /\ g = f
      BY <1>3, <2>1, <2>7 DEF Begin, Throw, Goto, plugin, Rank
    <3> QED
      BY <2>2, <2>3, <2>4, <2>6, <3>1
  <2>8. CASE HdiffWrite
    <3>1. /\ pc = "hdiff" /\ pc' = "hdiff" /\ v = u + 1
          /\ returned' = returned /\ q = p /\ g = f /\ l = k
      BY <1>3, <2>1, <2>8 DEF HdiffWrite, WriteFails, Throw, plugin, Rank
    <3>2. CASE returned = NotYet
      BY <2>2, <2>3, <2>4, <3>1, <3>2
    <3>3. CASE returned # NotYet
      BY <2>2, <2>5, <2>6, <3>1, <3>3
    <3> QED
      BY <3>2, <3>3
  <2>9. CASE Compress
    <3>1. /\ pc = "hdiff" /\ returned = NotYet /\ pc' = "read" /\ k = 6 /\ l = 4
          /\ v = u /\ q = p /\ g = f
      BY <1>3, <2>1, <2>9 DEF Compress, Throw, Goto, Rank
    <3> QED
      BY <2>2, <2>3, <2>4, <3>1
  <2>10. CASE Read
    <3>1. /\ pc = "read" /\ pc' = "feed" /\ k = 4 /\ v = u /\ g = f
          /\ q = p + min(CHUNK, n - p) /\ l = IF q = n THEN 3 ELSE 5
      BY <1>1, <1>3, <2>1, <2>10 DEF Read, Throw, Goto, Rank, last
    <3>2. q = n \/ q >= p + 1
      BY <2>2, <3>1, LimitsAssumption DEF min
    <3>3. p <= q
      BY <2>2, <3>1, LimitsAssumption DEF min
    <3>4. CASE q = n
      BY <2>2, <2>3, <2>4, <3>1, <3>3, <3>4
    <3>5. CASE q # n
      BY <2>2, <2>3, <2>4, <3>1, <3>2, <3>5
    <3> QED
      BY <3>4, <3>5
  <2>11. CASE Feed
    <3>1. pc = "feed" /\ v = u /\ q = p /\ k = (IF p = n THEN 3 ELSE 5)
      BY <2>1, <2>11 DEF Feed, Rank, last
    <3>2. CASE pc' = "feed" /\ f < g
      <4>1. l = IF q = n THEN 3 ELSE 5
        BY <1>1, <2>1, <3>2 DEF Rank, last
      <4> QED
        BY <2>2, <2>3, <2>4, <3>1, <3>2, <4>1
    <3>3. CASE pc' = "read" /\ ~last /\ f <= g
      <4>1. l = 4 /\ p # n
        BY <2>1, <3>3 DEF Rank, last
      <4> QED
        BY <2>2, <2>3, <2>4, <3>1, <3>3, <4>1
    <3>4. CASE pc' = "hdiff" /\ returned' # NotYet
      BY <2>2, <2>3, <2>6, <3>1, <3>4
    <3> QED
      BY <2>1, <2>11, <3>2, <3>3, <3>4, FeedAdvances
  <2>12. CASE Abandon
    <3>1. pc = "feed" /\ pc' = "hdiff" /\ returned' # NotYet /\ v = u
      BY <2>1, <2>12 DEF Abandon, Goto, NotYet
    <3> QED
      BY <2>2, <2>3, <2>6, <3>1
  <2> QED
    BY <1>3, <2>7, <2>8, <2>9, <2>10, <2>11, <2>12
       DEF Next, HdiffFails, HdiffReturns, FeedFails, WriteFails, Throw
<1> QED
  BY <1>2, <1>3

\* Every step brings a call nearer to its end, for every size of chunk and piece: it
\* returns after at most 7 steps, one more for each of HDiffPatch's own writes and for each
\* byte of the frame, and two more for each byte of the stream.
THEOREM BoundedSteps ==
    Spec => /\ StepsLeft = 7 + MaxWrites + 2 * frame.source + frame.size
            /\ [](StepsLeft \in Nat)
            /\ [][StepsLeft' < StepsLeft]_vars
<1>1. Init => StepsLeft = 7 + MaxWrites + 2 * frame.source + frame.size
  <2> SUFFICES ASSUME Init PROVE StepsLeft = 7 + MaxWrites + 2 * frame.source + frame.size
    OBVIOUS
  <2>1. frame.source \in Nat /\ frame.size \in Nat /\ MaxWrites \in Nat
    BY RequestType, LimitsAssumption DEF Init
  <2> QED
    BY <2>1 DEF Init, StepsLeft, Rank, Unused
<1>2. Inv => StepsLeft \in Nat
  BY StepsLeftType
<1>3. Inv /\ Inv' /\ [Next]_vars => [StepsLeft' < StepsLeft]_vars
  BY StepsDecrease
<1> QED
  BY <1>1, <1>2, <1>3, Invariance, PTL DEF Spec

\* The plugin never waits: while it feeds the compressor, zstd has an answer to the next
\* call, whatever has been taken and flushed so far.
THEOREM AlwaysAnswered == Spec => [](pc = "feed" => Outcomes # {})
<1>1. ASSUME Inv, pc = "feed" PROVE Outcomes # {}
  <2>1. /\ ctx.taken \in Nat /\ ctx.taken <= read /\ read \in Nat /\ read <= frame.source
        /\ ctx.flushed \in Nat /\ ctx.flushed < frame.size
        /\ frame.size \in Nat /\ PIECE \in Nat \ {0}
    BY <1>1, StepsLeftType, LimitsAssumption DEF Inv, Types, PluginInv
  <2>2. CASE ctx.taken < read
    <3> DEFINE r == [taken |-> ctx.taken, flushed |-> ctx.flushed, ret |-> "memory"]
    <3>1. r \in Outcomes
      BY <2>1, <2>2 DEF Outcomes, CompressStream
    <3> QED
      BY <3>1
  <2>3. CASE ctx.taken = read /\ ~last
    <3> DEFINE r == [taken |-> ctx.taken, flushed |-> ctx.flushed, ret |-> "more"]
    <3>1. r \in Outcomes
      BY <2>1, <2>3 DEF Outcomes, CompressStream, Continued
    <3> QED
      BY <3>1
  <2>4. CASE ctx.taken = read /\ last /\ frame.size <= ctx.flushed + PIECE
    <3> DEFINE r == [taken |-> ctx.taken, flushed |-> frame.size, ret |-> "done"]
    <3>1. r \in Outcomes
      BY <2>1, <2>4 DEF Outcomes, CompressStream, Ended, last
    <3> QED
      BY <3>1
  <2>5. CASE ctx.taken = read /\ last /\ ctx.flushed + PIECE < frame.size
    <3> DEFINE r == [taken |-> ctx.taken, flushed |-> ctx.flushed + PIECE, ret |-> "more"]
    <3>1. r \in Outcomes
      BY <2>1, <2>5 DEF Outcomes, CompressStream, Unfinished, last
    <3> QED
      BY <3>1
  <2> QED
    BY <2>1, <2>2, <2>3, <2>4, <2>5
<1> QED
  BY <1>1, Invariance, PTL
===============================================================================
