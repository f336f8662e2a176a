# Verification of pyhdiff

TLA+ models of pyhdiff, model-checked with TLC and, where it says so, proved
with TLAPS. pyhdiff makes and applies binary deltas: a Python package frames and
hashes them, an extension module calls codecs without the GIL, and a C++ bridge
drives HDiffPatch and zstd. The models follow the code under `src/` (paths below
are relative to the repository); zstd, HDiffPatch, CPython and GitHub appear as
contracts, written from how this code uses them.

## The system

| Component | State it keeps | Operations | Hard parts | What makes it correct |
| --- | --- | --- | --- | --- |
| Bounded frame decompression (`bridge.cpp` 480-526, 634-640) | decoder, growing buffer, input cursor | one call | output at the bound, forged content sizes, window limit, truncation, exceptions | no more than the bound, no uninitialized byte, nothing leaked, outcomes of `bridge.h`, termination |
| zstd payload decoding (448-478, 569-584) | decoder, input and output cursors | one call | chunks that do not end together, extra byte, trailing data | exactly one frame of exactly the target size |
| HDiff delta decoding (251-330, 347-374) | plugin `Decompress` across callbacks | open, decompress_part, refill, close | callbacks in sizes and an order of HDiffPatch's choice, untrusted header | stream delivered once and whole, genuine deltas accepted, termination |
| HDiff delta encoding (96-192, 201-247, 333-346) | `Output` stream, `Growable`, compressor | write anywhere, compress | overwrites, abandoned compression, reallocation | no unwritten byte in a delta, whole frames or none |
| zstd encoding (381-446) | compressor, chunk cursor, output buffer | one call | end of chunk, end of frame, output limit | whole frame of the whole target, limit exact |
| Encoder options (395-421, 528-564; `_hdiff_args`, `_zstd_args`) | none | validate, derive | values that interact inside zstd, signed and unsigned differences, C ints | accepted profiles never refused by zstd, explicit values honoured |
| Envelope API and extension module (`__init__.py` 168-343, `_native.c`) | Python objects of a call, GIL | `encode_delta`, `encode_base`, `apply`, `inspect`, `compress`, `decompress` | mutable buffers written by other threads, GIL released in the codec | each argument counts as it was at one moment; calls return |
| Raw payload API (`raw.py`) | none | `hdiff_encode`, `zstd_encode`, `hdiff_apply`, `zstd_apply` | the same, and no digest to catch a mistake | as above, and exactly the length asked for |
| Release workflow (`release.yml`, `golden.py` check-complete) | history, tags, releases, runs | push, tag, dispatch, jobs, re-run | concurrent runs, checks far from their use | tag, version and corpora of a release are right; releases stay |
| Golden corpora (`golden.py`, read by `test_golden.py`) | the directories under `tests/golden` | generate, pack, import, check-complete | processes that die between writes or overlap | a corpus appears whole and stays; releases need all of them |
| Toolchain setup (`toolchain.py`) | download cache, prefix with its parts | fetch, install, build | the same, with a shared cache and bad downloads | only whole parts are installed; a builder that is run again gets there |
| Build, CI, tests, benchmarks | - | - | - | - |

They interact by calls: Python takes arguments and checks the envelope with the
GIL held, the extension releases the GIL around exactly one bridge call, the
bridge runs zstd directly or HDiffPatch, which calls back into the bridge's
streams and plugins. Exceptions thrown in the bridge, callbacks included, end in
`boundary` as a status, which the extension turns into `_native.Error` and
`_raise` into a subclass of `pyhdiff.Error`. Threads share nothing but the GIL
and the buffers a caller passes. What persists is outside the library: history,
tags and releases, the corpora in the tree, and the directories of a toolchain.
Corpora tie these together: a release publishes one, the maintainers import it,
and the next release is refused until they have.

`PROJECT.json` lists every component with its status, the source lines each
definition stands for, and the hazards with the properties that cover them.

## Modules

| Module | Models | State and actions in the code |
| --- | --- | --- |
| `ZstdStream` | contract of `ZSTD_decompressStream` | an input is cut into units; a call takes units and delivers bytes in any amount that makes progress, or reports an error |
| `ZstdCompressor` | contract of `ZSTD_compressStream2` | a call takes input and flushes the frame in any amount, ends the frame when asked |
| `BoundedDecode` | what `phd_zstd_decompress` keeps of its promise (`bridge.h` 73-77; see findings) | one step from a request to an allowed outcome |
| `FrameDecompress` | `frame_decompress` with `Growable` and `boundary` | `size`, `capacity`, `data`: the `Growable`; `ctx`, `heap`: what is owned; `window`: the loop at 488-490; `Spare`, `DecodePart`, `DecodeFull`: the two branches of the loop; actions ending in `Fails` are its exceptions |
| `ExactDecode` | the promise of `phd_zstd_apply` (`bridge.h` 56-57, 64-68) | as above |
| `ZstdApply` | `apply_into` and `zstd_apply` | `read`, `written`: the cursors; `DecodeChunk`: a turn of the loop; `CheckEnd`: line 477 |
| `HdiffApply` | `apply_into`, `hdiff_apply`, `Decompress` | `pos`, `stop`, `remaining`, `input`, `finished`: the members of `Decompress`; `AskPart`, `StopPatching`: HDiffPatch; `PartRefused`: line 285; `PartTurn`, `PartEnds`, `CloseTurn`, `CloseEnds`: the callbacks, each turn with its `refill` |
| `HdiffEncode` | `hdiff_encode`, `Output`, `Growable`, the plugin `compress` | `cells`: what each byte of the delta holds; `HdiffWrite`: HDiffPatch's own writes; `Read`, `Feed`, `Abandon`: the loops of `compress` |
| `ZstdEncode` | `zstd_encode` | `pos`, `ib`, `encoded`: the locals; `Encode`: a turn of the inner loop |
| `Encoder` | `phd_zstd_encode` and `phd_zstd_compress` whole: `EncoderOptions` and `ZstdEncode` composed | `Create`: lines 384-387; `SetParameters`: 388-421, which both parts take together; `Ready`: the loop runs once all are set |
| `EncoderOptions` | arguments to compressor parameters | `Python`, `Parse`, `Check`, `Set`, in the order of the call; `set`: the parameters; `advice`: what zstd recommends |
| `Phdf` | what Python passes around | contents, payloads, headers, blobs, objects mutable or not, outcomes |
| `ApiPromise` | the promise of the Python API | a call looks at each argument once and gives an outcome promised for what it saw; no GIL, no codec, no copy |
| `PythonApi` | `__init__.py` and `raw.py` through `_native.c`, all operations | a program counter and the locals of a call per thread; steps that hold the GIL, `AllowThreads` .. `Finish` around the codec; `Write`, `Acquire`, `Drop` for what other threads do |
| `Release` | `release.yml`, `check_complete` | `commits`, `tags`, `releases`; a record per run with what its jobs passed on; `Resolve`, `Probe`, `Build`, `View`, `Create`: the jobs |
| `GoldenCorpus` | what `tests/golden` holds, by its README | a corpus is added once, whole |
| `Golden` | `generate`, `pack`, `import_release`, `check_complete`, the checks of `test_golden.py` | `tree`: the directories; per process where it is, its archive, the file it has open; `OpenBlob` .. `WriteManifest`: the loop at 140-143, two steps per file; `Die`, `CleanUp` |
| `Toolchain` | `toolchain.py` | `cache`: `path` and `.partial` per archive, block by block; `staging`, `final`: the directories under a prefix; one action per statement that touches the disk; `Die` between any two |
| `...Proofs` | theorems about the modules they extend: `EncoderProofs` about `Encoder` and its two parts, `ReleaseProofs` about `Release` and `Golden`, the others about the one they are named after | |
| `MC...` | the small instances; `MCStreams` makes the inputs of the decoders | |

Definitions commented "a mutant" are plausible mistakes in the definition below
them. No specification uses them; they show that each property can fail.

Four modules implement an abstract one, `Promise == INSTANCE ... WITH`:

| Module | Implements | Checked as | What refinement says |
| --- | --- | --- | --- |
| `FrameDecompress`, `ZstdApply` | `BoundedDecode`, `ExactDecode` | `KeepsPromise` | chunks and buffers cannot be observed, but for a wide window that a frame does not need |
| `PythonApi` | `ApiPromise` | `KeepsPromise` | neither can the GIL, the moments at which lengths, digests and payloads are read, or writes to the caller's buffers in between |
| `Golden` | `GoldenCorpus` | `ImportIsAtomic` | an import is one step, whoever dies or races |

### Abstractions

- Bytes of a compressed input are units; the content of a payload is how many
  bytes its prefixes decode to. Chunk and buffer sizes (65536), limits and
  windows are constants.
- A digest is the content it is a digest of: SHA-256 is taken not to collide.
- Allocation may fail wherever the code allocates, at any time.
- `cancel` is null in released builds and is left out; so are the checks inside
  `#ifdef PHD_TEST`.
- An input of the zstd decoders has one frame header with a chosen window; any
  other header asks for a window every decoder grants. Each header states a
  content size or none, and a frame of another size than stated is malformed.
- A frame that is in the input whole, and whose stated size fits the output, may
  be decoded in one pass: zstd then needs no window and looks at no window limit
  (`OnePass`). The models let it do so or not whenever it could.
- HDiffPatch asks the plugin for parts of any size, nothing (`MAX_IDLE` times)
  and more than remains included, and may stop or close at any time; while
  encoding it writes anywhere, but has one stream compressed at most, and
  bounds what the plugin may write (`room`).
- An exception that passes through HDiffPatch reaches `boundary`.
- C ints are scaled: `INT_MAX` is beyond every accepted range and small enough
  for TLC. The sizes given to `EncoderOptions` are within the limits (for calls
  with a base, `PHD_RAW_MAX`); `ZstdEncode` refuses others before any parameter is
  set. `Encoder` follows the loop for targets up to `ENCODED_MAX`, and longer ones to
  the last parameter.
- In `PythonApi` a payload is the codec, base and target it was made from, or
  junk. It decodes to its target against its own base; against another, to
  anything of the length asked for, or not at all. An error is the exception
  class; which C int of a profile is out of range is the business of
  `EncoderOptions`.
- In `Golden` a file that was opened and not written is `Truncated`. A commit
  takes the directory as it is at any moment; what an import left behind is
  removed when nobody imports that tag. A tag comes with its release
  (`Release` has tags without one).
- In `Toolchain` an archive is a few blocks, and a digest or `tar` reads a file
  in one step. `.partial` is opened, truncated, written at the writer's own
  offset and renamed as the file system does it, also when two processes have
  it open. A part is whole or not; it comes out whole if all it is made from is.
  Each builder has a prefix of its own. `raced` only remembers, for the
  properties, which archives others replaced between check and use. Left out:
  two builders with one prefix, and temporary directories a dead build leaves.
- `gh release create` is one step that succeeds or fails, a container job one
  step that fails or succeeds, `golden.py import` and its commit one step of the
  maintainer. Runs started by hand run on a commit of the branch.

## Runs

Every run finishes in less than two minutes. `CHECK_DEADLOCK` is `FALSE`: calls
end, and histories are bounded.

| Run | Asks | Bounds, and why they are enough |
| --- | --- | --- |
| `frame_decompress` | Is bounded decompression safe, leak free, terminating and as `bridge.h` promises? | up to 3 units (header, block, end: two frames or a truncated one), 2 bytes per unit, every bound 0..5 with limit 4, headers that state no size, the truth, too little and too much; buffer steps of 2 force growth; all windows around the limit |
| `frame_window` | Are windows above the limit refused? | violated, see findings; the same instance |
| `zstd_apply` | Is only one frame of exactly the target size accepted? | up to 4 units in chunks of 2, so chunks end inside, at and behind frames and targets; trailing units; every header verdict |
| `hdiff_apply` | Does the plugin survive every order of calls, and are genuine deltas accepted? | up to 3 units read in buffers of 2, so a delta fits the buffer or does not; parts of none, one and two bytes for streams of up to four, stated right or wrong by one, so parts end inside, at and behind the stream; one empty part, as it changes nothing but the count; forged headers that lie about one thing each |
| `hdiff_encode` | Is a delta made only of written bytes, with whole frames? | two own writes of up to 3 bytes at every position in and around a limit of 7; streams of 0..2.5 chunks, frames of up to 2.5 pieces, every room |
| `encoder` | From the profile to the frame: is what is accepted what zstd takes, and honoured, and is the frame whole and the limit exact? | every boundary value alone, beyond C ints too; all combinations of window, LDM, hash, bucket and rate; sizes at powers of two; extreme recommendations; the loop for targets of 0..3.5 chunks, frames of up to 5.5 pieces and limits around them |
| `python_api` | Does each operation answer as if it had looked at each argument once, and does a codec that never ends stop nobody else? | one thread that calls, one that writes and wants the GIL. Threads share nothing else, so to the caller all others are one that rewrites its buffers at any time, and to them it is only a thread that holds the GIL or does not. Two shared buffers, one for contents, one for envelopes; envelopes that lie about one thing each; contents empty, at the limit (two of them) and above; bounds below, at and above |
| `python_api_errors` | Is every failure a `pyhdiff.Error`? | violated, see findings; the same instance |
| `release` | Are releases, cut by tags or by hand, named and tagged as built, tested against every corpus and never replaced? | two versions, three commits, three runs: two releases with an import in between and a third run that races, repeats a failed job or is dry |
| `release_tag` | Is the tag of a release always the commit that was built? | violated, see findings; two commits and two runs suffice |
| `golden` | Is an import atomic, and does a release that passes its checks have every corpus? | two tags of two blobs, so an import stops before, between and after them and a blob of the wrong release can turn up; three processes: two that race and one that comes later; good, foreign and corrupt archives |
| `toolchain` | Is only what is whole installed, and does everybody get there? | two builders, two blocks per archive (truncated, mixed, whole), one death; a cache each or one for both, downloads all good or some bad |

### Properties

Safety: `InPlace`, `Bounded`, `NoLeak` (frames; `Bounded` grants one byte to an
empty result); `InBounds` (payloads);
`NothingLost`, `OnlyOneFrame`, `GenuinePatches` (deltas); `NoGarbage` (delta
encoding); `InputOnce`, `WholeFrame` (zstd encoding); `NeverRefusedByZstd`,
`BucketHonoured`, `TableWithinWindow`, `WindowHoldsTarget` (options);
`DecodesAgainstItsBase`, `NoLeak` (API); `NamedAsBuilt`, `TaggedAsBuiltIfKnown`
(releases); `PassingMeansComplete` (corpora); `InstalledWhole` (toolchain). What
a step may never do: `WholeOrAbandoned`, `CodecReadsStable`, `ReleasesStay`,
`CorporaCompleteIfTagged`. Refinement: `KeepsPromise` three times,
`ImportIsAtomic`. Liveness: `Termination`, `NobodyWaits`, `Recovers`. The
violated `TaggedAsBuilt` lacks the condition of `TaggedAsBuiltIfKnown`, as the
comment in the workflow does. Each is stated in words above its definition.

### Fairness

A bridge call is sequential code on one thread: it is taken to keep running,
`WF_vars(Next)`, which is what the operating system gives a runnable thread. Its
decoders make progress or say that they are starved, which is all `ZstdStream`
promises; termination then depends on the code's own progress checks. For
HDiffPatch, fairness also assumes that it comes to an end: it asks for nothing
only a bounded number of times, and writes only a bounded number of times.

In `PythonApi` a thread that wants the GIL gets it if it is available again and
again (`SF` on `Acquire`: CPython makes the holder drop it when another thread
waits), one that does not run a codec gives it back (`WF` on `Drop`), and Python
code goes on whenever its thread holds the GIL again and again (`SF`). Nothing
is assumed of codecs, which may never return, or of calls being made.

In `Toolchain` a builder keeps running and is run again when it has failed or
died (`WF` on its steps, `Run` among them): that is what its users do, and
`Recovers` asks whether it is enough. Deaths are bounded, downloads arrive.

`Release` and `Golden` have no liveness property: maintainers owe nothing.

## Proofs

Proved with TLAPS, for every value of the constants:

| Theorem | Says |
| --- | --- |
| `FrameDecompressProofs!TypeCorrect`, `Safety`, `BoundedOutput`, `NothingLeaks` | `TypeOK`, `InPlace`, `Bounded`, `NoLeak` |
| `FrameDecompressProofs!Implements` | `FrameDecompress` implements `BoundedDecode` |
| `ZstdApplyProofs!TypeCorrect`, `Safety` | `TypeOK`, `InBounds` |
| `ZstdApplyProofs!Implements` | `ZstdApply` implements `ExactDecode` |
| `HdiffApplyProofs!TypeCorrect`, `Safety`, `Sound`, `Complete` | `TypeOK`, `NothingLost`, `OnlyOneFrame`, `GenuinePatches` |
| `EncoderProofs!NeverRefused`, `BucketIsHonoured` | `NeverRefusedByZstd`, `BucketHonoured` of `EncoderOptions` |
| `EncoderProofs!TableFitsWindow`, `WindowCoversTarget` | `TableWithinWindow`, `WindowHoldsTarget` of `EncoderOptions` |
| `EncoderProofs!Once`, `WholeWithinLimit` | `InputOnce`, `WholeFrame` of `ZstdEncode` |
| `EncoderProofs!Composition` | a call of `Encoder` is one of `EncoderOptions` and of `ZstdEncode` at once, so the six above hold of it |
| `HdiffEncodeProofs!NoByteUnwritten`, `WholeFrames` | `NoGarbage`, `WholeOrAbandoned` |
| `PythonApiProofs!RightBase`, `NothingLeaked`, `StableReads` | `DecodesAgainstItsBase`, `NoLeak`, `CodecReadsStable` |
| `PythonApiProofs!Implements` | `PythonApi` implements `ApiPromise` |
| `PythonApiProofs!ZstdApplyFits`, `DecompressFits` | every outcome `ExactDecode` and `BoundedDecode` allow is one `PythonApi` gives its codecs |
| `ReleaseProofs!Complete` | `PassingMeansComplete` of `Golden` |
| `ReleaseProofs!Atomic` | `Golden` implements `GoldenCorpus` (`ImportIsAtomic`) |
| `ReleaseProofs!TypeCorrect`, `VersionOfItsCommit`, `TagOfItsCommit` | `TypeOK`, `NamedAsBuilt`, `TaggedAsBuiltIfKnown` |
| `ReleaseProofs!NeverReplaced`, `TestedAgainstEarlier` | `ReleasesStay`, `CorporaCompleteIfTagged` |
| `ToolchainProofs!Installed` | `InstalledWhole` |
| `BoundedSteps` in `FrameDecompressProofs`, `ZstdApplyProofs`, `HdiffApplyProofs`, `HdiffEncodeProofs` and `EncoderProofs` (`ZstdEncode`) | every step of a bridge call lowers a natural number that its arguments bound |
| `AlwaysAnswered` in the same five | in every loop over a codec, the codec has an outcome for the next call |

Where a run has two threads, three importers, three runs or two builders, the
theorem has any number; where it has a few blobs, blocks, commits or units,
the theorem has as many as one likes.

### Assumptions

TLC evaluates all of them on the runs.

- The requests are what callers can pass: `RequestsAssumption` (an input is a
  stream of `ZstdStream`, a profile holds integers, a call of the API has
  contents or bytes where its operation takes them), `BuffersAssumption`,
  `ThreadsAssumption` in `PythonApi`.
- A target that gets an automatic window is at most `PHD_RAW_MAX` long
  (`IsCall` of `EncoderOptions`, `CallsAssumption`); longer ones are refused
  before.
- Limits are numbers, chunk and buffer sizes positive (`LimitsAssumption`,
  `MaximaAssumption`, `WindowAssumption`), and zstd's recommendations are in
  zstd's ranges (`AdvicesAssumption`).
- What stands for the absence of a value is none of the values
  (`ContentsAssumption`, `CodecsAssumption`, `AbsenceAssumption`, and
  `ParametersAssumption` of `Release` and `Toolchain`).

Two theorems have hypotheses of their own. `ZstdApplyFits` and `DecompressFits`
say what a payload is to zstd (`AppliedAs`, `DecompressedAs`): one made by an
encoder is one whole frame of its target, as `WholeFrame` of `ZstdEncode` has it,
within the size limits; for `zstd_apply` in a window the profiles allow, and for
`decompress`, if it states its size, in no wider one than that needs. Nothing is
said of other bytes. `DecompressFits` also states that powers of two are numbers,
which the provers do not know.

### Arguments

Hardly any listed invariant is inductive. `Inv` in each proof module is the
strengthening; its `Invariance` theorem has one lemma per action, and the
listed theorems follow from it.

*Decoders.* For frames `Inv` adds what is known at each program counter (what is
owned, that the window limit is the one the loop computes, that nothing was read
before decoding), that the decoder takes a unit it would reject only in one pass,
with the stated size within the bound, and that the
result of a call that is done is one `BoundedDecode` allows. The window loop is
proved to end at the smallest sufficient limit, which makes "refused by this
decoder" and "refused by the interface" the same. For payloads it adds that
until the end is checked no frame has ended before the position of the decoder
(`DecoderInv`), so the frame found at the end is the first. A step that sets the
result is then a step of the abstract specification; every other step stutters.

*Deltas.* What the checks of the header established stays true while HDiffPatch
runs (`CheckedInv`), and the plugin's decoder stands inside the first frame, or
exactly at its end once it said so (`DecoderInv`). What one turn needs is the
lemma `Refilled`: position in the delta, unread rest of the buffer and decoder
always add up, and a refill that brings nothing means the delta is read to its
end. `GenuinePatches` follows because a genuine delta is one frame, so a decoder
that starves or is left unfinished contradicts the sizes.

*Options.* When parameters are set, the profile has passed its checks. Ranges of
the window, the rate and the derived hash log follow, and from them that every
value is settable and that zstd leaves the bucket alone. That the window is larger
than the target rests on `BitLength`: the provers know no exponentiation, but
below `PHD_RAW_MAX` there are few powers of two, and each is computed (`Powers`).

*Encoders.* While zstd works the buffer holds what was flushed, and the frame
is at its end only when the loop is done (`EncodingInv`); the lemma `ZstdTurn`
says what one turn of the compressor may do with the last chunk and with others
(`Turn` in `HdiffEncodeProofs`).
For the delta, the bytes that were written are always the beginning of the block
(`NoGarbage` itself), because a write that would leave a gap is refused
(`WriteKeeps`); while the plugin runs, what it wrote stands in order behind the
place HDiffPatch gave it (`PluginInv`), so when the last turn ends the frame that
is the whole frame, and a turn that is refused shows that the frame exceeds the
room. `WholeOrAbandoned` is proved as an action property from these.

*API.* `Inv` says of every thread on its own where it is and what it has
established there (`LocalInv`): the arguments are the caller's objects or copies
of them, a check that was passed holds of the copy, something is held exactly
between allocation and return. Nothing in it speaks of two threads, because the
only things they share are the GIL and the mutable buffers, and a thread that
has passed a check has copied the buffer it checked. For the refinement, the
step that copies or looks last at an argument is the look `ApiPromise` takes at
it, and each way a call may end is shown to be an outcome promised for that look.

*Codecs of the API.* For a payload that an encoder made, the hypotheses on its
frame rule out every outcome of `ExactDecode` but success and lack of memory: a
whole frame of the size asked for cannot be too long, cut off, followed by
something or malformed. `BoundedDecode` leaves the window, which a frame within
the bound can only exceed when it does not state its size, since the limit grows
with the bound. Other payloads may end in any way, with bytes of a fitting
length. With the two refinements above, what `FrameDecompress` and `ZstdApply` do
is among what `PythonApi` takes its codecs to do.

*Length of a call.* `StepsLeft` adds up a rank of the program counter, the input
not yet taken, the output not yet delivered and, where the code has them, the
widenings of the window, HDiffPatch's writes, or the two steps that begin and end a callback and those of
the empty parts it may still ask for. A turn of a loop takes input or delivers output because the code
stops when it does neither (lines 295, 315, 473, 511, 523) or because zstd then has an
error or is done; every other step lowers the rank. So a call that keeps
running returns within a number of steps its arguments determine, and fairness
adds only that it keeps running. `AlwaysAnswered` is the other half: the contract
of the codec always has an outcome for the state the loop is in, so no proof
about a loop holds because the contract lets it go no further.

*Corpora.* A directory under `tests/golden` has at most one writer: `mkdir`
fails when it exists, and the manifest comes last (`OneWriter`, `WriterInv`). So a
readable manifest implies the files are complete (`ReadableInv`), nobody writes
beside it any more, and the step that writes it is the one step of
`GoldenCorpus`; all others stutter.

*Releases.* A run keeps what its `prepare` job saw (`PreparedInv`), a release
belongs to the run that made it (`ReleasedInv`), and only corpora of published
releases are imported (`ImportedInv`). `CorporaCompleteIfTagged` speaks of two
runs, and needs the symmetric `OneHasTheOther`: of two prepared runs that saw
their tags, the later one's check saw the earlier one's tag, so its commit holds
the corpus of the other. If the earlier release were the one without the corpus,
the other would hold a corpus of a release not yet made, which `ImportedInv`
excludes.

*Toolchain.* A part is only begun when those it is made of are sound: whole, or
made from an archive that was replaced (`PartInv`). Between the check of an
archive and its use the file is still there (`CheckedInv`), and with a cache of
its own it is the file that was checked. In a shared cache others may replace it
meanwhile, and then `raced` has it (`Kept`). If downloads are good it holds right
blocks or none, and what misses a block cannot be unpacked, so `tar` gives the
whole part or fails (`MadeWhole`); if not, it is the exception in
`InstalledWhole`.

### Only model-checked

- All liveness (`Termination`, `NobodyWaits`, `Recovers`): TLAPS does not reach
  it under fairness. For the bridge calls, what `Termination` rests on is proved
  (`BoundedSteps`, `AlwaysAnswered`); for the other two nothing is, since a thread
  may wait and a builder may fail any number of times.

Every safety invariant, action property and refinement that a passing run
checks is stated by a theorem.

## Findings

- `python_api_errors`: when CPython cannot allocate the target or the copy of
  a result (`_native.c` 119, 51), callers get a plain `MemoryError`, and for a
  profile number that is no C int (`_native.c` 63, 81) a plain `OverflowError`.
  The README says every failure of a codec call derives from `pyhdiff.Error`,
  and gives profile values out of range to `OptionError`.
- `frame_window`: `bridge.h` 74-75 and the README say that decompression refuses
  windows above a limit. A frame that states a size within the bound gets room
  for all of it (`bridge.cpp` 496-498) and all its bytes in one call, so zstd
  decodes it in one pass and never looks at the limit. The README's memory bound
  is kept, as no window is allocated, and so is everything in `KeepsPromise`; a
  window is refused when zstd needs it. `decompress_part` (292) lets the same
  happen to a delta of at most 65536 bytes, past the limit of the README's
  table; `zstd_apply` looks at the window itself (456).
- `release_tag`: `publish` uses an answer `prepare` got before the builds. A tag
  pushed meanwhile makes `gh` ignore `--target`, the very case the comment at
  `release.yml` 110-112 wants refused.

Worth knowing, though no property is stated about them:

- `check_complete` asks for the corpus of every tag, also of one whose run was
  refused and that has no release, so later versions are refused until that tag
  is deleted.
- Two versions released by hand at once have no tags when they are checked, so
  the second can be cut without the corpus of the first;
  `CorporaCompleteIfTagged` has the condition that rules this out.
- `fetch` gives an archive its name before it checks the digest. A bad download
  stays in the cache and every later run is refused until somebody deletes it:
  the exception in `Recovers`. In a shared cache a death has the same effect:
  the survivor, whose file the dead builder truncated, may rename it with
  blocks missing.
- "Downloads are verified by SHA-256 before use" (`toolchain.py` 10) is not so
  when builders share a cache and a download is bad: one that found no archive
  there renames its own over the one another has checked (70) and not yet
  unpacked (84, 197). What the other unpacks it keeps. This is the exception in
  `InstalledWhole` and the last one in `Recovers`.

## Not modelled, and what comes next

`PythonApi` and the decoders meet in `Decodes` and `Decompresses`, which for zstd
are proved to allow every outcome of `ExactDecode` and `BoundedDecode`. The
encoders and the HDiff decoder have no abstract module of their own; their
properties (`WholeFrame`, `OnlyOneFrame`, `GenuinePatches`) are what `Encodes` and
`Decodes` take from them, and joining them the same way is worth adding.

`wheel.py`, `native_checks.py` and `container-setup.sh` are sequences of commands
whose outputs they compare; they keep no state and meet none, so a model would
repeat them line by line. Left out for good as well: match search and patching
inside HDiffPatch, zstd's formats, SHA-256, the byte layout of the header beyond the fields compared, build files,
CI, tests and benchmarks; they are libraries, declarations or pure functions
without the states and orders that model checking is for.
