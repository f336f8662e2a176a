---------------------------- MODULE ToolchainProofs ----------------------------
(***************************************************************************)
(* Proofs about Toolchain: however many builders share a cache or have     *)
(* their own, whatever they download and wherever they die, what stands    *)
(* under a final name is whole, but for what was replaced between check    *)
(* and use.                                                                *)
(***************************************************************************)
EXTENDS Toolchain, TLAPS

PCs == {"idle", "fetch", "open", "copy", "rename", "digest", "installed", "stage", "make", "publish",
        "version", "next"}

Block == IF setting.bad THEN {None, "good", "bad"} ELSE {None, "good"}
Files == [1..Blocks -> Block]
Entries == [path : {None} \cup Files, partial : {None} \cup Files]
Caches == [Builders \cup {Shared} -> [Archives -> Entries]]

Types ==
    /\ setting \in Settings
    /\ cache \in Caches
    /\ pc \in [Builders -> PCs]
    /\ part \in [Builders -> Parts \cup {None}]
    /\ copied \in [Builders -> 0..Blocks]
    /\ at \in [Builders -> {None, "partial", "path", "gone"}]
    /\ staging \in [Builders -> [Parts -> {None, "begun", "whole", "other"}]]
    /\ final \in [Builders -> [Parts -> {None, "whole", "other"}]]
    /\ raced \in [Builders -> SUBSET Archives]

\* What builder b may make of part p.
Sound(b, p, v) == v = "whole" \/ (v = "other" /\ Replaced(b, p))

\* A part is worked on after those it needs.
PartInv(b) ==
    /\ pc[b] # "idle" => part[b] \in Parts
    /\ pc[b] \in {"fetch", "open", "copy", "rename", "digest"} => part[b] \in Archives
    /\ pc[b] # "idle" /\ part[b] # "llvm" => Sound(b, "llvm", final[b]["llvm"])
    /\ pc[b] # "idle" /\ part[b] = "runtime" => Sound(b, "llvm-project", final[b]["llvm-project"])
    /\ pc[b] = "version" => part[b] = "llvm"
    /\ pc[b] \in {"version", "next"} => Sound(b, part[b], final[b][part[b]])
    /\ pc[b] = "publish" => Sound(b, part[b], staging[b][part[b]])

FinalInv(b) == \A p \in Parts : final[b][p] = None \/ Sound(b, p, final[b][p])

\* The file that is written is there, unless it was replaced.
WritingInv(b) ==
    pc[b] = "copy" =>
        /\ at[b] \in {"partial", "path", "gone"}
        /\ at[b] # "gone" => File(b, at[b]) \in Files

\* Between the check of an archive and its use the file is there, and the one that was
\* checked unless others have replaced it.
Kept(b) == File(b, "path") = Whole \/ (setting.shared /\ part[b] \in raced[b])

CheckedInv(b) == Unpacks(b) => File(b, "path") \in Files /\ Kept(b)

BuilderInv(b) == PartInv(b) /\ FinalInv(b) /\ WritingInv(b) /\ CheckedInv(b)

Inv == Types /\ \A b \in Builders : BuilderInv(b)

-------------------------------------------------------------------------------
LEMMA SettingType ==
    ASSUME setting \in Settings
    PROVE  /\ setting.shared \in BOOLEAN /\ setting.bad \in BOOLEAN
           /\ \A b \in Builders : cacheOf(b) \in Builders \cup {Shared}
  BY ParametersAssumption DEF cacheOf

LEMMA WholeIsFile == Whole \in Files /\ Fresh \in Files
  BY DEF Whole, Fresh, Files, Block

LEMMA Initial == Init => Inv
<1> SUFFICES ASSUME Init PROVE Inv
  OBVIOUS
<1>1. [a \in Archives |-> [path |-> None, partial |-> None]] \in [Archives -> Entries]
  BY DEF Entries
<1>2. cache \in Caches
  BY <1>1 DEF Init, Caches
<1>3. Types
  BY <1>2, ParametersAssumption DEF Init, Types, PCs
<1>4. \A b \in Builders : FinalInv(b)
  BY DEF Init, FinalInv
<1> QED BY <1>3, <1>4 DEF Init, Inv, BuilderInv, PartInv, WritingInv, CheckedInv, Unpacks

\* One entry of one cache gets other files.
LEMMA EntryWritten ==
    ASSUME cache \in Caches, NEW c \in Builders \cup {Shared}, NEW a \in Archives, NEW e \in Entries,
           cache' = [cache EXCEPT ![c][a] = e]
    PROVE  /\ cache' \in Caches /\ cache'[c][a] = e
           /\ \A d \in Builders \cup {Shared} : \A x \in Archives : d # c \/ x # a => cache'[d][x] = cache[d][x]
           /\ \A d \in (Builders \cup {Shared}) \ {c} : cache'[d] = cache[d]
<1>1. cache[c] \in [Archives -> Entries]
  BY DEF Caches
<1>2. PICK h : h = [cache[c] EXCEPT ![a] = e]
  OBVIOUS
<1>3. h \in [Archives -> Entries] /\ h[a] = e /\ \A x \in Archives \ {a} : h[x] = cache[c][x]
  BY <1>1, <1>2
<1>4. cache' = [cache EXCEPT ![c] = h]
  BY <1>2
<1> QED BY <1>3, <1>4 DEF Caches

\* What is installed stays sound.
LEMMA FinalKept ==
    ASSUME NEW x \in Builders, FinalInv(x), UNCHANGED setting, final'[x] = final[x], raced[x] \subseteq raced'[x]
    PROVE  /\ FinalInv(x)'
           /\ \A p \in Parts : \A v : Sound(x, p, v) => Sound(x, p, v)'
<1>1. \A p \in Parts : \A v : Sound(x, p, v) => Sound(x, p, v)'
  BY DEF Sound, Replaced
<1> QED BY <1>1 DEF FinalInv

\* What a step of another builder may do to a cache leaves a builder's part of the
\* invariant.
LEMMA OthersKeep ==
    ASSUME Inv, NEW x \in Builders, UNCHANGED setting,
           pc'[x] = pc[x], part'[x] = part[x], at'[x] = at[x], staging'[x] = staging[x], final'[x] = final[x],
           \A n \in {"path", "partial"} :
               part[x] \in Archives /\ File(x, n) \in Files => cache'[cacheOf(x)][part[x]][n] \in Files,
           ~setting.shared => cache'[x] = cache[x],
           raced[x] \subseteq raced'[x],
           Unpacks(x) => cache'[cacheOf(x)][part[x]].path = File(x, "path") \/ part[x] \in raced'[x]
    PROVE  BuilderInv(x)'
<1>1. PartInv(x) /\ FinalInv(x) /\ WritingInv(x) /\ CheckedInv(x)
  BY DEF Inv, BuilderInv
<1>2. Files' = Files /\ cacheOf(x)' = cacheOf(x) /\ Whole' = Whole
  BY DEF Files, Block, cacheOf, Whole
<1>3. PartInv(x)' /\ FinalInv(x)'
  <2>1. FinalInv(x)' /\ \A p \in Parts : \A v : Sound(x, p, v) => Sound(x, p, v)'
    BY <1>1, FinalKept
  <2>2. "llvm" \in Parts /\ "llvm-project" \in Parts
    BY DEF Parts, Archives
  <2>3. pc[x] # "idle" => part[x] \in Parts
    BY <1>1 DEF PartInv
  <2> QED BY <1>1, <2>1, <2>2, <2>3 DEF PartInv
<1>4. WritingInv(x)'
  BY <1>1, <1>2 DEF WritingInv, PartInv, File
<1>5. CheckedInv(x)'
  <2>1. Unpacks(x)' => Unpacks(x)
    BY DEF Unpacks
  <2>2. SUFFICES ASSUME Unpacks(x)
                 PROVE  /\ cache'[cacheOf(x)][part[x]].path \in Files
                        /\ \/ cache'[cacheOf(x)][part[x]].path = Whole
                           \/ setting.shared /\ part[x] \in raced'[x]
    BY <1>2, <2>1 DEF CheckedInv, Kept, File
  <2>3. File(x, "path") \in Files /\ Kept(x) /\ part[x] \in Archives
    BY <1>1, <2>2 DEF CheckedInv, Unpacks
  <2>4. CASE setting.shared
    BY <2>2, <2>3, <2>4 DEF Kept
  <2>5. CASE ~setting.shared
    BY <2>3, <2>5 DEF Kept, File, cacheOf
  <2> QED BY <2>4, <2>5
<1> QED BY <1>3, <1>4, <1>5 DEF BuilderInv

\* A step that leaves the caches alone.
LEMMA LocalStep ==
    ASSUME Inv, NEW b \in Builders, UNCHANGED <<setting, cache, raced>>, Types', BuilderInv(b)',
           \A x \in Builders \ {b} : /\ pc'[x] = pc[x] /\ part'[x] = part[x] /\ at'[x] = at[x]
                                    /\ staging'[x] = staging[x] /\ final'[x] = final[x]
    PROVE  Inv'
<1>1. ASSUME NEW x \in Builders \ {b} PROVE BuilderInv(x)'
  BY <1>1, OthersKeep DEF File
<1> QED BY <1>1 DEF Inv

LEMMA EndsStep ==
    ASSUME Inv, NEW b \in Builders, Ends(b), UNCHANGED <<setting, cache, raced, disk>>
    PROVE  Inv'
<1>1. Types'
  BY ParametersAssumption DEF Inv, Types, Ends, disk, PCs, Caches, Entries, Files, Block
<1>2. pc'[b] = "idle"
  BY DEF Inv, Types, Ends
<1>3. BuilderInv(b)'
  <2>1. FinalInv(b)'
    BY DEF Inv, BuilderInv, FinalInv, Sound, Replaced, disk
  <2> QED BY <1>2, <2>1 DEF BuilderInv, PartInv, WritingInv, CheckedInv, Unpacks
<1>4. \A x \in Builders \ {b} : /\ pc'[x] = pc[x] /\ part'[x] = part[x] /\ at'[x] = at[x]
                               /\ staging'[x] = staging[x] /\ final'[x] = final[x]
  BY DEF Inv, Types, Ends, disk
<1> QED BY <1>1, <1>3, <1>4, LocalStep

\* A check that passes.
LEMMA PassesStep ==
    ASSUME Inv, NEW b \in Builders, NEW label \in PCs \ {"idle", "copy", "publish"}, Passes(b, label), pc[b] # "idle",
           label \in {"fetch", "open", "rename", "digest"} => part[b] \in Archives,
           label = "version" => part[b] = "llvm",
           label \in {"version", "next"} => Sound(b, part[b], final[b][part[b]]),
           part[b] \in Archives /\ (label \in {"stage", "make"} \/ (label = "installed" /\ part[b] = "llvm"))
               => File(b, "path") \in Files /\ Kept(b)
    PROVE  Inv'
<1>1. Types'
  BY DEF Inv, Types, Passes, Goto, disk, Caches, Entries, Files, Block
<1>2. pc'[b] = label /\ UNCHANGED <<setting, cache, raced, part, copied, at, staging, final>>
  BY DEF Inv, Types, Passes, Goto, disk
<1>3. PartInv(b)' /\ FinalInv(b)'
  BY <1>2 DEF Inv, BuilderInv, PartInv, FinalInv, Sound, Replaced
<1>4. WritingInv(b)'
  BY <1>2 DEF WritingInv
<1>5. CheckedInv(b)'
  BY <1>2 DEF CheckedInv, Kept, Unpacks, File, cacheOf, Files, Block, Whole
<1>6. \A x \in Builders \ {b} : pc'[x] = pc[x]
  BY DEF Inv, Types, Passes, Goto
<1> QED BY <1>1, <1>2, <1>3, <1>4, <1>5, <1>6, LocalStep DEF BuilderInv

\* Where every step of a builder starts from.
LEMMA Here ==
    ASSUME Inv, NEW b \in Builders
    PROVE  /\ Types /\ PartInv(b) /\ FinalInv(b) /\ WritingInv(b) /\ CheckedInv(b)
           /\ pc[b] # "idle" => part[b] \in Parts
           /\ pc[b] \in {"fetch", "open", "copy", "rename", "digest"} => part[b] \in Archives
           /\ final[b] \in [Parts -> {None, "whole", "other"}] /\ staging[b] \in [Parts -> {None, "begun", "whole", "other"}]
  BY DEF Inv, BuilderInv, PartInv, Types

-------------------------------------------------------------------------------
LEMMA RunStep == ASSUME Inv, NEW b \in Builders, Run(b) PROVE Inv'
<1>1. Types'
  BY DEF Inv, Types, Run, Goto, PCs, Parts, Archives, disk, Caches, Entries, Files, Block
<1>2. pc'[b] = "fetch" /\ part'[b] = "llvm" /\ UNCHANGED <<setting, cache, raced, copied, at, disk>>
  BY DEF Inv, Types, Run, Goto
<1>3. PartInv(b)' /\ WritingInv(b)' /\ CheckedInv(b)'
  BY <1>2 DEF PartInv, WritingInv, CheckedInv, Unpacks, Parts, Archives
<1>3a. FinalInv(b)'
  BY <1>2, Here, FinalKept DEF disk
<1>4. \A x \in Builders \ {b} : pc'[x] = pc[x] /\ part'[x] = part[x]
  BY DEF Inv, Types, Run, Goto
<1> QED BY <1>1, <1>2, <1>3, <1>3a, <1>4, LocalStep DEF BuilderInv, disk

LEMMA ContinueStep == ASSUME Inv, NEW b \in Builders, Continue(b) PROVE Inv'
<1>1. CASE part[b] = "runtime"
  BY <1>1, EndsStep DEF Continue, Fails
<1>2. CASE part[b] # "runtime"
  <2>1. PICK p \in {"llvm-project", "runtime"} : /\ p = IF part[b] = "llvm" THEN "llvm-project" ELSE "runtime"
                                                 /\ part' = [part EXCEPT ![b] = p]
    BY <1>2 DEF Continue
  <2>2. At(b, "next") /\ Goto(b, "installed") /\ UNCHANGED <<cache, raced, copied, at, disk>>
    BY <1>2 DEF Continue
  <2>3. Types'
    BY <2>1, <2>2 DEF Inv, Types, Goto, PCs, Parts, Archives, disk, Caches, Entries, Files, Block
  <2>4. pc'[b] = "installed" /\ part'[b] = p /\ UNCHANGED <<setting, raced, final>>
    BY <2>1, <2>2 DEF Inv, Types, Goto, disk
  <2>5. PartInv(b)' /\ FinalInv(b)'
    BY <1>2, <2>1, <2>2, <2>4, Here, FinalKept DEF At, PartInv, Parts, Archives
  <2>6. WritingInv(b)' /\ CheckedInv(b)'
    BY <2>4 DEF WritingInv, CheckedInv, Unpacks
  <2>7. \A x \in Builders \ {b} : pc'[x] = pc[x] /\ part'[x] = part[x]
    BY <2>1, <2>2 DEF Inv, Types, Goto
  <2> QED BY <2>2, <2>3, <2>5, <2>6, <2>7, LocalStep DEF BuilderInv, disk, Goto
<1> QED BY <1>1, <1>2

LEMMA LookUpStep == ASSUME Inv, NEW b \in Builders, LookUp(b) PROVE Inv'
<1>1. PICK label \in {"open", "digest"} : Passes(b, label)
  BY DEF LookUp
<1> QED BY <1>1, Here, PassesStep DEF LookUp, At, PCs

LEMMA CheckDigestStep == ASSUME Inv, NEW b \in Builders, CheckDigest(b) PROVE Inv'
<1>1. CASE Fails(b)
  BY <1>1, EndsStep DEF Fails
<1>2. CASE ~Fails(b)
  <2>1. At(b, "digest") /\ File(b, "path") = Whole /\ Passes(b, Fetched(b))
    BY <1>2 DEF CheckDigest
  <2>2. PICK label \in {"installed", "stage"} : label = Fetched(b)
    BY DEF Fetched
  <2>3. part[b] \in Archives /\ pc[b] = "digest" /\ File(b, "path") \in Files /\ Kept(b)
    BY <2>1, Here, WholeIsFile DEF At, Kept
  <2>4. Passes(b, label) /\ label \in PCs \ {"idle", "copy", "publish"}
    BY <2>1, <2>2 DEF PCs
  <2> QED BY <2>3, <2>4, PassesStep
<1> QED BY <1>1, <1>2

LEMMA CheckInstalledStep == ASSUME Inv, NEW b \in Builders, CheckInstalled(b) PROVE Inv'
<1>1. At(b, "installed") /\ pc[b] = "installed" /\ part[b] \in Parts
  BY Here DEF CheckInstalled, At
<1>2. CASE final[b][part[b]] # None /\ Passes(b, IF part[b] = "llvm" THEN "version" ELSE "next")
  <2>1. Sound(b, part[b], final[b][part[b]])
    BY <1>1, <1>2, Here DEF FinalInv
  <2>2. PICK label \in {"version", "next"} : /\ label = IF part[b] = "llvm" THEN "version" ELSE "next"
                                             /\ Passes(b, label)
    BY <1>2
  <2> QED BY <1>1, <2>1, <2>2, PassesStep DEF PCs
<1>3. CASE Passes(b, IF part[b] = "llvm-project" THEN "fetch" ELSE "stage")
  <2>1. PICK label \in {"fetch", "stage"} : /\ label = IF part[b] = "llvm-project" THEN "fetch" ELSE "stage"
                                            /\ Passes(b, label)
    BY <1>3
  <2>2. label = "stage" /\ part[b] \in Archives => Unpacks(b)
    BY <1>1, <2>1 DEF Unpacks, Archives
  <2> QED BY <1>1, <2>1, <2>2, Here, PassesStep DEF CheckedInv, Archives, PCs
<1> QED BY <1>2, <1>3 DEF CheckInstalled

LEMMA CheckVersionStep == ASSUME Inv, NEW b \in Builders, CheckVersion(b) PROVE Inv'
<1>1. CASE Fails(b)
  BY <1>1, EndsStep DEF Fails
<1>2. CASE Passes(b, "next")
  BY <1>2, Here, PassesStep DEF CheckVersion, At, PartInv, PCs
<1> QED BY <1>1, <1>2 DEF CheckVersion

LEMMA StageStep == ASSUME Inv, NEW b \in Builders, Stage(b) PROVE Inv'
<1>1. pc[b] = "stage" /\ part[b] \in Parts /\ Goto(b, "make") /\ UNCHANGED <<cache, raced, part, copied, at, final>>
  BY Here DEF Stage, At, Stages
<1>2. staging' = [staging EXCEPT ![b] = [staging[b] EXCEPT ![part[b]] = "begun"]]
  BY DEF Stage, Stages
<1>3. Types'
  BY <1>1, <1>2 DEF Inv, Types, Goto, PCs, Caches, Entries, Files, Block
<1>4. pc'[b] = "make" /\ \A x \in Builders \ {b} : pc'[x] = pc[x] /\ staging'[x] = staging[x]
  BY <1>1, <1>2 DEF Inv, Types, Goto
<1>5. PartInv(b)' /\ WritingInv(b)' /\ FinalInv(b)'
  BY <1>1, <1>4, Here, FinalKept DEF PartInv, WritingInv, Parts, Archives, Goto
<1>6. CheckedInv(b)'
  BY <1>1, <1>4, Here DEF CheckedInv, Kept, Unpacks, File, cacheOf, Files, Block, Whole, Goto
<1> QED BY <1>1, <1>3, <1>4, <1>5, <1>6, LocalStep DEF BuilderInv, Goto

\* What is made is whole: the archive is the one that was checked, or misses blocks, or
\* was replaced by a bad download.
LEMMA MadeSound ==
    ASSUME Inv, NEW b \in Builders, pc[b] = "make", NEW made \in Makes(b), made # "failed"
    PROVE  Sound(b, part[b], made)
<1>1. part[b] \in Parts
  BY Here
<1>2. CASE part[b] \in Archives
  <2>1. File(b, "path") \in Files /\ Kept(b)
    BY <1>2, Here DEF CheckedInv, Unpacks
  <2>2. CASE File(b, "path") = Whole
    BY <1>2, <2>2 DEF Makes, Sound
  <2>3. CASE File(b, "path") # Whole /\ setting.bad
    <3>1. setting.shared /\ part[b] \in raced[b] /\ part[b] # "runtime"
      BY <1>2, <2>1, <2>3 DEF Kept, Archives
    <3>2. made \in {"failed", "other"}
      BY <1>2, <2>3 DEF Makes
    <3> QED BY <2>3, <3>1, <3>2 DEF Sound, Replaced
  <2>4. CASE File(b, "path") # Whole /\ ~setting.bad
    <3>1. ~setting.bad
      BY <2>4
    <3>2. \A n \in 1..Blocks : File(b, "path")[n] \in {None, "good"}
      BY <2>1, <3>1 DEF Files, Block
    <3>3. File(b, "path") = [n \in 1..Blocks |-> File(b, "path")[n]]
      BY <2>1 DEF Files
    <3>4. \E n \in 1..Blocks : File(b, "path")[n] = None
      BY <2>4, <3>2, <3>3 DEF Whole
    <3> QED BY <1>2, <2>4, <3>4 DEF Makes
  <2> QED BY <2>2, <2>3, <2>4
<1>3. CASE part[b] = "runtime"
  <2>1. \A a \in Archives : Sound(b, a, final[b][a])
    BY <1>3, Here DEF PartInv, Archives
  <2>2. CASE \A a \in Archives : final[b][a] = "whole"
    BY <1>3, <2>2 DEF Makes, Archives, Sound
  <2>3. CASE ~\A a \in Archives : final[b][a] = "whole"
    <3>1. PICK a \in Archives : Replaced(b, a)
      BY <2>1, <2>3 DEF Sound
    <3>2. Replaced(b, "runtime")
      BY <3>1 DEF Replaced, Archives
    <3>3. made \in {"failed", "other"}
      BY <1>3, <2>3 DEF Makes, Archives
    <3> QED BY <1>3, <3>2, <3>3 DEF Sound
  <2> QED BY <2>2, <2>3
<1> QED BY <1>1, <1>2, <1>3 DEF Parts

LEMMA MakeStep == ASSUME Inv, NEW b \in Builders, Make(b) PROVE Inv'
<1>1. PICK made \in Makes(b) : IF made = "failed" THEN Fails(b)
                               ELSE /\ Goto(b, "publish")
                                    /\ staging' = [staging EXCEPT ![b][part[b]] = made]
                                    /\ UNCHANGED <<cache, raced, part, copied, at, final>>
  BY DEF Make
<1>2. CASE made = "failed"
  BY <1>1, <1>2, EndsStep DEF Fails
<1>3. CASE made # "failed"
  <2>1. pc[b] = "make" /\ part[b] \in Parts /\ Sound(b, part[b], made) /\ made \in {"whole", "other"}
    BY <1>3, Here, MadeSound DEF Make, At, Sound
  <2>2. /\ Goto(b, "publish") /\ UNCHANGED <<cache, raced, part, copied, at, final>>
        /\ staging' = [staging EXCEPT ![b] = [staging[b] EXCEPT ![part[b]] = made]]
    BY <1>1, <1>3, <2>1
  <2>3. Types'
    BY <2>1, <2>2 DEF Inv, Types, Goto, PCs, Caches, Entries, Files, Block
  <2>4. /\ pc'[b] = "publish" /\ staging'[b][part[b]] = made
        /\ \A x \in Builders \ {b} : pc'[x] = pc[x] /\ staging'[x] = staging[x]
    BY <2>1, <2>2 DEF Inv, Types, Goto
  <2>5. FinalInv(b)' /\ \A p \in Parts : \A v : Sound(b, p, v) => Sound(b, p, v)'
    BY <2>2, Here, FinalKept DEF Goto
  <2>6. WritingInv(b)' /\ CheckedInv(b)'
    BY <2>4 DEF WritingInv, CheckedInv, Unpacks
  <2>7. PartInv(b)'
    BY <2>1, <2>2, <2>4, <2>5, Here DEF PartInv, Parts, Archives
  <2> QED BY <2>6, <2>7, <2>2, <2>3, <2>4, <2>5, LocalStep DEF BuilderInv, Goto
<1> QED BY <1>2, <1>3

LEMMA PublishStep == ASSUME Inv, NEW b \in Builders, Publish(b) PROVE Inv'
<1>0. PICK v : v = staging[b][part[b]]
  OBVIOUS
<1>1. pc[b] = "publish" /\ part[b] \in Parts /\ Sound(b, part[b], v) /\ v \in {"whole", "other"}
  BY <1>0, Here DEF Publish, At, PartInv, Sound
<1>2. PICK label \in {"version", "next"} : /\ label = IF part[b] = "llvm" THEN "version" ELSE "next"
                                           /\ Goto(b, label)
  BY DEF Publish
<1>3. /\ final' = [final EXCEPT ![b] = [final[b] EXCEPT ![part[b]] = v]]
      /\ staging' = [staging EXCEPT ![b] = [staging[b] EXCEPT ![part[b]] = None]]
      /\ UNCHANGED <<setting, cache, raced, part, copied, at>>
  BY <1>0, <1>1, <1>2 DEF Publish, Goto
<1>4. Types'
  BY <1>1, <1>2, <1>3 DEF Inv, Types, Goto, PCs, Caches, Entries, Files, Block
<1>5. /\ pc'[b] = label /\ final'[b] = [final[b] EXCEPT ![part[b]] = v]
      /\ \A x \in Builders \ {b} : pc'[x] = pc[x] /\ staging'[x] = staging[x] /\ final'[x] = final[x]
  BY <1>2, <1>3 DEF Inv, Types, Goto
<1>6. /\ final'[b][part[b]] = v
      /\ \A p \in Parts : final'[b][p] = final[b][p] \/ (p = part[b] /\ final'[b][p] = v)
  BY <1>1, <1>5, Here
<1>6a. \A p \in Parts : \A w : Sound(b, p, w) => Sound(b, p, w)'
  BY <1>3 DEF Sound, Replaced
<1>6b. FinalInv(b)'
  BY <1>1, <1>6, <1>6a, Here DEF FinalInv
<1>7. PartInv(b)'
  BY <1>1, <1>2, <1>3, <1>5, <1>6, <1>6a, Here DEF PartInv, Parts, Archives
<1>8. WritingInv(b)' /\ CheckedInv(b)'
  BY <1>5 DEF WritingInv, CheckedInv, Unpacks
<1> QED BY <1>2, <1>3, <1>4, <1>5, <1>6b, <1>7, <1>8, LocalStep DEF BuilderInv, Goto

-------------------------------------------------------------------------------
\* What a builder writes into a cache: the files that were there stay there, for all who
\* share it; nobody else sees it otherwise.
LEMMA CacheStep ==
    ASSUME Inv, NEW b \in Builders, part[b] \in Archives, UNCHANGED setting,
           NEW e \in Entries, cache' = [cache EXCEPT ![cacheOf(b)][part[b]] = e],
           \A n \in {"path", "partial"} : File(b, n) \in Files => e[n] \in Files
    PROVE  /\ cache' \in Caches /\ cache'[cacheOf(b)][part[b]] = e
           /\ \A x \in Builders \ {b} :
                 /\ ~setting.shared => cache'[x] = cache[x]
                 /\ \A n \in {"path", "partial"} :
                       part[x] \in Archives /\ File(x, n) \in Files => cache'[cacheOf(x)][part[x]][n] \in Files
<1>1. cache \in Caches /\ e \in Entries /\ cacheOf(b) \in Builders \cup {Shared}
  BY SettingType DEF Inv, Types
<1>2. PICK c \in Builders \cup {Shared}, a \in Archives : c = cacheOf(b) /\ a = part[b]
  BY <1>1
<1>3. cache' = [cache EXCEPT ![c][a] = e]
  BY <1>2
<1>4. /\ cache' \in Caches /\ cache'[c][a] = e
      /\ \A d \in Builders \cup {Shared} : \A x \in Archives : d # c \/ x # a => cache'[d][x] = cache[d][x]
      /\ \A d \in (Builders \cup {Shared}) \ {c} : cache'[d] = cache[d]
  BY ONLY <1>1, <1>3, EntryWritten
<1>5. /\ cache' \in Caches /\ cache'[cacheOf(b)][part[b]] = e
      /\ \A d \in Builders \cup {Shared} : \A y \in Archives :
             d # cacheOf(b) \/ y # part[b] => cache'[d][y] = cache[d][y]
      /\ \A d \in (Builders \cup {Shared}) \ {cacheOf(b)} : cache'[d] = cache[d]
  BY <1>2, <1>4
<1>6. ASSUME NEW x \in Builders \ {b}, ~setting.shared PROVE cache'[x] = cache[x]
  BY <1>5, <1>6 DEF cacheOf
<1>7. ASSUME NEW x \in Builders \ {b}, NEW n \in {"path", "partial"}, part[x] \in Archives, File(x, n) \in Files
      PROVE  cache'[cacheOf(x)][part[x]][n] \in Files
  <2>1. cacheOf(x) \in Builders \cup {Shared}
    BY SettingType DEF Inv, Types
  <2>2. CASE cacheOf(x) = cacheOf(b) /\ part[x] = part[b]
    BY <1>5, <1>7, <2>2 DEF File
  <2>3. CASE ~(cacheOf(x) = cacheOf(b) /\ part[x] = part[b])
    BY <1>5, <1>7, <2>1, <2>3 DEF File
  <2> QED BY <2>2, <2>3
<1> QED BY <1>5, <1>6, <1>7

\* What is noted of others' writes.
LEMMA Noted ==
    ASSUME Inv, Notes
    PROVE  /\ raced' \in [Builders -> SUBSET Archives]
           /\ \A x \in Builders :
                 /\ raced[x] \subseteq raced'[x]
                 /\ Unpacks(x) => cache'[cacheOf(x)][part[x]].path = File(x, "path") \/ part[x] \in raced'[x]
<1>1. raced \in [Builders -> SUBSET Archives] /\ \A x \in Builders : Unpacks(x) => part[x] \in Archives
  BY DEF Inv, Types, Unpacks
<1> QED BY <1>1 DEF Notes

\* A builder that goes on writing the file it has open.
LEMMA WritesStep ==
    ASSUME Inv, NEW b \in Builders, pc[b] \in {"open", "copy"}, part[b] \in Archives,
           UNCHANGED <<setting, part, disk>>,
           NEW e \in Entries, cache' = [cache EXCEPT ![cacheOf(b)][part[b]] = e],
           \A n \in {"path", "partial"} : File(b, n) \in Files => e[n] \in Files,
           Goto(b, "copy"), copied' \in [Builders -> 0..Blocks],
           NEW name \in {"partial", "path"}, at' = [at EXCEPT ![b] = name], e[name] \in Files,
           raced' \in [Builders -> SUBSET Archives],
           \A x \in Builders :
               /\ raced[x] \subseteq raced'[x]
               /\ Unpacks(x) => cache'[cacheOf(x)][part[x]].path = File(x, "path") \/ part[x] \in raced'[x]
    PROVE  Inv'
<1>1. /\ cache' \in Caches /\ cache'[cacheOf(b)][part[b]] = e
      /\ \A x \in Builders \ {b} :
            /\ ~setting.shared => cache'[x] = cache[x]
            /\ \A n \in {"path", "partial"} :
                  part[x] \in Archives /\ File(x, n) \in Files => cache'[cacheOf(x)][part[x]][n] \in Files
  BY CacheStep
<1>2. /\ pc'[b] = "copy" /\ at'[b] = name
      /\ \A x \in Builders \ {b} : pc'[x] = pc[x] /\ at'[x] = at[x]
  BY DEF Inv, Types, Goto
<1>3. Types'
  <2>1. cache' \in Caches' /\ pc' \in [Builders -> PCs]
    BY <1>1 DEF Inv, Types, Goto, PCs, Caches, Entries, Files, Block
  <2>2. at' \in [Builders -> {None, "partial", "path", "gone"}] /\ setting' \in Settings
    BY DEF Inv, Types
  <2>3. /\ part' \in [Builders -> Parts \cup {None}]
        /\ staging' \in [Builders -> [Parts -> {None, "begun", "whole", "other"}]]
        /\ final' \in [Builders -> [Parts -> {None, "whole", "other"}]]
    BY DEF Inv, Types, disk
  <2> QED BY <2>1, <2>2, <2>3 DEF Types
<1>4. PartInv(b)' /\ FinalInv(b)'
  BY <1>2, Here, FinalKept DEF PartInv, disk, Archives, Parts
<1>5. WritingInv(b)' /\ CheckedInv(b)'
  BY <1>1, <1>2 DEF WritingInv, CheckedInv, Unpacks, File, cacheOf, Files, Block
<1>6. \A x \in Builders \ {b} : BuilderInv(x)'
  BY <1>1, <1>2, OthersKeep DEF disk
<1> QED BY <1>3, <1>4, <1>5, <1>6 DEF Inv, BuilderInv

LEMMA EntryType == ASSUME Inv, NEW b \in Builders, part[b] \in Archives PROVE cache[cacheOf(b)][part[b]] \in Entries
<1>1. cacheOf(b) \in Builders \cup {Shared} /\ cache \in Caches
  BY SettingType DEF Inv, Types
<1> QED BY <1>1 DEF Caches

LEMMA OpenPartialStep == ASSUME Inv, NEW b \in Builders, OpenPartial(b) PROVE Inv'
<1>1. pc[b] = "open" /\ part[b] \in Archives
  BY Here DEF OpenPartial, At
<1>2. PICK old : old = cache[cacheOf(b)][part[b]]
  OBVIOUS
<1>3. PICK e : e = [old EXCEPT !.partial = Fresh]
  OBVIOUS
<1>4. e \in Entries /\ e["path"] = old["path"] /\ e["partial"] = Fresh
  BY <1>1, <1>2, <1>3, EntryType, WholeIsFile DEF Entries
<1>5. cache' = [cache EXCEPT ![cacheOf(b)][part[b]] = e]
  BY <1>2, <1>3 DEF OpenPartial
<1>6. \A n \in {"path", "partial"} : File(b, n) \in Files => e[n] \in Files
  BY <1>2, <1>4, WholeIsFile DEF File
<1>7. /\ Goto(b, "copy") /\ at' = [at EXCEPT ![b] = "partial"] /\ UNCHANGED <<setting, part, copied, disk, raced>>
      /\ copied \in [Builders -> 0..Blocks] /\ raced \in [Builders -> SUBSET Archives]
  BY DEF OpenPartial, Goto, Inv, Types
<1>8. ASSUME NEW x \in Builders, Unpacks(x) PROVE cache'[cacheOf(x)][part[x]].path = File(x, "path")
  <2>1. /\ cache \in Caches /\ cacheOf(b) \in Builders \cup {Shared} /\ cacheOf(x) \in Builders \cup {Shared}
        /\ part[x] \in Archives
    BY <1>8, SettingType DEF Inv, Types, Unpacks
  <2>2. PICK c \in Builders \cup {Shared}, a \in Archives : c = cacheOf(b) /\ a = part[b]
    BY <1>1, <2>1
  <2>2a. cache' = [cache EXCEPT ![c][a] = e]
    BY <1>5, <2>2
  <2>3. /\ cache' \in Caches /\ cache'[c][a] = e
        /\ \A d \in Builders \cup {Shared} : \A y \in Archives : d # c \/ y # a => cache'[d][y] = cache[d][y]
        /\ \A d \in (Builders \cup {Shared}) \ {c} : cache'[d] = cache[d]
    BY <1>4, <2>1, <2>2a, EntryWritten
  <2>4. CASE cacheOf(x) = c /\ part[x] = a
    BY <1>2, <1>4, <2>2, <2>3, <2>4 DEF File
  <2>5. CASE ~(cacheOf(x) = c /\ part[x] = a)
    BY <2>1, <2>3, <2>5 DEF File
  <2> QED BY <2>4, <2>5
<1> QED BY <1>1, <1>4, <1>5, <1>6, <1>7, <1>8, WholeIsFile, WritesStep

LEMMA CopyStep == ASSUME Inv, NEW b \in Builders, Copy(b) PROVE Inv'
<1>1. /\ pc[b] = "copy" /\ part[b] \in Archives /\ at[b] \in {"partial", "path", "gone"}
      /\ at[b] # "gone" => File(b, at[b]) \in Files
  BY Here DEF Copy, At, WritingInv
<1>2. PICK v \in Arrives :
          /\ cache' = IF v = None \/ at[b] = "gone" THEN cache
                      ELSE [cache EXCEPT ![cacheOf(b)][part[b]][at[b]][copied[b] + 1] = v]
          /\ copied' = [copied EXCEPT ![b] = IF v = None THEN Blocks ELSE copied[b] + 1]
          /\ Notes
  BY DEF Copy
<1>3. copied[b] \in Nat /\ copied[b] < Blocks /\ Goto(b, "copy") /\ UNCHANGED <<setting, part, at, disk>>
  BY ParametersAssumption DEF Copy, Goto, Inv, Types
<1>4. copied' \in [Builders -> 0..Blocks]
  BY <1>2, <1>3, ParametersAssumption DEF Inv, Types
<1>5. CASE cache' = cache
  <2>0. raced' = raced
    BY <1>2, <1>5 DEF Notes, File, Inv, Types
  <2>1. Types'
    BY <1>3, <1>4, <1>5, <2>0 DEF Inv, Types, Goto, PCs, disk, Caches, Entries, Files, Block
  <2>2. pc'[b] = "copy" /\ \A x \in Builders \ {b} : pc'[x] = pc[x]
    BY <1>3 DEF Inv, Types, Goto
  <2>3. PartInv(b)' /\ CheckedInv(b)' /\ FinalInv(b)'
    BY <1>1, <1>3, <2>0, <2>2, Here, FinalKept DEF PartInv, CheckedInv, Unpacks, disk, Archives, Parts
  <2>4. WritingInv(b)'
    BY <1>1, <1>3, <1>5, <2>2 DEF WritingInv, File, cacheOf, Files, Block
  <2> QED BY <1>3, <1>5, <2>0, <2>1, <2>2, <2>3, <2>4, LocalStep DEF BuilderInv, disk
<1>6. CASE cache' # cache
  <2>1. PICK name \in {"partial", "path"} : name = at[b]
    BY <1>1, <1>2, <1>6
  <2>2. PICK old : old = cache[cacheOf(b)][part[b]]
    OBVIOUS
  <2>3. PICK file : file = [old[name] EXCEPT ![copied[b] + 1] = v]
    OBVIOUS
  <2>4. old \in Entries /\ old[name] \in Files /\ v \in Block
    BY <1>1, <1>2, <2>1, <2>2, EntryType DEF File, Arrives, Block
  <2>5. file \in Files
    BY <1>3, <2>3, <2>4, ParametersAssumption DEF Files
  <2>6. PICK e : e = [old EXCEPT ![name] = file]
    OBVIOUS
  <2>7. cache' = [cache EXCEPT ![cacheOf(b)][part[b]] = e]
    BY <1>2, <1>6, <2>1, <2>2, <2>3, <2>6
  <2>8. e \in Entries /\ e[name] = file /\ \A n \in {"path", "partial"} \ {name} : e[n] = old[n]
    BY <2>1, <2>4, <2>5, <2>6 DEF Entries
  <2>9. \A n \in {"path", "partial"} : File(b, n) \in Files => e[n] \in Files
    BY <2>2, <2>5, <2>8 DEF File
  <2>10. at' = [at EXCEPT ![b] = name]
    BY <1>3, <2>1 DEF Inv, Types
  <2>11. /\ raced' \in [Builders -> SUBSET Archives]
         /\ \A x \in Builders :
               /\ raced[x] \subseteq raced'[x]
               /\ Unpacks(x) => cache'[cacheOf(x)][part[x]].path = File(x, "path") \/ part[x] \in raced'[x]
    BY <1>2, Noted
  <2> QED BY <1>1, <1>3, <1>4, <2>5, <2>7, <2>8, <2>9, <2>10, <2>11, WritesStep
<1> QED BY <1>5, <1>6

LEMMA CloseStep == ASSUME Inv, NEW b \in Builders, Close(b) PROVE Inv'
<1>1. /\ pc[b] = "copy" /\ part[b] \in Archives /\ Goto(b, "rename") /\ UNCHANGED <<setting, cache, raced, part, disk>>
      /\ copied' = [copied EXCEPT ![b] = 0] /\ at' = [at EXCEPT ![b] = None]
  BY Here DEF Close, At, Goto
<1>2. Types'
  BY <1>1, ParametersAssumption DEF Inv, Types, Goto, PCs, disk, Caches, Entries, Files, Block
<1>3. pc'[b] = "rename" /\ \A x \in Builders \ {b} : pc'[x] = pc[x] /\ at'[x] = at[x]
  BY <1>1 DEF Inv, Types, Goto
<1>4. PartInv(b)' /\ FinalInv(b)'
  BY <1>1, <1>3, Here, FinalKept DEF PartInv, disk, Archives, Parts
<1>5. WritingInv(b)' /\ CheckedInv(b)'
  BY <1>3 DEF WritingInv, CheckedInv, Unpacks
<1> QED BY <1>1, <1>2, <1>3, <1>4, <1>5, LocalStep DEF BuilderInv, disk

\* The file gets the name under which it is checked; those that write it, and the one it
\* replaces, keep it.
LEMMA RenameStep == ASSUME Inv, NEW b \in Builders, Rename(b) PROVE Inv'
<1>1. CASE Fails(b)
  BY <1>1, EndsStep DEF Fails
<1>2. CASE ~Fails(b)
  <2>1. PICK old, e : /\ old = cache[cacheOf(b)][part[b]]
                      /\ e = [path |-> old.partial, partial |-> None]
    OBVIOUS
  <2>2. /\ pc[b] = "rename" /\ part[b] \in Archives /\ old.partial # None /\ Goto(b, "digest")
        /\ cache' = [cache EXCEPT ![cacheOf(b)][part[b]] = e]
        /\ UNCHANGED <<setting, part, copied, disk>>
    BY <1>2, <2>1, Here DEF Rename, At, File, Goto
  <2>3. \A x \in Builders :
            at'[x] = IF cacheOf(x) # cacheOf(b) \/ part[x] # part[b] THEN at[x]
                     ELSE IF at[x] = "partial" THEN "path" ELSE IF at[x] = "path" THEN "gone" ELSE at[x]
    BY <1>2 DEF Rename
  <2>4. at' \in [Builders -> {None, "partial", "path", "gone"}]
    <3>1. at' = [x \in Builders |-> at'[x]]
      BY <1>2 DEF Rename
    <3>2. \A x \in Builders : at'[x] \in {None, "partial", "path", "gone"}
      BY <2>3 DEF Inv, Types
    <3> QED BY <3>1, <3>2
  <2>5. old \in Entries /\ e \in Entries /\ e.path \in Files /\ e.path = old.partial
    BY <2>1, <2>2, EntryType DEF Entries
  <2>6. cache \in Caches /\ \A x \in Builders : cacheOf(x) \in Builders \cup {Shared}
    BY SettingType DEF Inv, Types
  <2>7. PICK c \in Builders \cup {Shared}, a \in Archives : c = cacheOf(b) /\ a = part[b]
    BY <2>2, <2>6
  <2>8. cache' = [cache EXCEPT ![c][a] = e]
    BY <2>2, <2>7
  <2>9. /\ cache' \in Caches /\ cache'[c][a] = e
        /\ \A d \in Builders \cup {Shared} : \A x \in Archives : d # c \/ x # a => cache'[d][x] = cache[d][x]
        /\ \A d \in (Builders \cup {Shared}) \ {c} : cache'[d] = cache[d]
    BY <2>5, <2>6, <2>8, EntryWritten
  <2>10. /\ cache' \in Caches /\ cache'[cacheOf(b)][part[b]] = e
         /\ \A d \in Builders \cup {Shared} : \A y \in Archives :
                d # cacheOf(b) \/ y # part[b] => cache'[d][y] = cache[d][y]
         /\ \A d \in (Builders \cup {Shared}) \ {cacheOf(b)} : cache'[d] = cache[d]
    BY <2>7, <2>9
  <2>10a. /\ raced' \in [Builders -> SUBSET Archives]
          /\ \A x \in Builders :
                /\ raced[x] \subseteq raced'[x]
                /\ Unpacks(x) => cache'[cacheOf(x)][part[x]].path = File(x, "path") \/ part[x] \in raced'[x]
    BY <1>2, Noted DEF Rename
  <2>10b. \A x \in Builders : FinalInv(x)' /\ \A p \in Parts : \A v : Sound(x, p, v) => Sound(x, p, v)'
    BY <2>2, <2>10a, Here, FinalKept DEF disk
  <2>11. Types'
    <3>1. cache' \in Caches' /\ pc' \in [Builders -> PCs]
      BY <2>2, <2>10 DEF Inv, Types, Goto, PCs, Caches, Entries, Files, Block
    <3>2. /\ setting' \in Settings /\ part' \in [Builders -> Parts \cup {None}] /\ copied' \in [Builders -> 0..Blocks]
          /\ staging' \in [Builders -> [Parts -> {None, "begun", "whole", "other"}]]
          /\ final' \in [Builders -> [Parts -> {None, "whole", "other"}]]
      BY <2>2 DEF Inv, Types, disk
    <3> QED BY <2>4, <2>10a, <3>1, <3>2 DEF Types
  <2>12. pc'[b] = "digest" /\ \A x \in Builders \ {b} : pc'[x] = pc[x]
    BY <2>2 DEF Inv, Types, Goto
  <2>13. BuilderInv(b)'
    BY <2>2, <2>10b, <2>12, Here DEF BuilderInv, PartInv, WritingInv, CheckedInv, Unpacks, disk, Archives, Parts
  <2>14. Files' = Files /\ Whole' = Whole /\ \A x \in Builders : cacheOf(x)' = cacheOf(x)
    BY <2>2 DEF Files, Block, cacheOf, Whole
  <2>15. ASSUME NEW x \in Builders \ {b} PROVE BuilderInv(x)'
    <3>1. PartInv(x)'
      BY <2>2, <2>10b, <2>12, Here DEF PartInv, disk, Archives, Parts
    <3>2. WritingInv(x)'
      <4>1. CASE pc[x] = "copy" /\ cacheOf(x) = cacheOf(b) /\ part[x] = part[b]
        BY <2>2, <2>3, <2>5, <2>10, <2>12, <2>14, <4>1, Here DEF WritingInv, File
      <4>2. CASE pc[x] = "copy" /\ ~(cacheOf(x) = cacheOf(b) /\ part[x] = part[b])
        BY <2>2, <2>3, <2>6, <2>10, <2>12, <2>14, <4>2, Here DEF WritingInv, File
      <4> QED BY <2>12, <4>1, <4>2 DEF WritingInv
    <3>3. CheckedInv(x)'
      <4>1. SUFFICES ASSUME Unpacks(x)
                     PROVE  /\ cache'[cacheOf(x)][part[x]].path \in Files
                            /\ \/ cache'[cacheOf(x)][part[x]].path = Whole
                               \/ setting.shared /\ part[x] \in raced'[x]
        BY <2>2, <2>12, <2>14 DEF CheckedInv, Kept, Unpacks, File
      <4>2. /\ part[x] \in Archives /\ File(x, "path") \in Files /\ Kept(x)
            /\ ~setting.shared => cacheOf(x) # cacheOf(b)
        BY <4>1, Here DEF CheckedInv, Unpacks, cacheOf
      <4>3. CASE cacheOf(x) = cacheOf(b) /\ part[x] = part[b]
        BY <2>5, <2>10, <2>10a, <4>1, <4>2, <4>3 DEF Kept
      <4>4. CASE ~(cacheOf(x) = cacheOf(b) /\ part[x] = part[b])
        BY <2>6, <2>10, <2>10a, <4>2, <4>4 DEF Kept, File
      <4> QED BY <4>3, <4>4
    <3> QED BY <2>10b, <3>1, <3>2, <3>3 DEF BuilderInv
  <2> QED BY <2>11, <2>13, <2>15 DEF Inv
<1> QED BY <1>1, <1>2

-------------------------------------------------------------------------------
\* The strengthened invariant holds in every reachable state.
THEOREM Invariance == Spec => []Inv
<1>1. Inv /\ [Next]_vars => Inv'
  <2> SUFFICES ASSUME Inv, [Next]_vars PROVE Inv'
    OBVIOUS
  <2>1. ASSUME NEW b \in Builders, Step(b) PROVE Inv'
    BY <2>1, RunStep, ContinueStep, LookUpStep, OpenPartialStep, CopyStep, CloseStep, RenameStep,
       CheckDigestStep, CheckInstalledStep, StageStep, MakeStep, PublishStep, CheckVersionStep DEF Step
  <2>2. ASSUME NEW b \in Builders, Die(b) PROVE Inv'
    BY <2>2, EndsStep DEF Die
  <2>3. CASE UNCHANGED vars
    <3>1. Types'
      BY <2>3 DEF vars, disk, Inv, Types, Caches, Entries, Files, Block
    <3>2. \A x \in Builders : BuilderInv(x)'
      BY <2>3, OthersKeep DEF vars, disk, File
    <3> QED BY <3>1, <3>2 DEF Inv
  <2> QED BY <2>1, <2>2, <2>3 DEF Next
<1> QED BY Initial, <1>1, PTL DEF Spec

\* Whatever stands under a final name is whole, for any number of builders, a cache each or
\* one for all, any downloads, and wherever the builders die; but for an archive that others
\* in the same cache replaced by a bad download between its check and its use.
THEOREM Installed == Spec => []InstalledWhole
<1>1. Inv => InstalledWhole
  BY DEF Inv, BuilderInv, FinalInv, Sound, InstalledWhole
<1> QED BY Invariance, <1>1, PTL
===============================================================================
