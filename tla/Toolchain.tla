-------------------------------- MODULE Toolchain --------------------------------
(***************************************************************************)
(* scripts/toolchain.py: builders that download two archives through a     *)
(* cache, unpack them under a prefix of their own and build a runtime from *)
(* them, and that are run again when they fail or die.  They share the     *)
(* cache or have one each.                                                 *)
(*                                                                         *)
(* A file of the cache is the blocks it holds, None where nothing was      *)
(* written.  A writer keeps the file it opened when the file is renamed,   *)
(* and writes at its own offset whatever others do to the file.            *)
(***************************************************************************)
EXTENDS Integers

CONSTANTS Builders,
          Settings,      \* [shared, bad]: one cache for all; downloads may be wrong
          Blocks,        \* the number of blocks of an archive
          MaxDeaths,     \* bound on the builders that die
          Shared,        \* the name of the shared cache
          None

ASSUME ParametersAssumption ==
    /\ Blocks \in Nat \ {0} /\ MaxDeaths \in Nat
    /\ Settings \subseteq [shared : BOOLEAN, bad : BOOLEAN]
    /\ Shared \notin Builders

VARIABLES setting,
          deaths,        \* builders that died so far, or lost the network or the machine
          cache,         \* per cache and archive: the files named path and partial
          pc, part,      \* per builder: where it is, and the part it installs
          copied,        \* per builder: how many blocks it has copied
          at,            \* per builder: the name the file it writes has by now
          staging,       \* per builder and part: what stands in PREFIX/PART.partial
          final,         \* per builder and part: what stands in PREFIX/PART
          raced          \* per builder, to state the properties: the archives that others
                         \* wrote or replaced after it checked them and before it unpacked them

vars == <<setting, deaths, cache, pc, part, copied, at, staging, final, raced>>
disk == <<staging, final>>

\* llvm and llvm-project come from archives, the runtime is built from both.
Archives == {"llvm", "llvm-project"}
Parts == Archives \cup {"runtime"}

Fresh == [n \in 1..Blocks |-> None]
Whole == [n \in 1..Blocks |-> "good"]

Init ==
    /\ setting \in Settings
    /\ deaths = 0
    /\ cache = [c \in Builders \cup {Shared} |-> [a \in Archives |-> [path |-> None, partial |-> None]]]
    /\ pc = [b \in Builders |-> "idle"]
    /\ part = [b \in Builders |-> None]
    /\ copied = [b \in Builders |-> 0]
    /\ at = [b \in Builders |-> None]
    /\ staging = [b \in Builders |-> [p \in Parts |-> None]]
    /\ final = [b \in Builders |-> [p \in Parts |-> None]]
    /\ raced = [b \in Builders |-> {}]

cacheOf(b) == IF setting.shared THEN Shared ELSE b
File(b, name) == cache[cacheOf(b)][part[b]][name]
At(b, label) == pc[b] = label
Done(b) == At(b, "idle") /\ \A p \in Parts : final[b][p] # None

Goto(b, label) ==
    /\ pc' = [pc EXCEPT ![b] = label]
    /\ UNCHANGED <<setting, deaths>>

\* The process ends; what it wrote stays.
Ends(b) ==
    /\ pc' = [pc EXCEPT ![b] = "idle"]
    /\ part' = [part EXCEPT ![b] = None]
    /\ copied' = [copied EXCEPT ![b] = 0]
    /\ at' = [at EXCEPT ![b] = None]

Fails(b) == Ends(b) /\ UNCHANGED <<setting, deaths, cache, raced, disk>>

Passes(b, label) == Goto(b, label) /\ UNCHANGED <<cache, raced, part, copied, at, disk>>

\* Builder b has checked the archive of its part and has not unpacked it yet.
Unpacks(b) ==
    /\ part[b] \in Archives
    /\ pc[b] \in {"stage", "make"} \/ (pc[b] = "installed" /\ part[b] = "llvm")

Notes ==
    raced' = [b \in Builders |->
                 IF Unpacks(b) /\ cache'[cacheOf(b)][part[b]].path # File(b, "path")
                 THEN raced[b] \cup {part[b]} ELSE raced[b]]

-------------------------------------------------------------------------------
(***************************************************************************)
(* main: the compiler is fetched before anything is looked at; a builder   *)
(* that has not everything yet is run again.                               *)
(***************************************************************************)
Run(b) ==
    /\ At(b, "idle") /\ ~Done(b)
    /\ Goto(b, "fetch")
    /\ part' = [part EXCEPT ![b] = "llvm"]
    /\ UNCHANGED <<cache, raced, copied, at, disk>>

\* On to the next part, once one is in place.
Continue(b) ==
    /\ At(b, "next")
    /\ IF part[b] = "runtime" THEN Fails(b)
       ELSE /\ Goto(b, "installed")
            /\ part' = [part EXCEPT ![b] = IF @ = "llvm" THEN "llvm-project" ELSE "runtime"]
            /\ UNCHANGED <<cache, raced, copied, at, disk>>

(***************************************************************************)
(* fetch.                                                                  *)
(***************************************************************************)
LookUp(b) ==
    /\ At(b, "fetch")
    /\ Passes(b, IF File(b, "path") = None THEN "open" ELSE "digest")

\* Opening for writing empties the file, whoever else writes it.
OpenPartial(b) ==
    /\ At(b, "open") /\ Goto(b, "copy")
    /\ cache' = [cache EXCEPT ![cacheOf(b)][part[b]].partial = Fresh]
    /\ at' = [at EXCEPT ![b] = "partial"]
    /\ UNCHANGED <<part, copied, disk, raced>>

\* What arrives: the block, another one, or nothing more because the transfer was cut short.
Arrives == IF setting.bad THEN {"good", "bad", None} ELSE {"good"}

Copy(b) ==
    /\ At(b, "copy") /\ copied[b] < Blocks
    /\ Goto(b, "copy")
    /\ \E v \in Arrives :
           /\ cache' = IF v = None \/ at[b] = "gone" THEN cache
                       ELSE [cache EXCEPT ![cacheOf(b)][part[b]][at[b]][copied[b] + 1] = v]
           /\ Notes
           /\ copied' = [copied EXCEPT ![b] = IF v = None THEN Blocks ELSE @ + 1]
    /\ UNCHANGED <<part, at, disk>>

Close(b) ==
    /\ At(b, "copy") /\ copied[b] = Blocks
    /\ Goto(b, "rename")
    /\ copied' = [copied EXCEPT ![b] = 0]
    /\ at' = [at EXCEPT ![b] = None]
    /\ UNCHANGED <<cache, raced, part, disk>>

\* Others that write the file go on writing it under its new name; what had that name
\* before is gone.
Rename(b) ==
    /\ At(b, "rename")
    /\ \/ File(b, "partial") = None /\ Fails(b)
       \/ /\ File(b, "partial") # None
          /\ Goto(b, "digest")
          /\ cache' = [cache EXCEPT ![cacheOf(b)][part[b]] = [path |-> @.partial, partial |-> None]]
          /\ Notes
          /\ at' = [x \in Builders |->
                       IF cacheOf(x) # cacheOf(b) \/ part[x] # part[b] THEN at[x]
                       ELSE IF at[x] = "partial" THEN "path" ELSE IF at[x] = "path" THEN "gone" ELSE at[x]]
          /\ UNCHANGED <<part, copied, disk>>

Fetched(b) == IF part[b] = "llvm" THEN "installed" ELSE "stage"

CheckDigestNever(b) == At(b, "digest") /\ Passes(b, Fetched(b))   \* a mutant

CheckDigest(b) ==
    /\ At(b, "digest")
    /\ \/ File(b, "path") # Whole /\ Fails(b)
       \/ File(b, "path") = Whole /\ Passes(b, Fetched(b))

(***************************************************************************)
(* install_compiler, the source, build_runtime: made in a directory beside *)
(* the final one, and renamed.                                             *)
(***************************************************************************)
CheckInstalled(b) ==
    /\ At(b, "installed")
    /\ \/ final[b][part[b]] # None /\ Passes(b, IF part[b] = "llvm" THEN "version" ELSE "next")
       \/ final[b][part[b]] = None /\ Passes(b, IF part[b] = "llvm-project" THEN "fetch" ELSE "stage")

Stages(b) ==
    /\ Goto(b, "make")
    /\ staging' = [staging EXCEPT ![b][part[b]] = "begun"]
    /\ UNCHANGED <<cache, raced, part, copied, at, final>>

StageOnce(b) ==   \* a mutant: what an earlier run left behind is not removed
    /\ At(b, "stage") /\ IF staging[b][part[b]] = None THEN Stages(b) ELSE Fails(b)

Stage(b) == At(b, "stage") /\ Stages(b)

\* tar and the build give the whole part from whole inputs, and fail or give something else
\* from others.  An archive that misses blocks cannot be unpacked.
Makes(b) ==
    IF part[b] \in Archives
    THEN IF File(b, "path") = Whole THEN {"whole"}
         ELSE IF \E n \in 1..Blocks : File(b, "path")[n] = None THEN {"failed"} ELSE {"failed", "other"}
    ELSE IF \A a \in Archives : final[b][a] = "whole" THEN {"whole"} ELSE {"failed", "other"}

Make(b) ==
    /\ At(b, "make")
    /\ \E made \in Makes(b) :
           IF made = "failed" THEN Fails(b)
           ELSE /\ Goto(b, "publish")
                /\ staging' = [staging EXCEPT ![b][part[b]] = made]
                /\ UNCHANGED <<cache, raced, part, copied, at, final>>

Publish(b) ==
    /\ At(b, "publish")
    /\ Goto(b, IF part[b] = "llvm" THEN "version" ELSE "next")
    /\ final' = [final EXCEPT ![b][part[b]] = staging[b][part[b]]]
    /\ staging' = [staging EXCEPT ![b][part[b]] = None]
    /\ UNCHANGED <<cache, raced, part, copied, at>>

\* Another compiler may say that it is the one wanted.
CheckVersion(b) ==
    /\ At(b, "version")
    /\ \E right \in IF final[b]["llvm"] = "whole" THEN {TRUE} ELSE BOOLEAN :
           IF right THEN Passes(b, "next") ELSE Fails(b)

Die(b) ==
    /\ ~At(b, "idle") /\ deaths < MaxDeaths
    /\ deaths' = deaths + 1
    /\ Ends(b)
    /\ UNCHANGED <<setting, cache, raced, disk>>

Step(b) ==
    \/ Run(b) \/ Continue(b)
    \/ LookUp(b) \/ OpenPartial(b) \/ Copy(b) \/ Close(b) \/ Rename(b) \/ CheckDigest(b)
    \/ CheckInstalled(b) \/ Stage(b) \/ Make(b) \/ Publish(b) \/ CheckVersion(b)

Next == \E b \in Builders : Step(b) \/ Die(b)

\* A builder runs, and is run again until it has everything.
Spec == Init /\ [][Next]_vars /\ \A b \in Builders : WF_vars(Step(b))

-------------------------------------------------------------------------------
(***************************************************************************)
(* Properties                                                              *)
(***************************************************************************)

\* What builder b made of part p may come from a bad download: in a shared cache, another
\* builder put its own over an archive that b had checked and not yet unpacked.
Replaced(b, p) ==
    /\ setting.shared /\ setting.bad
    /\ IF p = "runtime" THEN raced[b] # {} ELSE p \in raced[b]

\* What stands under a final name is the whole part, made from archives with the pinned
\* digests, although the code takes the existence of the name for it: "Downloads are
\* verified by SHA-256 before use".  The one way around that is an archive that others in
\* the same cache replace between its check and its use.
InstalledWhole ==
    \A b \in Builders : \A p \in Parts : final[b][p] \in {None, "whole"} \/ Replaced(b, p)

\* The cache holds an archive that is not the one pinned.
Poisoned(b) == \E a \in Archives : cache[cacheOf(b)][a].path \notin {None, Whole}

\* A builder that is run again as often as it fails ends with everything installed, whatever
\* earlier runs and other builders left behind; but for an archive that stays in the cache
\* with a wrong digest, which takes a bad download, or a builder that died in a shared cache,
\* and for one that was replaced after its check and stays installed.
Recovers ==
    \A b \in Builders :
        \/ <>Done(b)
        \/ <>[](Poisoned(b) /\ (setting.bad \/ (setting.shared /\ deaths > 0)))
        \/ <>[](\E a \in Archives : Replaced(b, a) /\ final[b][a] = "other")
===============================================================================
