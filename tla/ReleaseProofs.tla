----------------------------- MODULE ReleaseProofs -----------------------------
(***************************************************************************)
(* Proofs about Release: what holds of published releases in whatever      *)
(* order tag pushes, runs started by hand, repeated jobs and the           *)
(* maintainers' commits come; and about Golden, the corpora these releases *)
(* are tested with: whatever processes import, and wherever they die, a    *)
(* manifest that can be read means a whole corpus.                         *)
(***************************************************************************)
EXTENDS Golden, Release, SequenceTheorems, TLAPS

Groups == {"ref", "version"} \X (Versions \cup {None})

Commits == [version : Versions, corpora : SUBSET Versions]

Runs == [pc : PCs, group : Groups, version : Versions, sha : Nat, publish : BOOLEAN, tag_exists : BOOLEAN]

Types ==
    /\ commits \in Seq(Commits) /\ Len(commits) > 0
    /\ tags \in [Versions -> {0} \cup Commit]
    /\ releases = [v \in Versions |-> releases[v]]
    /\ runs \in Seq(Runs) /\ \A r \in Run : runs[r].sha \in Commit

\* Past its preparation.
Prepared(run) == run.pc \in Active \cup {"done", "failed_build", "failed_publish"}

\* What prepare established stays true: the version is that of the commit, and a tag it
\* saw is the commit's.
PreparedInv ==
    \A r \in Run :
        /\ Prepared(runs[r]) => commits[runs[r].sha].version = runs[r].version
        /\ runs[r].tag_exists => tags[runs[r].version] = runs[r].sha

\* A release belongs to the run that made it, which has ended.
ReleasedInv ==
    \A v \in Versions : releases[v] # None =>
        /\ releases[v].by \in Run /\ releases[v].tag \in Commit
        /\ runs[releases[v].by].pc = "done" /\ runs[releases[v].by].version = v
        /\ releases[v].sha = runs[releases[v].by].sha
        /\ releases[v].tag = tags[v]

\* Only the corpus of a published release is imported.
ImportedInv == \A c \in Commit : \A v \in commits[c].corpora : releases[v] # None

\* Of two runs that saw their tags, the one prepared later saw the tag of the other, so its
\* commit holds the other's corpus.
SawItsTag(run) == Prepared(run) /\ run.tag_exists

HasCorpusOf(run, other) == other.version \in commits[run.sha].corpora

Compared(run, other) ==
    SawItsTag(run) /\ SawItsTag(other) /\ run.version # other.version =>
        HasCorpusOf(run, other) \/ HasCorpusOf(other, run)

OneHasTheOther == \A r, s \in Run : Compared(runs[r], runs[s])

Inv == Types /\ PreparedInv /\ ReleasedInv /\ ImportedInv /\ OneHasTheOther

-------------------------------------------------------------------------------
\* A function on the indices of a sequence is a sequence of the same length.
LEMMA SameLength ==
    ASSUME NEW S, NEW s \in Seq(S), NEW f \in [DOMAIN s -> S]
    PROVE  f \in Seq(S) /\ Len(f) = Len(s) /\ DOMAIN f = DOMAIN s
<1>1. DOMAIN s = 1..Len(s) /\ Len(s) \in Nat
  BY LenProperties
<1>2. f \in Seq(S)
  BY <1>1, SeqDef
<1> QED BY <1>1, <1>2, LenProperties

\* An element of a sequence is replaced.
LEMMA Replaced ==
    ASSUME NEW S, NEW s \in Seq(S), NEW i \in DOMAIN s, NEW x \in S
    PROVE  /\ [s EXCEPT ![i] = x] \in Seq(S)
           /\ DOMAIN [s EXCEPT ![i] = x] = DOMAIN s
<1>1. [s EXCEPT ![i] = x] \in [DOMAIN s -> S]
  BY LenProperties
<1> QED BY <1>1, SameLength

\* A sequence grows by one element.
LEMMA Appended ==
    ASSUME NEW S, NEW s \in Seq(S), NEW x \in S
    PROVE  /\ Append(s, x) \in Seq(S) /\ Len(Append(s, x)) = Len(s) + 1
           /\ DOMAIN Append(s, x) = DOMAIN s \cup {Len(s) + 1}
           /\ \A i \in DOMAIN s : Append(s, x)[i] = s[i]
           /\ Append(s, x)[Len(s) + 1] = x
           /\ Len(s) + 1 \notin DOMAIN s
  BY LenProperties, AppendProperties

-------------------------------------------------------------------------------
LEMMA Initial == Init => Inv
<1> SUFFICES ASSUME Init PROVE Inv
  OBVIOUS
<1>1. PICK v \in Versions : commits = <<[version |-> v, corpora |-> {}]>>
  BY DEF Init
<1>2. Len(commits) = 1 /\ Commit = {1} /\ commits[1] = [version |-> v, corpora |-> {}]
  BY <1>1 DEF Commit
<1>3. commits \in Seq(Commits)
  BY <1>1 DEF Commits
<1>4. runs = <<>> /\ runs \in Seq(Runs) /\ Run = {}
  BY DEF Init, Run
<1>5. Types
  BY <1>2, <1>3, <1>4 DEF Init, Types
<1> QED
  BY <1>2, <1>4, <1>5 DEF Init, Inv, PreparedInv, ReleasedInv, ImportedInv, OneHasTheOther

\* A commit is added to the history.
LEMMA PushKeeps ==
    ASSUME Inv, NEW commit \in Commits, Push(commit), \A v \in commit.corpora : releases[v] # None
    PROVE  Inv'
<1>1. /\ commits' \in Seq(Commits) /\ Len(commits') = Len(commits) + 1
      /\ Commit' = Commit \cup {Len(commits) + 1}
      /\ \A c \in Commit : commits'[c] = commits[c]
      /\ commits'[Len(commits) + 1] = commit
  BY Appended DEF Inv, Types, Push, Commit
<1>2. UNCHANGED <<tags, releases, runs>> /\ Run' = Run
  BY DEF Push, Run
<1>3. Types'
  BY <1>1, <1>2, LenProperties DEF Inv, Types
<1>4. \A r \in Run : commits'[runs[r].sha] = commits[runs[r].sha]
  BY <1>1 DEF Inv, Types
<1>5. PreparedInv'
  BY <1>2, <1>4 DEF Inv, PreparedInv, Prepared, Active
<1>6. ReleasedInv'
  BY <1>1, <1>2 DEF Inv, ReleasedInv
<1>7. ImportedInv'
  BY <1>1, <1>2 DEF Inv, ImportedInv
<1>8. OneHasTheOther'
  BY <1>2, <1>4 DEF Inv, OneHasTheOther, Compared, SawItsTag, Prepared, Active, HasCorpusOf
<1> QED BY <1>3, <1>5, <1>6, <1>7, <1>8 DEF Inv

LEMMA MainIsCommit == ASSUME Inv PROVE Len(commits) \in Commit /\ main \in Commits
<1>1. Len(commits) \in Commit
  BY LenProperties DEF Inv, Types, Commit
<1> QED BY <1>1, ElementOfSeq, LenProperties DEF main, Inv, Types, Commit

LEMMA SetVersionStep == ASSUME Inv, SetVersion PROVE Inv'
<1>1. PICK v \in Versions : Push([main EXCEPT !.version = v])
  BY DEF SetVersion
<1>2. PICK commit : commit = [main EXCEPT !.version = v]
  OBVIOUS
<1>3. commit \in Commits /\ commit.corpora = main.corpora
  BY <1>2, MainIsCommit DEF Commits
<1>4. \A w \in commit.corpora : releases[w] # None
  BY <1>3, MainIsCommit DEF Inv, ImportedInv, main
<1> QED BY <1>1, <1>2, <1>3, <1>4, PushKeeps

LEMMA ImportCorpusStep == ASSUME Inv, ImportCorpus PROVE Inv'
<1>1. PICK v \in Versions : releases[v] # None /\ Push([main EXCEPT !.corpora = main.corpora \cup {v}])
  BY DEF ImportCorpus
<1>2. PICK commit : commit = [main EXCEPT !.corpora = main.corpora \cup {v}]
  OBVIOUS
<1>3. commit \in Commits /\ commit.corpora = main.corpora \cup {v}
  BY <1>2, MainIsCommit DEF Commits
<1>4. \A w \in commit.corpora : releases[w] # None
  BY <1>1, <1>3, MainIsCommit DEF Inv, ImportedInv, main
<1> QED BY <1>1, <1>2, <1>3, <1>4, PushKeeps

-------------------------------------------------------------------------------
\* A run is started; one that was pending may be cancelled, and a tag may be made.
LEMMA StartKeeps ==
    ASSUME Inv, NEW run \in Runs, run.sha \in Commit, run.pc = "pending", ~run.tag_exists, Start(run),
           UNCHANGED <<commits, releases>>, tags' \in [Versions -> {0} \cup Commit],
           \A v \in Versions : tags[v] # 0 => tags'[v] = tags[v]
    PROVE  Inv'
<1> DEFINE waiting(r) == runs[r].pc = "pending" /\ runs[r].group = run.group
           kept == [r \in Run |-> IF waiting(r) THEN [runs[r] EXCEPT !.pc = "cancelled"] ELSE runs[r]]
           n == Len(runs) + 1
<1>1. \A r \in Run : runs[r] \in Runs
  BY ElementOfSeq, LenProperties DEF Inv, Types, Run
<1>2. \A r \in Run : [runs[r] EXCEPT !.pc = "cancelled"] \in Runs
  BY <1>1 DEF Runs, PCs
<1>3. kept \in Seq(Runs) /\ Len(kept) = Len(runs) /\ DOMAIN kept = Run
  <2>1. kept \in [Run -> Runs]
    BY <1>1, <1>2
  <2> HIDE DEF kept
  <2> QED BY <2>1, SameLength DEF Inv, Types, Run
<1>4. \A r \in Run : /\ kept[r].version = runs[r].version /\ kept[r].sha = runs[r].sha
                      /\ kept[r].tag_exists = runs[r].tag_exists
                      /\ kept[r].pc = IF waiting(r) THEN "cancelled" ELSE runs[r].pc
  BY <1>1 DEF Runs
<1> HIDE DEF kept
<1>5. runs' = Append(kept, run)
  BY DEF Start, kept
<1>6. /\ runs' \in Seq(Runs) /\ Run' = Run \cup {n} /\ runs'[n] = run /\ n \notin Run
      /\ \A r \in Run : runs'[r] = kept[r]
  BY <1>3, <1>5, Appended DEF Run
<1>7. Commit' = Commit
  BY DEF Commit
<1>8. Types'
  BY <1>4, <1>6, <1>7 DEF Inv, Types
<1>9. ~Prepared(run) /\ \A r \in Run : Prepared(kept[r]) => Prepared(runs[r])
  BY <1>4 DEF Prepared, Active
<1>10. PreparedInv'
  <2>1. ASSUME NEW r \in Run
        PROVE  /\ Prepared(kept[r]) => commits[kept[r].sha].version = kept[r].version
               /\ kept[r].tag_exists => tags'[kept[r].version] = kept[r].sha
    <3>1. runs[r].version \in Versions /\ runs[r].sha \in Commit /\ runs[r].sha # 0
      BY <1>1, LenProperties DEF Runs, Inv, Types, Commit
    <3> QED BY <1>4, <1>9, <3>1 DEF Inv, PreparedInv
  <2> QED BY <1>6, <1>9, <2>1 DEF PreparedInv, Prepared, Active
<1>11. ReleasedInv'
  <2>1. ASSUME NEW v \in Versions, releases[v] # None
        PROVE  /\ releases[v].by \in Run /\ releases[v].tag \in Commit
               /\ kept[releases[v].by].pc = "done" /\ kept[releases[v].by].version = v
               /\ releases[v].sha = kept[releases[v].by].sha
               /\ releases[v].tag = tags'[v]
    <3>1. /\ releases[v].by \in Run /\ releases[v].tag \in Commit
          /\ runs[releases[v].by].pc = "done" /\ runs[releases[v].by].version = v
          /\ releases[v].sha = runs[releases[v].by].sha
          /\ releases[v].tag = tags[v]
      BY <2>1 DEF Inv, ReleasedInv
    <3>2. tags[v] # 0
      BY <3>1, LenProperties DEF Inv, Types, Commit
    <3> QED BY <1>4, <3>1, <3>2
  <2> QED BY <1>6, <1>7, <2>1 DEF ReleasedInv
<1>12. ImportedInv'
  BY <1>7 DEF Inv, ImportedInv
<1>13. OneHasTheOther'
  <2>1. \A r, s \in Run : Compared(kept[r], kept[s])
    BY <1>4, <1>9 DEF Inv, OneHasTheOther, Compared, SawItsTag, HasCorpusOf
  <2>2. \A other : Compared(run, other) /\ Compared(other, run)
    BY DEF Compared, SawItsTag
  <2> QED BY <1>6, <2>1, <2>2 DEF OneHasTheOther, Compared, SawItsTag, Prepared, Active, HasCorpusOf
<1> QED BY <1>8, <1>10, <1>11, <1>12, <1>13 DEF Inv

LEMMA PushTagStep == ASSUME Inv, PushTag PROVE Inv'
<1>1. PICK v \in Versions, c \in Commit :
          /\ tags[v] = 0 /\ tags' = [tags EXCEPT ![v] = c]
          /\ Start(Pending(<<"ref", v>>, v, c, TRUE)) /\ UNCHANGED <<commits, releases>>
  BY DEF PushTag
<1>2. PICK run : run = Pending(<<"ref", v>>, v, c, TRUE)
  OBVIOUS
<1>3. run \in Runs /\ run.sha \in Commit /\ run.pc = "pending" /\ ~run.tag_exists
  BY <1>2, LenProperties DEF Pending, Runs, PCs, Groups, Inv, Types, Commit
<1>4. tags' \in [Versions -> {0} \cup Commit] /\ \A w \in Versions : tags[w] # 0 => tags'[w] = tags[w]
  BY <1>1 DEF Inv, Types
<1> QED BY <1>1, <1>2, <1>3, <1>4, StartKeeps

LEMMA DispatchRunStep == ASSUME Inv, DispatchRun PROVE Inv'
<1>1. PICK input \in Versions \cup {None}, c \in Commit, dry_run \in BOOLEAN :
          /\ Start(Pending(IF input = None THEN <<"ref", None>> ELSE <<"version", input>>,
                           IF input = None THEN commits[c].version ELSE input, c, ~dry_run))
          /\ UNCHANGED <<commits, tags, releases>>
  BY DEF DispatchRun
<1>2. PICK run : run = Pending(IF input = None THEN <<"ref", None>> ELSE <<"version", input>>,
                               IF input = None THEN commits[c].version ELSE input, c, ~dry_run)
  OBVIOUS
<1>3. commits[c].version \in Versions
  <2>1. commits[c] \in Commits
    BY ElementOfSeq, LenProperties DEF Inv, Types, Commit
  <2> QED BY <2>1 DEF Commits
<1>4. run.group \in Groups /\ run.version \in Versions
  BY <1>2, <1>3 DEF Pending, Groups
<1>5. run \in Runs /\ run.sha \in Commit /\ run.pc = "pending" /\ ~run.tag_exists
  BY <1>2, <1>4, LenProperties DEF Pending, Runs, PCs, Inv, Types, Commit
<1> QED BY <1>1, <1>2, <1>5, StartKeeps DEF Inv, Types

-------------------------------------------------------------------------------
\* A job of a run that has not ended moves the run on, and what prepare established holds
\* of it.
LEMMA JobKeeps ==
    ASSUME Inv, NEW r \in Run, NEW run \in Runs, Set(r, run), UNCHANGED <<commits, tags, releases>>,
           run.version = runs[r].version, run.sha = runs[r].sha, runs[r].pc # "done",
           Prepared(run) => commits[run.sha].version = run.version,
           run.tag_exists => tags[run.version] = run.sha,
           \A s \in Run : Compared(run, runs[s])
    PROVE  Inv'
<1>1. /\ runs' \in Seq(Runs) /\ Run' = Run /\ runs'[r] = run
      /\ \A s \in Run \ {r} : runs'[s] = runs[s]
  <2>1. runs' \in Seq(Runs) /\ Run' = Run
    BY Replaced DEF Set, Run, Inv, Types
  <2>2. runs'[r] = run /\ \A s \in Run \ {r} : runs'[s] = runs[s]
    BY DEF Set, Run
  <2> QED BY <2>1, <2>2
<1>2. Commit' = Commit
  BY DEF Commit
<1>3. Types'
  BY <1>1, <1>2 DEF Inv, Types
<1>4. PreparedInv'
  BY <1>1 DEF Inv, PreparedInv, Prepared, Active
<1>5. ReleasedInv'
  BY <1>1, <1>2 DEF Inv, ReleasedInv
<1>6. ImportedInv'
  BY <1>2 DEF Inv, ImportedInv
<1>7. OneHasTheOther'
  <2>1. \A s, t \in Run : Compared(runs'[s], runs'[t])
    BY <1>1 DEF Inv, OneHasTheOther, Compared, SawItsTag, HasCorpusOf
  <2> QED BY <1>1, <2>1 DEF OneHasTheOther, Compared, SawItsTag, Prepared, Active, HasCorpusOf
<1> QED BY <1>3, <1>4, <1>5, <1>6, <1>7 DEF Inv

LEMMA RunType == ASSUME Inv, NEW r \in Run PROVE runs[r] \in Runs
  BY ElementOfSeq, LenProperties DEF Inv, Types, Run

\* A job that only moves the program counter of a run that is prepared, or ends it.
LEMMA GotoKeeps ==
    ASSUME Inv, NEW r \in Run, NEW next \in PCs, Goto(r, next), UNCHANGED <<commits, tags, releases>>,
           runs[r].pc # "done", Prepared(runs[r]) \/ next = "failed"
    PROVE  Inv'
<1>1. PICK run : run = [runs[r] EXCEPT !.pc = next]
  OBVIOUS
<1>2. /\ run \in Runs /\ run.pc = next /\ run.version = runs[r].version
      /\ run.sha = runs[r].sha /\ run.tag_exists = runs[r].tag_exists
  BY <1>1, RunType DEF Runs
<1>3. Prepared(run) => Prepared(runs[r])
  BY <1>2 DEF Prepared, Active
<1>4. \A s \in Run : Compared(run, runs[s])
  BY <1>2, <1>3 DEF Inv, OneHasTheOther, Compared, SawItsTag, HasCorpusOf
<1> QED BY <1>1, <1>2, <1>3, <1>4, JobKeeps DEF Goto, Inv, PreparedInv

\* prepare refuses a version that is not the commit's, a tag that is elsewhere and a commit
\* without the corpus of a tag that is there.
LEMMA ResolveStep == ASSUME Inv, NEW r \in Run, Resolve(r) PROVE Inv'
<1>1. CASE Goto(r, "failed")
  BY <1>1, GotoKeeps DEF Resolve, PCs
<1>2. CASE ~Goto(r, "failed")
  <2> DEFINE v == runs[r].version
             c == runs[r].sha
  <2>1. PICK next, seen : /\ next = IF Missing(c, v) = {} THEN "probe" ELSE "failed"
                          /\ seen = (tags[v] # 0)
    OBVIOUS
  <2>2. PICK run : run = [runs[r] EXCEPT !.pc = next, !.tag_exists = seen]
    OBVIOUS
  <2>3. /\ runs[r].pc = "pending" /\ ~Contradicts(v, c) /\ ~TagElsewhere(v, c) /\ Set(r, run)
        /\ UNCHANGED <<commits, tags, releases>>
    BY <1>2, <2>1, <2>2 DEF Resolve
  <2>4. /\ run \in Runs /\ run.version = v /\ run.sha = c
        /\ run.pc = next /\ run.tag_exists = seen
    BY <2>1, <2>2, RunType DEF Runs, PCs, Active
  <2>5. commits[c].version = v /\ (seen => tags[v] = c)
    BY <2>1, <2>3, RunType DEF Contradicts, TagElsewhere, Runs
  <2>6. ASSUME NEW s \in Run PROVE Compared(run, runs[s])
    <3> SUFFICES ASSUME SawItsTag(run), SawItsTag(runs[s]), v # runs[s].version
                 PROVE  HasCorpusOf(run, runs[s])
      BY <2>4 DEF Compared
    <3>1. Missing(c, v) = {}
      BY <2>1, <2>4 DEF SawItsTag, Prepared, Active
    <3>2. tags[runs[s].version] # 0 /\ runs[s].version \in Versions
      BY RunType, LenProperties DEF SawItsTag, Inv, PreparedInv, Types, Commit, Runs
    <3> QED BY <2>4, <3>1, <3>2 DEF Missing, HasCorpusOf
  <2> QED BY <2>3, <2>4, <2>5, <2>6, JobKeeps
<1> QED BY <1>1, <1>2

LEMMA ProbeStep == ASSUME Inv, NEW r \in Run, Probe(r) PROVE Inv'
<1>1. PICK next \in {"failed", "build"} : Goto(r, next)
  BY DEF Probe
<1> QED BY <1>1, GotoKeeps DEF Probe, PCs, Prepared, Active

LEMMA BuildStep == ASSUME Inv, NEW r \in Run, Build(r) PROVE Inv'
<1>1. PICK next \in {"publish", "done", "failed_build"} : Goto(r, next)
  BY DEF Build
<1> QED BY <1>1, GotoKeeps DEF Build, PCs, Prepared, Active

LEMMA RerunFailedStep == ASSUME Inv, NEW r \in Run, RerunFailed(r) PROVE Inv'
  BY GotoKeeps DEF RerunFailed, PCs, Prepared, Active

LEMMA ViewStep == ASSUME Inv, NEW r \in Run, View(r) PROVE Inv'
<1>1. PICK next \in {"done", "create"} : Goto(r, next)
  BY DEF View
<1> QED BY <1>1, GotoKeeps DEF View, PCs, Prepared, Active

LEMMA CreateFailsStep == ASSUME Inv, NEW r \in Run, CreateFails(r) PROVE Inv'
  BY GotoKeeps DEF CreateFails, PCs, Prepared, Active

\* The release that is created belongs to the run; its tag is where it was, or new.
LEMMA CreateStep == ASSUME Inv, NEW r \in Run, Create(r) PROVE Inv'
<1>0. PICK w, c, run, named, release :
          /\ w = runs[r].version /\ c = runs[r].sha /\ run = [runs[r] EXCEPT !.pc = "done"]
          /\ named = IF tags[w] = 0 THEN c ELSE tags[w]
          /\ release = [sha |-> c, tag |-> named, by |-> r]
  OBVIOUS
<1>1. w \in Versions /\ c \in Commit /\ c # 0
  BY <1>0, RunType, LenProperties DEF Runs, Inv, Types, Commit
<1>2. /\ run \in Runs /\ run.pc = "done" /\ run.version = w /\ run.sha = c
      /\ run.tag_exists = runs[r].tag_exists
  BY <1>0, RunType DEF Runs, PCs
<1>3. tags' = [tags EXCEPT ![w] = named]
  BY <1>0 DEF Create
<1>4. named \in Commit /\ tags'[w] = named
  BY <1>0, <1>1, <1>3 DEF Inv, Types
<1>5. /\ runs[r].pc = "create" /\ releases[w] = None
      /\ releases' = [releases EXCEPT ![w] = release]
      /\ runs' = [runs EXCEPT ![r] = run] /\ UNCHANGED commits
  BY <1>0, <1>4 DEF Create, Goto, Set
<1>6. runs' \in Seq(Runs) /\ Run' = Run
  BY <1>2, <1>5, Replaced DEF Run, Inv, Types
<1>7. runs'[r] = run /\ \A s \in Run \ {r} : runs'[s] = runs[s]
  BY <1>5 DEF Run
<1>8. Commit' = Commit
  BY <1>5 DEF Commit
<1>9. releases'[w] = release /\ \A v \in Versions \ {w} : releases'[v] = releases[v]
  BY <1>1, <1>5 DEF Inv, Types
<1>10. \A v \in Versions : tags[v] # 0 => tags'[v] = tags[v]
  BY <1>0, <1>1, <1>3 DEF Inv, Types
<1>11. Types'
  <2>1. tags' \in [Versions -> {0} \cup Commit']
    BY <1>3, <1>4, <1>8 DEF Inv, Types
  <2>2. releases' = [v \in Versions |-> releases'[v]]
    BY <1>5 DEF Inv, Types
  <2>3. \A s \in Run : runs'[s].sha \in Commit
    BY <1>1, <1>2, <1>7 DEF Inv, Types
  <2> QED BY <1>5, <1>6, <1>8, <2>1, <2>2, <2>3 DEF Inv, Types
<1>12. PreparedInv'
  <2>1. \A s \in Run : runs[s].version \in Versions /\ runs[s].sha # 0
    BY RunType, LenProperties DEF Runs, Inv, Types, Commit
  <2>2. \A s \in Run : /\ runs'[s].version = runs[s].version /\ runs'[s].sha = runs[s].sha
                        /\ runs'[s].tag_exists = runs[s].tag_exists
    BY <1>0, <1>2, <1>7
  <2>3. \A s \in Run : Prepared(runs'[s]) => Prepared(runs[s])
    BY <1>5, <1>7 DEF Prepared, Active
  <2> QED BY <1>5, <1>6, <1>10, <2>1, <2>2, <2>3 DEF Inv, PreparedInv, Prepared, Active
<1>13. ReleasedInv'
  <2>1. ASSUME NEW v \in Versions \ {w}, releases[v] # None
        PROVE  /\ releases[v].by \in Run /\ releases[v].tag \in Commit
               /\ runs'[releases[v].by].pc = "done" /\ runs'[releases[v].by].version = v
               /\ releases[v].sha = runs'[releases[v].by].sha
               /\ releases[v].tag = tags'[v]
    <3>1. /\ releases[v].by \in Run /\ releases[v].tag \in Commit
          /\ runs[releases[v].by].pc = "done" /\ runs[releases[v].by].version = v
          /\ releases[v].sha = runs[releases[v].by].sha
          /\ releases[v].tag = tags[v]
      BY <2>1 DEF Inv, ReleasedInv
    <3>2. tags[v] # 0
      BY <3>1, LenProperties DEF Inv, Types, Commit
    <3> QED BY <1>5, <1>7, <1>10, <3>1, <3>2
  <2>2. /\ release.by \in Run /\ release.tag \in Commit
        /\ runs'[release.by].pc = "done" /\ runs'[release.by].version = w
        /\ release.sha = runs'[release.by].sha
        /\ release.tag = tags'[w]
    BY <1>0, <1>2, <1>4, <1>7
  <2> QED BY <1>6, <1>8, <1>9, <2>1, <2>2 DEF ReleasedInv
<1>14. ImportedInv'
  <2>1. ASSUME NEW k \in Commit, NEW v \in commits[k].corpora PROVE releases'[v] # None
    <3>1. commits[k] \in Commits
      BY ElementOfSeq, LenProperties DEF Inv, Types, Commit
    <3>2. v \in Versions /\ releases[v] # None
      BY <3>1 DEF Commits, Inv, ImportedInv
    <3> QED BY <1>5, <1>9, <3>2
  <2> QED BY <1>5, <1>8, <2>1 DEF ImportedInv
<1>15. OneHasTheOther'
  <2>1. \A s \in Run : Compared(run, runs[s]) /\ Compared(runs[s], run) /\ Compared(run, run)
    <3>1. Prepared(runs[r])
      BY <1>5 DEF Prepared, Active
    <3> QED BY <1>0, <1>2, <3>1 DEF Inv, OneHasTheOther, Compared, SawItsTag, HasCorpusOf
  <2>2. \A s, t \in Run : Compared(runs'[s], runs'[t])
    BY <1>7, <2>1 DEF Inv, OneHasTheOther
  <2> QED BY <1>5, <1>6, <2>2 DEF OneHasTheOther, Compared, SawItsTag, Prepared, Active, HasCorpusOf
<1> QED BY <1>11, <1>12, <1>13, <1>14, <1>15 DEF Inv

-------------------------------------------------------------------------------
\* The strengthened invariant holds in every reachable state.
THEOREM Invariance == Spec => []Inv
<1>1. Inv /\ [Next]_vars => Inv'
  <2> SUFFICES ASSUME Inv, [Next]_vars PROVE Inv'
    OBVIOUS
  <2>1. CASE SetVersion \/ ImportCorpus \/ PushTag \/ DispatchRun
    BY <2>1, SetVersionStep, ImportCorpusStep, PushTagStep, DispatchRunStep
  <2>2. ASSUME NEW r \in Run, Jobs(r) PROVE Inv'
    BY <2>2, ResolveStep, ProbeStep, BuildStep, RerunFailedStep, ViewStep, CreateStep, CreateFailsStep DEF Jobs
  <2>3. CASE UNCHANGED vars
    BY <2>3 DEF vars, Inv, Types, PreparedInv, ReleasedInv, ImportedInv, OneHasTheOther, Compared,
                SawItsTag, HasCorpusOf, Prepared, Active, Commit, Run
  <2> QED BY <2>1, <2>2, <2>3 DEF Next
<1> QED BY Initial, <1>1, PTL DEF Spec

\* The variables keep their types.
THEOREM TypeCorrect == Spec => []TypeOK
<1>1. Inv => TypeOK
  <2> SUFFICES ASSUME Inv PROVE TypeOK
    OBVIOUS
  <2>1. ASSUME NEW c \in Commit
        PROVE  commits[c].version \in Versions /\ commits[c].corpora \subseteq Versions
    <3>1. commits[c] \in Commits
      BY ElementOfSeq, LenProperties DEF Inv, Types, Commit
    <3> QED BY <3>1 DEF Commits
  <2>2. ASSUME NEW r \in Run
        PROVE  runs[r].pc \in PCs /\ runs[r].version \in Versions /\ runs[r].sha \in Commit
    BY RunType DEF Runs, Inv, Types
  <2> QED BY <2>1, <2>2 DEF TypeOK, Inv, Types, ReleasedInv
<1> QED BY Invariance, <1>1, PTL

\* The wheel of a release carries its version: its commit has it.
THEOREM VersionOfItsCommit == Spec => []NamedAsBuilt
<1>1. Inv => NamedAsBuilt
  BY DEF Inv, NamedAsBuilt, ReleasedInv, PreparedInv, Prepared
<1> QED BY Invariance, <1>1, PTL

\* The tag of a release is the commit it was built from, if the tag was there when its run
\* was prepared.
THEOREM TagOfItsCommit == Spec => []TaggedAsBuiltIfKnown
<1>1. Inv => TaggedAsBuiltIfKnown
  BY DEF Inv, TaggedAsBuiltIfKnown, ReleasedInv, PreparedInv
<1> QED BY Invariance, <1>1, PTL

\* No step of anybody replaces or removes a release.
THEOREM NeverReplaced == Spec => ReleasesStay
<1>1. ASSUME Inv, [Next]_vars
      PROVE  \A v \in Versions : releases[v] # None => releases'[v] = releases[v]
  <2>1. ASSUME NEW r \in Run, Create(r)
        PROVE  \A v \in Versions : releases[v] # None => releases'[v] = releases[v]
    BY <1>1, <2>1 DEF Create, Inv, Types
  <2>2. CASE UNCHANGED releases
    BY <2>2
  <2> QED BY <1>1, <2>1, <2>2 DEF Next, SetVersion, ImportCorpus, Push, PushTag, DispatchRun, Jobs,
                Resolve, Probe, Build, RerunFailed, View, CreateFails, vars
<1>2. Inv /\ [Next]_vars => [\A v \in Versions : releases[v] # None => releases'[v] = releases[v]]_vars
  BY <1>1
<1> QED BY Invariance, <1>2, PTL DEF Spec, ReleasesStay

\* A release whose tag was seen is made from a commit that holds the corpus of every
\* earlier such release, however their runs overlapped.
THEOREM TestedAgainstEarlier == Spec => CorporaCompleteIfTagged
<1> DEFINE Tested == \A v, w \in Versions :
           /\ releases[w] = None /\ releases'[w] # None /\ releases[v] # None
           /\ runs[releases[v].by].tag_exists /\ runs[releases'[w].by].tag_exists
           => v \in commits[releases'[w].sha].corpora
<1>1. ASSUME Inv, [Next]_vars PROVE Tested
  <2>1. ASSUME NEW r \in Run, Create(r) PROVE Tested
    <3> SUFFICES ASSUME NEW v \in Versions, NEW w \in Versions,
                        releases[w] = None, releases'[w] # None, releases[v] # None,
                        runs[releases[v].by].tag_exists, runs[releases'[w].by].tag_exists
                 PROVE  v \in commits[releases'[w].sha].corpora
      OBVIOUS
    <3>1. w = runs[r].version /\ releases'[w].by = r /\ releases'[w].sha = runs[r].sha
      BY <1>1, <2>1 DEF Create, Inv, Types
    <3>2. PICK s \in Run : s = releases[v].by /\ runs[s].pc = "done" /\ runs[s].version = v
      BY <1>1 DEF Inv, ReleasedInv
    <3>3. SawItsTag(runs[r]) /\ SawItsTag(runs[s])
      BY <2>1, <3>1, <3>2 DEF SawItsTag, Prepared, Active, Create
    <3>4. HasCorpusOf(runs[r], runs[s]) \/ HasCorpusOf(runs[s], runs[r])
      BY <1>1, <3>1, <3>2, <3>3 DEF Inv, OneHasTheOther, Compared
    <3>5. ~HasCorpusOf(runs[s], runs[r])
      BY <1>1, <3>1 DEF Inv, Types, ImportedInv, HasCorpusOf
    <3> QED BY <3>1, <3>2, <3>4, <3>5 DEF HasCorpusOf
  <2>2. CASE UNCHANGED releases
    BY <2>2
  <2> QED BY <1>1, <2>1, <2>2 DEF Next, SetVersion, ImportCorpus, Push, PushTag, DispatchRun, Jobs,
                Resolve, Probe, Build, RerunFailed, View, CreateFails, vars
<1>2. Inv /\ [Next]_vars => [Tested]_vars
  BY <1>1
<1> QED BY Invariance, <1>2, PTL DEF Spec, CorporaCompleteIfTagged

-------------------------------------------------------------------------------
(***************************************************************************)
(* Golden.  The process that made a directory is the only one that writes  *)
(* there, and it writes the manifest last.                                 *)
(***************************************************************************)
ImporterPCs == {"idle", "download", "exists", "unpack", "mkdir", "write", "manifest"}

GoldenTypes ==
    /\ assets = [t \in Tags |-> assets[t]]
    /\ tree \in [Tags -> {Absent} \cup Directories]
    /\ pc \in [Importers -> ImporterPCs]
    /\ tag \in [Importers -> Tags \cup {Absent}]
    /\ archive = [i \in Importers |-> archive[i]]
    /\ todo \in [Importers -> SUBSET Blobs]
    /\ writing \in [Importers -> Blobs \cup {Absent}]

\* A release publishes what can be published under its tag.
AssetsInv == \A t \in Tags : assets[t] # Absent => assets[t] \in Publishable(t)

\* What the process has is what was published, and once unpacked it is the whole corpus.
DownloadedInv(i) ==
    /\ pc[i] # "idle" => tag[i] \in Tags
    /\ pc[i] \in {"exists", "unpack", "mkdir", "write", "manifest"} => archive[i] \in Publishable(tag[i])
    /\ pc[i] \in {"mkdir", "write", "manifest"} => Sound(archive[i].packed, tag[i])

Writes(i) == pc[i] \in {"write", "manifest"}

\* The directory the process writes has no manifest yet, and the files that are not to do
\* have their contents.
WriterInv(i) ==
    /\ Writes(i) =>
          /\ tree[tag[i]] # Absent
          /\ tree[tag[i]].manifest = IF pc[i] = "write" THEN Absent ELSE Truncated
          /\ \A b \in Blobs \ todo[i] : tree[tag[i]].files[b] = <<tag[i], b>>
    /\ writing[i] # Absent => pc[i] = "write" /\ writing[i] \in todo[i]
    /\ pc[i] = "mkdir" => todo[i] = Blobs
    /\ pc[i] = "manifest" => todo[i] = {}

OneWriter == \A i, j \in Importers : Writes(i) /\ Writes(j) /\ tag[i] = tag[j] => i = j

ReadableInv == \A t \in Tags : Readable(t) => tree[t].files = encode_corpus(t)

GoldenInv ==
    /\ GoldenTypes
    /\ AssetsInv
    /\ \A i \in Importers : DownloadedInv(i) /\ WriterInv(i)
    /\ OneWriter
    /\ ReadableInv

-------------------------------------------------------------------------------
\* The checks of import let only the corpus of the tag through.
LEMMA SoundIsWhole ==
    ASSUME NEW t \in Tags, NEW a \in Publishable(t), Sound(a.packed, t)
    PROVE  a.packed.files = encode_corpus(t) /\ a.packed.manifest = Manifest(t, encode_corpus(t), Absent)
<1> DEFINE good == generate(t)
<1>1. good = [manifest |-> [version |-> t, entries |-> encode_corpus(t), release_asset |-> Absent],
              files |-> encode_corpus(t)]
  BY DEF generate, Directory, Manifest
<1>2. encode_corpus(t) = [b \in Blobs |-> <<t, b>>]
  BY DEF encode_corpus
<1>3. CASE a = pack(good)
  BY <1>1, <1>3 DEF pack, Manifest
<1>4. ASSUME NEW v \in Tags \ {t}, a = pack(generate(v))
      PROVE  FALSE
  BY <1>4 DEF pack, generate, Directory, Manifest, Sound
<1>5. ASSUME NEW b \in Blobs, a = pack([good EXCEPT !.files[b] = Corrupt])
      PROVE  a.packed.files = encode_corpus(t) /\ a.packed.manifest = good.manifest
  <2> DEFINE bad == [encode_corpus(t) EXCEPT ![b] = Corrupt]
  <2>1. a.packed = [good EXCEPT !.files[b] = Corrupt]
    BY <1>5 DEF pack
  <2>2. a.packed.manifest = good.manifest /\ a.packed.files = bad
    BY <1>1, <2>1
  <2>3. good.manifest.entries = encode_corpus(t)
    BY <1>1
  <2>4. \A c \in Blobs : bad[c] = encode_corpus(t)[c]
    BY <2>2, <2>3 DEF Sound
  <2>5. bad = [c \in Blobs |-> bad[c]]
    BY <1>2
  <2>6. bad = encode_corpus(t)
    <3> HIDE DEF bad
    <3> QED BY <1>2, <2>4, <2>5
  <2> QED BY <2>2, <2>6
<1>6. good.manifest = Manifest(t, encode_corpus(t), Absent)
  BY <1>1 DEF Manifest
<1> HIDE DEF good
<1>7. a = pack(good) \/ (\E v \in Tags \ {t} : a = pack(generate(v)))
         \/ \E b \in Blobs : a = pack([good EXCEPT !.files[b] = Corrupt])
  BY DEF Publishable, good
<1> QED BY <1>3, <1>4, <1>5, <1>6, <1>7

LEMMA GoldenInitial == GoldenInit => GoldenInv
  BY DEF GoldenInit, GoldenInv, GoldenTypes, ImporterPCs, AssetsInv, DownloadedInv, WriterInv, Writes, OneWriter,
         ReadableInv,
         Readable, HasManifest

\* A step of one process that leaves tests/golden and the releases alone keeps the
\* invariant if its own part holds afterwards and it does not start to write.
LEMMA OwnStep ==
    ASSUME GoldenInv, NEW i \in Importers, GoldenTypes', UNCHANGED <<assets, tree>>,
           DownloadedInv(i)', WriterInv(i)', ~Writes(i)',
           \A j \in Importers \ {i} : pc'[j] = pc[j] /\ tag'[j] = tag[j] /\ archive'[j] = archive[j]
                                      /\ todo'[j] = todo[j] /\ writing'[j] = writing[j]
    PROVE  GoldenInv'
<1>1. AssetsInv'
  BY DEF GoldenInv, AssetsInv, Publishable
<1>2. ASSUME NEW j \in Importers \ {i} PROVE DownloadedInv(j)' /\ WriterInv(j)'
  <2>1. DownloadedInv(j) /\ WriterInv(j)
    BY DEF GoldenInv
  <2>2. DownloadedInv(j)'
    BY <2>1 DEF DownloadedInv, Sound
  <2>3. WriterInv(j)'
    BY <2>1 DEF WriterInv, Writes
  <2> QED BY <2>2, <2>3
<1>3. OneWriter'
  BY DEF GoldenInv, OneWriter, Writes
<1>4. ReadableInv'
  BY DEF GoldenInv, ReadableInv, Readable, HasManifest
<1> QED BY <1>1, <1>2, <1>3, <1>4 DEF GoldenInv

LEMMA Ending ==
    ASSUME GoldenInv, NEW i \in Importers, Ends(i), UNCHANGED tree
    PROVE  GoldenInv'
<1>1. GoldenTypes'
  BY DEF GoldenInv, GoldenTypes, Ends, GoesTo, ImporterPCs
<1>2. pc'[i] = "idle" /\ writing'[i] = Absent
  BY DEF GoldenInv, GoldenTypes, Ends, GoesTo
<1>3. DownloadedInv(i)' /\ WriterInv(i)' /\ ~Writes(i)'
  BY <1>2 DEF DownloadedInv, WriterInv, Writes
<1>4. \A j \in Importers \ {i} : pc'[j] = pc[j] /\ tag'[j] = tag[j] /\ archive'[j] = archive[j]
                                  /\ todo'[j] = todo[j] /\ writing'[j] = writing[j]
  BY DEF GoldenInv, GoldenTypes, Ends, GoesTo
<1> QED BY <1>1, <1>3, <1>4, OwnStep DEF Ends

LEMMA PublishStep ==
    ASSUME GoldenInv, NEW t \in Tags, Publish(t)
    PROVE  GoldenInv'
<1>1. GoldenTypes'
  BY DEF GoldenInv, GoldenTypes, Publish
<1>2. AssetsInv'
  BY DEF GoldenInv, GoldenTypes, AssetsInv, Publish
<1>3. \A j \in Importers : DownloadedInv(j)'
  BY DEF GoldenInv, DownloadedInv, Publish, Sound
<1>4. \A j \in Importers : WriterInv(j)'
  BY DEF GoldenInv, WriterInv, Publish, Writes
<1>5. OneWriter' /\ ReadableInv'
  BY DEF GoldenInv, OneWriter, ReadableInv, Publish, Writes, Readable, HasManifest
<1> QED BY <1>1, <1>2, <1>3, <1>4, <1>5 DEF GoldenInv

\* What is cleaned up is not being written: a writer has its tag.
LEMMA CleanUpStep ==
    ASSUME GoldenInv, NEW t \in Tags, CleanUp(t)
    PROVE  GoldenInv'
<1>1. GoldenTypes' /\ AssetsInv'
  BY DEF GoldenInv, GoldenTypes, CleanUp, AssetsInv
<1>2. \A u \in Tags \ {t} : tree'[u] = tree[u]
  BY DEF GoldenInv, GoldenTypes, CleanUp
<1>3. \A j \in Importers : DownloadedInv(j)'
  BY DEF GoldenInv, DownloadedInv, CleanUp, Sound
<1>4. ASSUME NEW j \in Importers PROVE WriterInv(j)'
  <2>1. WriterInv(j) /\ DownloadedInv(j) /\ tag[j] # t
    BY DEF GoldenInv, CleanUp
  <2>2. Writes(j) => tree'[tag[j]] = tree[tag[j]]
    BY <1>2, <2>1 DEF DownloadedInv, Writes
  <2> QED BY <2>1, <2>2 DEF WriterInv, Writes, CleanUp
<1>5. OneWriter'
  BY DEF GoldenInv, OneWriter, CleanUp, Writes
<1>6. ReadableInv'
  <2>1. tree'[t] = Absent
    BY DEF GoldenInv, GoldenTypes, CleanUp
  <2> QED BY <1>2, <2>1 DEF GoldenInv, ReadableInv, Readable, HasManifest
<1> QED BY <1>1, <1>3, <1>4, <1>5, <1>6 DEF GoldenInv

-------------------------------------------------------------------------------
LEMMA ImportStep ==
    ASSUME GoldenInv, NEW i \in Importers, NEW t \in Tags, Import(i, t)
    PROVE  GoldenInv'
<1>1. GoldenTypes'
  BY DEF GoldenInv, GoldenTypes, Import, GoesTo, ImporterPCs
<1>2. pc'[i] = "download" /\ tag'[i] = t /\ writing'[i] = Absent
  BY DEF GoldenInv, GoldenTypes, Import, GoesTo, At, WriterInv
<1>3. DownloadedInv(i)' /\ WriterInv(i)' /\ ~Writes(i)'
  BY <1>2 DEF DownloadedInv, WriterInv, Writes
<1>4. \A j \in Importers \ {i} : pc'[j] = pc[j] /\ tag'[j] = tag[j]
  BY DEF GoldenInv, GoldenTypes, Import, GoesTo
<1> QED BY <1>1, <1>3, <1>4, OwnStep DEF Import

LEMMA DownloadStep ==
    ASSUME GoldenInv, NEW i \in Importers, Download(i)
    PROVE  GoldenInv'
<1>1. CASE Ends(i)
  BY <1>1, Ending DEF Download
<1>2. CASE ~Ends(i)
  <2>1. /\ At(i, "download") /\ assets[tag[i]] # Absent
        /\ archive' = [archive EXCEPT ![i] = assets[tag[i]]]
        /\ GoesTo(i, "exists")
        /\ UNCHANGED <<assets, tag, todo, writing, tree>>
    BY <1>2 DEF Download
  <2>2. GoldenTypes'
    BY <2>1 DEF GoldenInv, GoldenTypes, GoesTo, ImporterPCs
  <2>3. pc'[i] = "exists" /\ archive'[i] = assets[tag[i]] /\ tag[i] \in Tags /\ writing[i] = Absent
    BY <2>1 DEF GoldenInv, GoldenTypes, GoesTo, At, WriterInv, DownloadedInv
  <2>4. archive'[i] \in Publishable(tag[i])
    BY <2>1, <2>3 DEF GoldenInv, AssetsInv
  <2>5. DownloadedInv(i)' /\ WriterInv(i)' /\ ~Writes(i)'
    BY <2>1, <2>3, <2>4 DEF DownloadedInv, WriterInv, Writes
  <2>6. \A j \in Importers \ {i} : pc'[j] = pc[j] /\ archive'[j] = archive[j]
    BY <2>1 DEF GoldenInv, GoldenTypes, GoesTo
  <2> QED BY <2>1, <2>2, <2>5, <2>6, OwnStep
<1> QED BY <1>1, <1>2

LEMMA CheckAbsentStep ==
    ASSUME GoldenInv, NEW i \in Importers, CheckAbsent(i)
    PROVE  GoldenInv'
<1>1. CASE Refuse(i)
  BY <1>1, Ending DEF Refuse
<1>2. CASE ~Refuse(i)
  <2>1. /\ At(i, "exists") /\ GoesTo(i, "unpack")
        /\ UNCHANGED <<assets, tree, tag, archive, todo, writing>>
    BY <1>2 DEF CheckAbsent
  <2>2. GoldenTypes'
    BY <2>1 DEF GoldenInv, GoldenTypes, GoesTo, ImporterPCs
  <2>3. pc'[i] = "unpack"
    BY <2>1 DEF GoldenInv, GoldenTypes, GoesTo
  <2>4. DownloadedInv(i)' /\ WriterInv(i)' /\ ~Writes(i)'
    BY <2>1, <2>3 DEF GoldenInv, At, DownloadedInv, WriterInv, Writes
  <2>5. \A j \in Importers \ {i} : pc'[j] = pc[j]
    BY <2>1 DEF GoldenInv, GoldenTypes, GoesTo
  <2> QED BY <2>1, <2>2, <2>4, <2>5, OwnStep
<1> QED BY <1>1, <1>2

LEMMA UnpackStep ==
    ASSUME GoldenInv, NEW i \in Importers, Unpack(i)
    PROVE  GoldenInv'
<1>1. CASE Refuse(i)
  BY <1>1, Ending DEF Refuse
<1>2. CASE ~Refuse(i)
  <2>1. /\ At(i, "unpack") /\ Sound(archive[i].packed, tag[i]) /\ GoesTo(i, "mkdir")
        /\ todo' = [todo EXCEPT ![i] = Blobs]
        /\ UNCHANGED <<assets, tree, tag, archive, writing>>
    BY <1>2 DEF Unpack
  <2>2. GoldenTypes'
    BY <2>1 DEF GoldenInv, GoldenTypes, GoesTo, ImporterPCs
  <2>3. pc'[i] = "mkdir"
    BY <2>1 DEF GoldenInv, GoldenTypes, GoesTo
  <2>4. DownloadedInv(i)' /\ ~Writes(i)'
    BY <2>1, <2>3 DEF GoldenInv, At, DownloadedInv, Writes, Sound
  <2>5. WriterInv(i)'
    BY <2>1, <2>3 DEF GoldenInv, GoldenTypes, At, WriterInv, Writes
  <2>6. \A j \in Importers \ {i} : pc'[j] = pc[j] /\ todo'[j] = todo[j]
    BY <2>1 DEF GoldenInv, GoldenTypes, GoesTo
  <2> QED BY <2>1, <2>2, <2>4, <2>5, <2>6, OwnStep
<1> QED BY <1>1, <1>2

-------------------------------------------------------------------------------
\* A step of one process that writes the directory of its tag, where no other process writes.
LEMMA WritingStep ==
    ASSUME GoldenInv, NEW i \in Importers, NEW t \in Tags, tag[i] = t, GoldenTypes', UNCHANGED assets,
           \A u \in Tags \ {t} : tree'[u] = tree[u],
           \A j \in Importers \ {i} : Writes(j) => tag[j] # t,
           \A j \in Importers \ {i} : pc'[j] = pc[j] /\ tag'[j] = tag[j] /\ archive'[j] = archive[j]
                                      /\ todo'[j] = todo[j] /\ writing'[j] = writing[j],
           Writes(i)' => tag'[i] = t,
           DownloadedInv(i)', WriterInv(i)',
           Readable(t)' => tree'[t].files = encode_corpus(t)
    PROVE  GoldenInv'
<1>1. AssetsInv'
  BY DEF GoldenInv, AssetsInv, Publishable
<1>2. ASSUME NEW j \in Importers \ {i} PROVE DownloadedInv(j)' /\ WriterInv(j)'
  <2>1. DownloadedInv(j) /\ WriterInv(j)
    BY DEF GoldenInv
  <2>2. DownloadedInv(j)'
    BY <2>1 DEF DownloadedInv, Sound
  <2>3. Writes(j) => tree'[tag[j]] = tree[tag[j]]
    BY <2>1 DEF DownloadedInv, Writes
  <2>4. WriterInv(j)'
    BY <2>1, <2>3 DEF WriterInv, Writes
  <2> QED BY <2>2, <2>4
<1>3. OneWriter'
  BY DEF GoldenInv, OneWriter, Writes
<1>4. ReadableInv'
  BY DEF GoldenInv, ReadableInv, Readable, HasManifest
<1> QED BY <1>1, <1>2, <1>3, <1>4 DEF GoldenInv

\* A file of a directory, or its manifest, gets other contents.
LEMMA FileWritten ==
    ASSUME NEW f, f \in [Tags -> {Absent} \cup Directories], NEW t \in Tags, f[t] # Absent,
           NEW b \in Blobs, NEW c \in Contents, NEW g,
           g = [f EXCEPT ![t].files[b] = c]
    PROVE  /\ g \in [Tags -> {Absent} \cup Directories]
           /\ g[t] \in Directories /\ g[t].manifest = f[t].manifest
           /\ g[t].files[b] = c /\ \A x \in Blobs \ {b} : g[t].files[x] = f[t].files[x]
           /\ \A u \in Tags \ {t} : g[u] = f[u]
<1>1. f[t] \in Directories
  OBVIOUS
<1>2. PICK d \in Directories : d = [f[t] EXCEPT !.files[b] = c]
  BY <1>1 DEF Directories
<1>3. g = [f EXCEPT ![t] = d]
  BY <1>2
<1>4. d.manifest = f[t].manifest /\ d.files[b] = c /\ \A x \in Blobs \ {b} : d.files[x] = f[t].files[x]
  BY <1>1, <1>2 DEF Directories
<1> QED BY <1>2, <1>3, <1>4

LEMMA ManifestWritten ==
    ASSUME NEW f, f \in [Tags -> {Absent} \cup Directories], NEW t \in Tags, f[t] # Absent,
           NEW m \in {Absent, Truncated} \cup Manifests, NEW g,
           g = [f EXCEPT ![t].manifest = m]
    PROVE  /\ g \in [Tags -> {Absent} \cup Directories]
           /\ g[t] \in Directories /\ g[t].manifest = m /\ g[t].files = f[t].files
           /\ \A u \in Tags \ {t} : g[u] = f[u]
<1>1. f[t] \in Directories
  OBVIOUS
<1>2. PICK d \in Directories : d = [f[t] EXCEPT !.manifest = m]
  BY <1>1 DEF Directories
<1>3. g = [f EXCEPT ![t] = d]
  BY <1>2
<1>4. d.manifest = m /\ d.files = f[t].files
  BY <1>1, <1>2 DEF Directories
<1> QED BY <1>2, <1>3, <1>4

\* No other process writes where this one makes a directory, or writes already.
LEMMA Alone ==
    ASSUME GoldenInv, NEW i \in Importers, tree[tag[i]] = Absent \/ Writes(i),
           NEW j \in Importers \ {i}, Writes(j)
    PROVE  tag[j] # tag[i]
  BY DEF GoldenInv, OneWriter, WriterInv

LEMMA MakeDirectoryStep ==
    ASSUME GoldenInv, NEW i \in Importers, MakeDirectory(i)
    PROVE  GoldenInv'
<1>1. CASE Refuse(i)
  BY <1>1, Ending DEF Refuse
<1>2. CASE ~Refuse(i)
  <2>0. PICK t : t = tag[i]
    OBVIOUS
  <2>1. /\ At(i, "mkdir") /\ tree[t] = Absent /\ GoesTo(i, "write")
        /\ tree' = [tree EXCEPT ![t] = Empty]
        /\ UNCHANGED <<assets, tag, archive, todo, writing>>
    BY <2>0, <1>2 DEF MakeDirectory, Makes
  <2>2. t \in Tags /\ Sound(archive[i].packed, t)
    BY <2>0, <2>1 DEF GoldenInv, At, DownloadedInv
  <2>3. Empty \in Directories /\ Empty.manifest = Absent
    BY DEF Empty, Directory, Directories, Contents
  <2>4. GoldenTypes' /\ tree'[t] = Empty /\ \A u \in Tags \ {t} : tree'[u] = tree[u]
    BY <2>0, <2>1, <2>2, <2>3 DEF GoldenInv, GoldenTypes, GoesTo, ImporterPCs
  <2>5. pc'[i] = "write" /\ writing'[i] = Absent
    BY <2>0, <2>1 DEF GoldenInv, GoldenTypes, GoesTo, At, WriterInv
  <2>6. DownloadedInv(i)'
    BY <2>0, <2>1, <2>2, <2>5 DEF GoldenInv, At, DownloadedInv, Sound
  <2>7. WriterInv(i)'
    <3>1. todo[i] = Blobs
      BY <2>0, <2>1 DEF GoldenInv, At, WriterInv
    <3>2. todo'[i] = Blobs /\ tag'[i] = t /\ tree'[t] # Absent /\ tree'[t].manifest = Absent
      BY <2>0, <2>1, <2>3, <2>4, <3>1, AbsenceAssumption
    <3>3. Blobs \ todo'[i] = {}
      BY <3>2
    <3> QED BY <2>5, <3>2, <3>3 DEF WriterInv, Writes
  <2>8. ~Readable(t)'
    BY <2>0, <2>3, <2>4 DEF Readable, HasManifest
  <2>9. \A j \in Importers \ {i} : pc'[j] = pc[j]
    BY <2>0, <2>1 DEF GoldenInv, GoldenTypes, GoesTo
  <2>10. \A j \in Importers \ {i} : Writes(j) => tag[j] # t
    BY <2>0, <2>1, Alone
  <2> QED BY <2>0, <2>1, <2>2, <2>4, <2>6, <2>7, <2>8, <2>9, <2>10, WritingStep
<1> QED BY <1>1, <1>2

LEMMA OpenBlobStep ==
    ASSUME GoldenInv, NEW i \in Importers, OpenBlob(i)
    PROVE  GoldenInv'
<1>0. PICK t : t = tag[i]
  OBVIOUS
<1>1. PICK b \in todo[i] : /\ tree' = [tree EXCEPT ![t].files[b] = Truncated]
                           /\ writing' = [writing EXCEPT ![i] = b]
  BY <1>0 DEF OpenBlob
<1>2. At(i, "write") /\ UNCHANGED <<assets, pc, tag, archive, todo>> /\ b \in Blobs
  BY <1>0 DEF OpenBlob, GoldenInv, GoldenTypes
<1>3. DownloadedInv(i) /\ WriterInv(i) /\ Writes(i) /\ t \in Tags /\ tree[t] # Absent
  BY <1>0, <1>2 DEF GoldenInv, At, DownloadedInv, WriterInv, Writes
<1>4. /\ tree' \in [Tags -> {Absent} \cup Directories]
      /\ tree'[t] \in Directories /\ tree'[t].manifest = tree[t].manifest
      /\ \A x \in Blobs \ {b} : tree'[t].files[x] = tree[t].files[x]
      /\ \A u \in Tags \ {t} : tree'[u] = tree[u]
  <2>1. tree \in [Tags -> {Absent} \cup Directories]
    BY DEF GoldenInv, GoldenTypes
  <2>2. PICK c \in Contents : tree' = [tree EXCEPT ![t].files[b] = c]
    BY <1>1 DEF Contents
  <2> QED BY <1>2, <1>3, <2>1, <2>2, FileWritten
<1>5. GoldenTypes'
  BY <1>1, <1>2, <1>4 DEF GoldenInv, GoldenTypes
<1>6. DownloadedInv(i)'
  BY <1>0, <1>2, <1>3 DEF DownloadedInv, Sound
<1>7. WriterInv(i)'
  <2>1. writing'[i] = b
    BY <1>0, <1>1 DEF GoldenInv, GoldenTypes
  <2> QED BY <1>0, <1>1, <1>2, <1>3, <1>4, <2>1, AbsenceAssumption DEF WriterInv, Writes, At
<1>8. ~Readable(t)'
  BY <1>0, <1>2, <1>3, <1>4 DEF Readable, HasManifest, WriterInv, At
<1>9. \A j \in Importers \ {i} : writing'[j] = writing[j]
  BY <1>0, <1>1 DEF GoldenInv, GoldenTypes
<1>10. \A j \in Importers \ {i} : Writes(j) => tag[j] # t
  BY <1>0, <1>3, Alone
<1> QED BY <1>0, <1>2, <1>3, <1>4, <1>5, <1>6, <1>7, <1>8, <1>9, <1>10, WritingStep

LEMMA WriteBlobStep ==
    ASSUME GoldenInv, NEW i \in Importers, WriteBlob(i)
    PROVE  GoldenInv'
<1>0. PICK t, b : t = tag[i] /\ b = writing[i]
  OBVIOUS
<1>1. /\ At(i, "write") /\ b # Absent
      /\ tree' = [tree EXCEPT ![t].files[b] = archive[i].packed.files[b]]
      /\ todo' = [todo EXCEPT ![i] = todo[i] \ {b}]
      /\ writing' = [writing EXCEPT ![i] = Absent]
      /\ UNCHANGED <<assets, pc, tag, archive>>
  BY <1>0 DEF WriteBlob
<1>2. DownloadedInv(i) /\ WriterInv(i) /\ Writes(i) /\ t \in Tags /\ tree[t] # Absent /\ b \in Blobs
  BY <1>0, <1>1 DEF GoldenInv, GoldenTypes, At, DownloadedInv, WriterInv, Writes
<1>3. archive[i].packed.files[b] = <<t, b>>
  <2>1. archive[i].packed.files = encode_corpus(t)
    BY <1>0, <1>1, <1>2, SoundIsWhole DEF At, DownloadedInv
  <2> QED BY <1>0, <1>2, <2>1 DEF encode_corpus
<1>4. /\ tree' \in [Tags -> {Absent} \cup Directories]
      /\ tree'[t] \in Directories /\ tree'[t].manifest = tree[t].manifest
      /\ tree'[t].files[b] = <<t, b>>
      /\ \A x \in Blobs \ {b} : tree'[t].files[x] = tree[t].files[x]
      /\ \A u \in Tags \ {t} : tree'[u] = tree[u]
  <2>1. tree \in [Tags -> {Absent} \cup Directories]
    BY DEF GoldenInv, GoldenTypes
  <2>2. PICK c : c = archive[i].packed.files[b]
    OBVIOUS
  <2>3. /\ tree' = [tree EXCEPT ![t].files[b] = c] /\ c \in Contents
        /\ b \in Blobs /\ t \in Tags /\ tree[t] # Absent
    BY <1>1, <1>2, <1>3, <2>2 DEF Contents
  <2>4. /\ tree' \in [Tags -> {Absent} \cup Directories]
        /\ tree'[t] \in Directories /\ tree'[t].manifest = tree[t].manifest
        /\ \A x \in Blobs \ {b} : tree'[t].files[x] = tree[t].files[x]
        /\ \A u \in Tags \ {t} : tree'[u] = tree[u]
    BY <2>1, <2>3, FileWritten
  <2>5. tree'[t].files[b] = c
    BY <2>1, <2>3 DEF Directories
  <2> QED BY <1>3, <2>2, <2>4, <2>5
<1>5. GoldenTypes'
  BY <1>0, <1>1, <1>4 DEF GoldenInv, GoldenTypes
<1>6. DownloadedInv(i)'
  BY <1>1, <1>2 DEF DownloadedInv, Sound
<1>7. WriterInv(i)'
  <2>1. writing'[i] = Absent /\ todo'[i] = todo[i] \ {b}
    BY <1>0, <1>1 DEF GoldenInv, GoldenTypes
  <2>2. tag'[i] = t /\ pc'[i] = "write" /\ tree'[t] # Absent /\ tree'[t].manifest = Absent
    BY <1>0, <1>1, <1>2, <1>4, AbsenceAssumption DEF WriterInv, Writes, At
  <2>3. \A x \in Blobs \ todo'[i] : tree'[t].files[x] = <<t, x>>
    BY <1>0, <1>2, <1>4, <2>1 DEF WriterInv
  <2> QED BY <2>1, <2>2, <2>3 DEF WriterInv, Writes
<1>8. ~Readable(t)'
  BY <1>0, <1>1, <1>2, <1>4 DEF Readable, HasManifest, WriterInv, At
<1>9. \A j \in Importers \ {i} : writing'[j] = writing[j] /\ todo'[j] = todo[j]
  BY <1>0, <1>1 DEF GoldenInv, GoldenTypes
<1>10. \A j \in Importers \ {i} : Writes(j) => tag[j] # t
  BY <1>0, <1>2, Alone
<1>11. /\ tag[i] = t /\ t \in Tags /\ UNCHANGED <<assets, pc, tag, archive>>
       /\ \A u \in Tags \ {t} : tree'[u] = tree[u]
       /\ Writes(i)' => tag'[i] = t
  BY <1>0, <1>1, <1>2, <1>4
<1> QED BY <1>5, <1>6, <1>7, <1>8, <1>9, <1>10, <1>11, WritingStep

LEMMA OpenManifestStep ==
    ASSUME GoldenInv, NEW i \in Importers, OpenManifest(i)
    PROVE  GoldenInv'
<1>0. PICK t : t = tag[i]
  OBVIOUS
<1>1. /\ At(i, "write") /\ todo[i] = {} /\ GoesTo(i, "manifest")
      /\ tree' = [tree EXCEPT ![t].manifest = Truncated]
      /\ UNCHANGED <<assets, tag, archive, todo, writing>>
  BY <1>0 DEF OpenManifest
<1>2. DownloadedInv(i) /\ WriterInv(i) /\ Writes(i) /\ t \in Tags /\ tree[t] # Absent
  BY <1>0, <1>1 DEF GoldenInv, At, DownloadedInv, WriterInv, Writes
<1>3. /\ tree' \in [Tags -> {Absent} \cup Directories]
      /\ tree'[t] \in Directories /\ tree'[t].manifest = Truncated /\ tree'[t].files = tree[t].files
      /\ \A u \in Tags \ {t} : tree'[u] = tree[u]
  <2>1. tree \in [Tags -> {Absent} \cup Directories]
    BY DEF GoldenInv, GoldenTypes
  <2>2. PICK m \in {Absent, Truncated} \cup Manifests : m = Truncated /\ tree' = [tree EXCEPT ![t].manifest = m]
    BY <1>1
  <2> QED BY <1>2, <2>1, <2>2, ManifestWritten
<1>4. GoldenTypes' /\ pc'[i] = "manifest"
  BY <1>0, <1>1, <1>3 DEF GoldenInv, GoldenTypes, GoesTo, ImporterPCs
<1>5. DownloadedInv(i)'
  BY <1>1, <1>2, <1>4 DEF DownloadedInv, Sound, At
<1>6. WriterInv(i)'
  <2>1. tag'[i] = t /\ todo'[i] = {} /\ tree'[t] # Absent /\ writing[i] = Absent
    BY <1>0, <1>1, <1>2, <1>3, AbsenceAssumption DEF WriterInv
  <2>2. \A x \in Blobs : tree'[t].files[x] = <<t, x>>
    BY <1>0, <1>1, <1>2, <1>3 DEF WriterInv
  <2> QED BY <1>1, <1>3, <1>4, <2>1, <2>2 DEF WriterInv, Writes
<1>7. ~Readable(t)'
  BY <1>0, <1>3 DEF Readable
<1>8. \A j \in Importers \ {i} : pc'[j] = pc[j]
  BY <1>0, <1>1 DEF GoldenInv, GoldenTypes, GoesTo
<1>9. \A j \in Importers \ {i} : Writes(j) => tag[j] # t
  BY <1>0, <1>2, Alone
<1> QED BY <1>0, <1>1, <1>2, <1>3, <1>4, <1>5, <1>6, <1>7, <1>8, <1>9, WritingStep

\* The manifest is written last: the directory holds the corpus by then.
LEMMA WriteManifestStep ==
    ASSUME GoldenInv, NEW i \in Importers, WriteManifest(i), NEW t, t = tag[i]
    PROVE  /\ GoldenInv' /\ t \in Tags
           /\ ~Readable(t) /\ (Readable(t)' => tree'[t].files = encode_corpus(t))
           /\ \A u \in Tags \ {t} : tree'[u] = tree[u]
<1> DEFINE m == archive[i].packed.manifest
           new == Manifest(m.version, m.entries, t)
<1>1. At(i, "manifest") /\ tree' = [tree EXCEPT ![t].manifest = new] /\ Ends(i)
  BY DEF WriteManifest
<1>2. DownloadedInv(i) /\ WriterInv(i) /\ Writes(i) /\ t \in Tags /\ tree[t] # Absent
  BY <1>1 DEF GoldenInv, At, DownloadedInv, WriterInv, Writes
<1>3. new = Manifest(t, encode_corpus(t), t)
  <2>1. m = Manifest(t, encode_corpus(t), Absent)
    BY <1>1, <1>2, SoundIsWhole DEF At, DownloadedInv
  <2> QED BY <2>1 DEF Manifest
<1>4. new \in Manifests
  BY <1>2, <1>3 DEF Manifests
<1> HIDE DEF new, m
<1>5. /\ tree' \in [Tags -> {Absent} \cup Directories]
      /\ tree'[t] \in Directories /\ tree'[t].files = tree[t].files
      /\ \A u \in Tags \ {t} : tree'[u] = tree[u]
  BY <1>1, <1>2, <1>4, ManifestWritten DEF GoldenInv, GoldenTypes
<1>6. tree[t].files = encode_corpus(t)
  <2>1. tree[t] \in Directories
    BY <1>2 DEF GoldenInv, GoldenTypes
  <2>2. tree[t].files = [b \in Blobs |-> tree[t].files[b]]
    BY <2>1 DEF Directories
  <2>3. \A b \in Blobs : tree[t].files[b] = <<t, b>>
    BY <1>1, <1>2 DEF WriterInv, At
  <2> QED BY <2>2, <2>3 DEF encode_corpus
<1>7. GoldenTypes' /\ pc'[i] = "idle" /\ writing'[i] = Absent
  BY <1>1, <1>5 DEF GoldenInv, GoldenTypes, Ends, GoesTo, ImporterPCs
<1>8. DownloadedInv(i)' /\ WriterInv(i)' /\ ~Writes(i)'
  BY <1>7 DEF DownloadedInv, WriterInv, Writes
<1>9. \A j \in Importers \ {i} : pc'[j] = pc[j] /\ tag'[j] = tag[j] /\ archive'[j] = archive[j]
                                  /\ todo'[j] = todo[j] /\ writing'[j] = writing[j]
  BY <1>1 DEF GoldenInv, GoldenTypes, Ends, GoesTo
<1>10. \A j \in Importers \ {i} : Writes(j) => tag[j] # t
  BY <1>2, Alone
<1>11. ~Readable(t)
  BY <1>1, <1>2 DEF Readable, WriterInv, At
<1>12. GoldenInv'
  BY <1>1, <1>2, <1>5, <1>6, <1>7, <1>8, <1>9, <1>10, WritingStep DEF Ends
<1> QED BY <1>2, <1>5, <1>6, <1>11, <1>12

-------------------------------------------------------------------------------
\* The strengthened invariant holds in every reachable state.
THEOREM GoldenInvariance == GoldenSpec => []GoldenInv
<1>1. GoldenInv /\ [GoldenNext]_goldenVars => GoldenInv'
  <2> SUFFICES ASSUME GoldenInv, [GoldenNext]_goldenVars PROVE GoldenInv'
    OBVIOUS
  <2>1. CASE \E t \in Tags : Publish(t) \/ CleanUp(t)
    BY <2>1, PublishStep, CleanUpStep
  <2>2. ASSUME NEW i \in Importers, Importing(i) PROVE GoldenInv'
    <3>1. CASE \E t \in Tags : Import(i, t)
      BY <3>1, ImportStep
    <3>2. CASE Download(i) \/ CheckAbsent(i) \/ Unpack(i)
      BY <3>2, DownloadStep, CheckAbsentStep, UnpackStep
    <3>3. CASE MakeDirectory(i) \/ OpenBlob(i) \/ WriteBlob(i) \/ OpenManifest(i)
      BY <3>3, MakeDirectoryStep, OpenBlobStep, WriteBlobStep, OpenManifestStep
    <3>4. CASE WriteManifest(i)
      <4>1. PICK t : t = tag[i]
        OBVIOUS
      <4> QED BY <3>4, <4>1, WriteManifestStep
    <3>5. CASE Die(i)
      BY <3>5, Ending DEF Die
    <3> QED BY <2>2, <3>1, <3>2, <3>3, <3>4, <3>5 DEF Importing
  <2>3. CASE UNCHANGED goldenVars
    <3>1. GoldenTypes' /\ AssetsInv' /\ OneWriter' /\ ReadableInv'
      BY <2>3 DEF GoldenInv, goldenVars, GoldenTypes, AssetsInv, OneWriter, Writes, ReadableInv, Readable, HasManifest
    <3>2. \A i \in Importers : DownloadedInv(i)' /\ WriterInv(i)'
      BY <2>3 DEF GoldenInv, goldenVars, DownloadedInv, WriterInv, Writes, Sound
    <3> QED BY <3>1, <3>2 DEF GoldenInv
  <2> QED BY <2>1, <2>2, <2>3 DEF GoldenNext
<1> QED BY GoldenInitial, <1>1, PTL DEF GoldenSpec

\* A release that passes check_complete and the tests was tested with the whole corpus of
\* every other release, whichever imports were under way or had died.
THEOREM Complete == GoldenSpec => []PassingMeansComplete
<1>1. GoldenInv => PassingMeansComplete
  <2> SUFFICES ASSUME GoldenInv, NEW exclude \in Tags, check_complete(exclude), test_golden,
                      NEW t \in Tags \ {exclude}, assets[t] # Absent
               PROVE  tree[t] # Absent /\ tree[t].files = encode_corpus(t)
    BY DEF PassingMeansComplete
  <2>1. HasManifest(t)
    BY DEF check_complete
  <2>2. Readable(t)
    BY <2>1 DEF test_golden, Readable
  <2> QED BY <2>1, <2>2 DEF GoldenInv, ReadableInv, HasManifest
<1> QED BY GoldenInvariance, <1>1, PTL

-------------------------------------------------------------------------------
Corpora == [t \in Tags |-> IF Readable(t) THEN tree[t].files ELSE Absent]

\* A step that changes no directory, or leaves alone what can be read, is a stutter.
LEMMA Stutter ==
    ASSUME \A t \in Tags : \/ tree'[t] = tree[t]
                           \/ ~Readable(t) /\ ~Readable(t)'
    PROVE  Corpora' = Corpora
<1>1. ASSUME NEW t \in Tags
      PROVE  (IF Readable(t)' THEN tree'[t].files ELSE Absent) = (IF Readable(t) THEN tree[t].files ELSE Absent)
  BY DEF Readable, HasManifest
<1> QED BY <1>1 DEF Corpora

\* The import of a corpus, file by file, by processes that die and race, is one addition
\* of a whole corpus; what was added stays as it is.
THEOREM Atomic == GoldenSpec => ImportIsAtomic
<1>1. GoldenInit => Promise!Init
  BY DEF GoldenInit, Promise!Init, Readable, HasManifest
<1>2. ASSUME GoldenInv, GoldenInv', [GoldenNext]_goldenVars
      PROVE  Promise!Next \/ Corpora' = Corpora
  <2>1. CASE UNCHANGED tree
    BY <2>1, Stutter
  <2>2. ASSUME NEW t \in Tags, CleanUp(t) PROVE Corpora' = Corpora
    <3>1. tree'[t] = Absent /\ \A u \in Tags \ {t} : tree'[u] = tree[u]
      BY <1>2, <2>2 DEF GoldenInv, GoldenTypes, CleanUp
    <3>2. ~Readable(t) /\ ~Readable(t)'
      BY <2>2, <3>1 DEF CleanUp, Readable, HasManifest
    <3> QED BY <3>1, <3>2, Stutter
  <2>3. ASSUME NEW i \in Importers, NEW t, t = tag[i], t \in Tags, Writes(i),
               OpenBlob(i) \/ WriteBlob(i) \/ OpenManifest(i)
        PROVE  Corpora' = Corpora
    <3>1. ~Readable(t)
      BY <1>2, <2>3 DEF GoldenInv, WriterInv, Writes, Readable, HasManifest
    <3>2. Writes(i)' /\ tag'[i] = t
      BY <1>2, <2>3 DEF GoldenInv, GoldenTypes, OpenBlob, WriteBlob, OpenManifest, GoesTo, At, Writes
    <3>3. ~Readable(t)'
      BY <1>2, <3>2 DEF GoldenInv, WriterInv, Writes, Readable, HasManifest
    <3>4. \A u \in Tags \ {t} : tree'[u] = tree[u]
      BY <1>2, <2>3 DEF GoldenInv, GoldenTypes, OpenBlob, WriteBlob, OpenManifest
    <3> QED BY <3>1, <3>3, <3>4, Stutter
  <2>4. ASSUME NEW i \in Importers, NEW t, t = tag[i], t \in Tags, MakeDirectory(i)
        PROVE  Corpora' = Corpora
    <3>1. CASE Refuse(i)
      BY <3>1, Stutter DEF Refuse
    <3>2. CASE tree[t] = Absent /\ Makes(i, Empty)
      <4>1. tree'[t] = Empty /\ \A u \in Tags \ {t} : tree'[u] = tree[u]
        BY <1>2, <2>4, <3>2 DEF Makes, GoldenInv, GoldenTypes
      <4>2. ~Readable(t) /\ ~Readable(t)'
        BY <3>2, <4>1 DEF Readable, HasManifest, Empty, Directory
      <4> QED BY <4>1, <4>2, Stutter
    <3> QED BY <2>4, <3>1, <3>2 DEF MakeDirectory
  <2>5. ASSUME NEW i \in Importers, WriteManifest(i)
        PROVE  Promise!Next \/ Corpora' = Corpora
    <3>1. PICK t : t = tag[i]
      OBVIOUS
    <3>2. /\ t \in Tags /\ ~Readable(t) /\ (Readable(t)' => tree'[t].files = encode_corpus(t))
          /\ \A u \in Tags \ {t} : tree'[u] = tree[u]
      BY <1>2, <2>5, <3>1, WriteManifestStep
    <3>3. CASE ~Readable(t)'
      BY <3>2, <3>3, Stutter
    <3>4. CASE Readable(t)'
      <4>1. Corpora[t] = Absent /\ Corpora'[t] = encode_corpus(t)
        BY <3>2, <3>4 DEF Corpora
      <4>2. \A u \in Tags \ {t} : Corpora'[u] = Corpora[u]
        BY <3>2 DEF Corpora, Readable, HasManifest
      <4>3. Corpora' = [u \in Tags |-> Corpora'[u]] /\ Corpora = [u \in Tags |-> Corpora[u]]
        BY DEF Corpora
      <4>4. Corpora' = [Corpora EXCEPT ![t] = encode_corpus(t)]
        BY <3>2, <4>1, <4>2, <4>3
      <4>5. encode_corpus(t) = Promise!Corpus(t)
        BY DEF encode_corpus, Promise!Corpus, Promise!Encoded
      <4>6. Promise!Add(t)
        BY <4>1, <4>4, <4>5 DEF Promise!Add, Corpora
      <4> QED BY <3>2, <4>6 DEF Promise!Next
    <3> QED BY <3>3, <3>4
  <2>6. \A i \in Importers : At(i, "write") \/ At(i, "mkdir") => tag[i] \in Tags
    BY <1>2 DEF GoldenInv, DownloadedInv, At
  <2>7. ASSUME NEW i \in Importers, Importing(i)
        PROVE  Promise!Next \/ Corpora' = Corpora
    <3>1. CASE (\E t \in Tags : Import(i, t)) \/ Download(i) \/ CheckAbsent(i) \/ Unpack(i) \/ Die(i)
      BY <2>1, <3>1 DEF Import, Download, CheckAbsent, Unpack, Refuse, Die
    <3>2. CASE MakeDirectory(i)
      BY <2>4, <2>6, <3>2 DEF MakeDirectory
    <3>3. CASE OpenBlob(i) \/ WriteBlob(i) \/ OpenManifest(i)
      BY <2>3, <2>6, <3>3 DEF OpenBlob, WriteBlob, OpenManifest, At, Writes
    <3> QED BY <2>5, <2>7, <3>1, <3>2, <3>3 DEF Importing
  <2> QED BY <1>2, <2>1, <2>2, <2>7 DEF GoldenNext, Publish, goldenVars
<1>3. GoldenInv /\ GoldenInv' /\ [GoldenNext]_goldenVars => [Promise!Next]_Corpora
  BY <1>2
<1> QED BY GoldenInvariance, <1>1, <1>3, PTL DEF GoldenSpec, ImportIsAtomic, Promise!Spec, Corpora
===============================================================================
