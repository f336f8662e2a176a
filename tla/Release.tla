-------------------------------- MODULE Release --------------------------------
(***************************************************************************)
(* Cutting a release: the jobs of .github/workflows/release.yml, with      *)
(* scripts/golden.py check-complete, in runs that tag pushes and           *)
(* maintainers start, concurrent with each other and with what the         *)
(* maintainers do to the repository.                                       *)
(*                                                                         *)
(* A version stands for X.Y.Z and for its tag vX.Y.Z.  A commit of main is *)
(* a record: version, what pyproject.toml says, and corpora, the versions  *)
(* with a directory in tests/golden.  Commits are named by their place in  *)
(* the history.  The container images, tools and runners are not modelled: *)
(* a job fails or it succeeds.                                             *)
(***************************************************************************)
EXTENDS Naturals, Sequences

CONSTANTS Versions,
          MaxCommits,    \* bound on the history
          MaxRuns,       \* bound on the runs started
          None

ASSUME ParametersAssumption == None \notin Versions /\ MaxCommits \in Nat /\ MaxRuns \in Nat

VARIABLES commits,     \* the history of main
          tags,        \* the commit of each tag, 0 without one
          releases,    \* what each release was built from and its tag, or None
          runs         \* the runs of the workflow, in the order they were started

vars == <<commits, tags, releases, runs>>

Commit == DOMAIN commits
Run == DOMAIN runs

Init ==
    /\ \E v \in Versions : commits = <<[version |-> v, corpora |-> {}]>>
    /\ tags = [v \in Versions |-> 0]
    /\ releases = [v \in Versions |-> None]
    /\ runs = <<>>

(***************************************************************************)
(* The maintainers.                                                        *)
(***************************************************************************)
main == commits[Len(commits)]

Push(commit) ==
    /\ Len(commits) < MaxCommits
    /\ commits' = Append(commits, commit)
    /\ UNCHANGED <<tags, releases, runs>>

SetVersion == \E v \in Versions \ {main.version} : Push([main EXCEPT !.version = v])

\* golden.py import and a commit: only a published corpus can be imported, once.
ImportCorpus ==
    \E v \in Versions \ main.corpora :
        releases[v] # None /\ Push([main EXCEPT !.corpora = @ \cup {v}])

\* A run that waits for its turn in its concurrency group; a run that waited there
\* already is cancelled.
Start(run) ==
    /\ Len(runs) < MaxRuns
    /\ runs' = Append([r \in Run |->
                  IF runs[r].pc = "pending" /\ runs[r].group = run.group
                  THEN [runs[r] EXCEPT !.pc = "cancelled"] ELSE runs[r]], run)

Pending(group, version, sha, publish) ==
    [pc |-> "pending", group |-> group, version |-> version, sha |-> sha,
     publish |-> publish, tag_exists |-> FALSE]

\* The push of a tag starts a run that publishes.
PushTag ==
    \E v \in Versions, c \in Commit :
        /\ tags[v] = 0
        /\ tags' = [tags EXCEPT ![v] = c]
        /\ Start(Pending(<<"ref", v>>, v, c, TRUE))
        /\ UNCHANGED <<commits, releases>>

\* A run started by hand from main, with or without a version: a dry run or not.
DispatchRun ==
    \E input \in Versions \cup {None}, c \in Commit, dry_run \in BOOLEAN :
        /\ Start(Pending(IF input = None THEN <<"ref", None>> ELSE <<"version", input>>,
                         IF input = None THEN commits[c].version ELSE input, c, ~dry_run))
        /\ UNCHANGED <<commits, tags, releases>>

(***************************************************************************)
(* The jobs.                                                               *)
(***************************************************************************)
Active == {"probe", "build", "publish", "create"}
Busy(group) == \E r \in Run : runs[r].group = group /\ runs[r].pc \in Active

Set(r, run) == runs' = [runs EXCEPT ![r] = run]
Goto(r, next) == Set(r, [runs[r] EXCEPT !.pc = next])

MissingReleasedOnly(c, exclude) ==   \* a mutant: only published versions need a corpus
    {v \in Versions \ {exclude} : releases[v] # None /\ v \notin commits[c].corpora}

\* golden.py check-complete --except TAG: tags of the checkout without a corpus in it.
Missing(c, exclude) == {v \in Versions \ {exclude} : tags[v] # 0 /\ v \notin commits[c].corpora}

ContradictsNever(version, c) == FALSE   \* a mutant: the tag is believed
Contradicts(version, c) == version # commits[c].version

TagElsewhereNever(v, c) == FALSE   \* a mutant: an existing tag is not looked up
TagElsewhere(v, c) == tags[v] \notin {0, c}

\* prepare, up to the corpora: everything is read from one checkout.
Resolve(r) ==
    LET run == runs[r] IN
    /\ run.pc = "pending" /\ ~Busy(run.group)
    /\ IF Contradicts(run.version, run.sha) \/ TagElsewhere(run.version, run.sha)
       THEN Goto(r, "failed")
       ELSE Set(r, [run EXCEPT !.pc = IF Missing(run.sha, run.version) = {} THEN "probe" ELSE "failed",
                               !.tag_exists = tags[run.version] # 0])
    /\ UNCHANGED <<commits, tags, releases>>

\* The end of prepare asks the server.
Probe(r) ==
    /\ runs[r].pc = "probe"
    /\ Goto(r, IF releases[runs[r].version] # None /\ runs[r].publish THEN "failed" ELSE "build")
    /\ UNCHANGED <<commits, tags, releases>>

\* build, rebuild, test and package.
Build(r) ==
    /\ runs[r].pc = "build"
    /\ \/ Goto(r, IF runs[r].publish THEN "publish" ELSE "done")
       \/ Goto(r, "failed_build")
    /\ UNCHANGED <<commits, tags, releases>>

\* A maintainer has the failed jobs run again, with the outputs prepare had.
RerunFailed(r) ==
    /\ ~Busy(runs[r].group)
    /\ \/ runs[r].pc = "failed_build" /\ Goto(r, "build")
       \/ runs[r].pc = "failed_publish" /\ Goto(r, "publish")
    /\ UNCHANGED <<commits, tags, releases>>

View(r) ==
    /\ runs[r].pc = "publish"
    /\ Goto(r, IF releases[runs[r].version] # None THEN "done" ELSE "create")
    /\ UNCHANGED <<commits, tags, releases>>

\* gh release create: it fails when the release exists.  --verify-tag fails without
\* the tag; --target names the commit to tag and is ignored when the tag exists.  A
\* tag it creates with the workflow's token starts no run.
CreateOverwrites(r) ==   \* a mutant: an existing release is replaced
    LET run == runs[r] IN
    /\ run.pc = "create"
    /\ tags' = [tags EXCEPT ![run.version] = IF @ = 0 THEN run.sha ELSE @]
    /\ releases' = [releases EXCEPT ![run.version] = [sha |-> run.sha, tag |-> tags'[run.version], by |-> r]]
    /\ Goto(r, "done")
    /\ UNCHANGED commits

CreateWithoutTag(r) ==   \* a mutant: no tag is made for a release started by hand
    LET run == runs[r] IN
    /\ run.pc = "create"
    /\ releases[run.version] = None
    /\ releases' = [releases EXCEPT ![run.version] = [sha |-> run.sha, tag |-> tags[run.version], by |-> r]]
    /\ Goto(r, "done")
    /\ UNCHANGED <<commits, tags>>

Create(r) ==
    LET run == runs[r] IN
    /\ run.pc = "create"
    /\ releases[run.version] = None
    /\ run.tag_exists => tags[run.version] # 0
    /\ tags' = [tags EXCEPT ![run.version] = IF @ = 0 THEN run.sha ELSE @]
    /\ releases' = [releases EXCEPT ![run.version] = [sha |-> run.sha, tag |-> tags'[run.version], by |-> r]]
    /\ Goto(r, "done")
    /\ UNCHANGED commits

CreateFails(r) ==
    /\ runs[r].pc = "create"
    /\ Goto(r, "failed_publish")
    /\ UNCHANGED <<commits, tags, releases>>

Jobs(r) ==
    \/ Resolve(r) \/ Probe(r) \/ Build(r) \/ RerunFailed(r)
    \/ View(r) \/ Create(r) \/ CreateFails(r)

Next ==
    \/ SetVersion \/ ImportCorpus \/ PushTag \/ DispatchRun
    \/ \E r \in Run : Jobs(r)

Spec == Init /\ [][Next]_vars

-------------------------------------------------------------------------------
(***************************************************************************)
(* Properties                                                              *)
(***************************************************************************)
PCs == Active \cup {"pending", "cancelled", "failed", "failed_build", "failed_publish", "done"}

\* Types of the variables.
TypeOK ==
    /\ \A c \in Commit : commits[c].version \in Versions /\ commits[c].corpora \subseteq Versions
    /\ tags \in [Versions -> {0} \cup Commit]
    /\ \A v \in Versions : releases[v] # None =>
          releases[v].sha \in Commit /\ releases[v].tag \in Commit /\ releases[v].by \in Run
    /\ \A r \in Run : runs[r].pc \in PCs /\ runs[r].version \in Versions /\ runs[r].sha \in Commit

\* A published release is never replaced, whichever runs race for it ("Never delete a
\* published release or its assets; consumers pin their URLs and digests").
ReleasesStay == [][\A v \in Versions : releases[v] # None => releases'[v] = releases[v]]_vars

\* The wheel of a release carries the release's version, although the tag may be put
\* on any commit and any version may be asked for by hand.
NamedAsBuilt == \A v \in Versions : releases[v] # None => commits[releases[v].sha].version = v

\* The tag of a release is the commit its assets were built from ("a tag pointing
\* elsewhere would attach these wheels to a different commit without any error.
\* Refuse instead").
TaggedAsBuilt == \A v \in Versions : releases[v] # None => releases[v].tag = releases[v].sha

\* The same, also for releases started by hand, when the tag was there before the run
\* was prepared: from then on it is not moved.
TaggedAsBuiltIfKnown ==
    \A v \in Versions :
        releases[v] # None /\ runs[releases[v].by].tag_exists => releases[v].tag = releases[v].sha

\* A release has been tested against the corpus of every release before it ("A release
\* cannot be cut while an earlier tag's directory is missing") however they overlap, if
\* both tags were there before their runs were prepared; a run started by hand makes its
\* tag when it publishes, too late for the check of another.
CorporaCompleteIfTagged ==
    [][\A v, w \in Versions :
           /\ releases[w] = None /\ releases'[w] # None /\ releases[v] # None
           /\ runs[releases[v].by].tag_exists /\ runs[releases'[w].by].tag_exists
           => v \in commits[releases'[w].sha].corpora]_vars

===============================================================================
