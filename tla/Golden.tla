--------------------------------- MODULE Golden ---------------------------------
(***************************************************************************)
(* scripts/golden.py: what a release publishes as its corpus, the import   *)
(* of a corpus into tests/golden, file by file, by processes that may die  *)
(* between any two writes and may run at the same time, and the checks     *)
(* that read the result.                                                   *)
(*                                                                         *)
(* The digest of a file is its content.  A file that was opened and not    *)
(* written yet is Truncated.                                               *)
(***************************************************************************)
CONSTANTS Tags,
          Blobs,         \* the names of the entries
          Importers,     \* processes that run golden.py import
          Absent,
          Truncated,
          Corrupt        \* content no version produced

ASSUME ContentsAssumption == {Absent, Truncated, Corrupt} \cap (Tags \cup Blobs) = {}

VARIABLES assets,        \* the archive each release published, Absent without a release
          tree,          \* the directory tests/golden/TAG of each tag, or Absent
          pc, tag,       \* per process: where it is, and the tag it imports
          archive,       \* per process: what it downloaded
          todo,          \* per process: the blobs it has not written
          writing        \* per process: the file it has open, or Absent

goldenVars == <<assets, tree, pc, tag, archive, todo, writing>>

-------------------------------------------------------------------------------
(***************************************************************************)
(* The release: generate fills a directory, pack archives all of it.       *)
(***************************************************************************)
encode_corpus(version) == [b \in Blobs |-> <<version, b>>]

Manifest(version, entries, asset) == [version |-> version, entries |-> entries, release_asset |-> asset]

Directory(manifest, files) == [manifest |-> manifest, files |-> files]

generate(version) ==
    LET blobs == encode_corpus(version) IN Directory(Manifest(version, blobs, Absent), blobs)

pack(directory) == [packed |-> directory]

\* What may be published: what the workflow makes, or a slip of its makers: the corpus of
\* another version, or one whose files are not those of its manifest.
Publishable(t) ==
    LET good == generate(t)
    IN  {pack(good)} \cup {pack(generate(v)) : v \in Tags \ {t}} \cup
        {pack([good EXCEPT !.files[b] = Corrupt]) : b \in Blobs}

Publish(t) ==
    /\ assets[t] = Absent
    /\ \E a \in Publishable(t) : assets' = [assets EXCEPT ![t] = a]
    /\ UNCHANGED <<tree, pc, tag, archive, todo, writing>>

-------------------------------------------------------------------------------
GoldenInit ==
    /\ assets = [t \in Tags |-> Absent]
    /\ tree = [t \in Tags |-> Absent]
    /\ pc = [i \in Importers |-> "idle"]
    /\ tag = [i \in Importers |-> Absent]
    /\ archive = [i \in Importers |-> Absent]
    /\ todo = [i \in Importers |-> {}]
    /\ writing = [i \in Importers |-> Absent]

At(i, label) == pc[i] = label
GoesTo(i, label) == pc' = [pc EXCEPT ![i] = label]

\* The process ends; what it wrote stays.
Ends(i) ==
    /\ GoesTo(i, "idle")
    /\ tag' = [tag EXCEPT ![i] = Absent]
    /\ archive' = [archive EXCEPT ![i] = Absent]
    /\ todo' = [todo EXCEPT ![i] = {}]
    /\ writing' = [writing EXCEPT ![i] = Absent]
    /\ UNCHANGED assets

Import(i, t) ==
    /\ At(i, "idle") /\ GoesTo(i, "download")
    /\ tag' = [tag EXCEPT ![i] = t]
    /\ UNCHANGED <<assets, tree, archive, todo, writing>>

\* A download gives the file or something else, for which no digest is recorded.
Downloads(a) == {a, Corrupt}

Download(i) ==
    /\ At(i, "download")
    /\ LET expected == assets[tag[i]]
       IN  \/ expected = Absent /\ Ends(i)
           \/ /\ expected # Absent
              /\ \E a \in Downloads(expected) :
                    \/ a # expected /\ Ends(i)
                    \/ /\ a = expected
                       /\ archive' = [archive EXCEPT ![i] = a]
                       /\ GoesTo(i, "exists")
                       /\ UNCHANGED <<assets, tag, todo, writing>>
    /\ UNCHANGED tree

Refuse(i) == Ends(i) /\ UNCHANGED tree

CheckAbsent(i) ==
    /\ At(i, "exists")
    /\ \/ tree[tag[i]] # Absent /\ Refuse(i)
       \/ /\ tree[tag[i]] = Absent
          /\ GoesTo(i, "unpack")
          /\ UNCHANGED <<assets, tree, tag, archive, todo, writing>>

\* Unpacked into a temporary directory of the process, and checked there.
Sound(directory, version) ==
    /\ directory.manifest.version = version
    /\ \A b \in Blobs : directory.files[b] = directory.manifest.entries[b]

Unpack(i) ==
    /\ At(i, "unpack")
    /\ \/ ~Sound(archive[i].packed, tag[i]) /\ Refuse(i)
       \/ /\ Sound(archive[i].packed, tag[i])
          /\ GoesTo(i, "mkdir")
          /\ todo' = [todo EXCEPT ![i] = Blobs]
          /\ UNCHANGED <<assets, tree, tag, archive, writing>>

Empty == Directory(Absent, [b \in Blobs |-> Absent])

\* What a directory of tests/golden can hold, half written or whole.
Manifests == {Manifest(t, encode_corpus(t), t) : t \in Tags}

Contents == {Absent, Truncated} \cup (Tags \X Blobs)

Directories == [manifest : {Absent, Truncated} \cup Manifests, files : [Blobs -> Contents]]

ASSUME AbsenceAssumption == Absent \notin Directories

Makes(i, directory) ==
    /\ tree' = [tree EXCEPT ![tag[i]] = directory]
    /\ GoesTo(i, "write")
    /\ UNCHANGED <<assets, tag, archive, todo, writing>>

MakeDirectoryExistOk(i) ==   \* a mutant: mkdir(exist_ok=True)
    /\ At(i, "mkdir")
    /\ Makes(i, IF tree[tag[i]] = Absent THEN Empty ELSE tree[tag[i]])

MakeDirectory(i) ==
    /\ At(i, "mkdir")
    /\ \/ tree[tag[i]] # Absent /\ Refuse(i)
       \/ tree[tag[i]] = Absent /\ Makes(i, Empty)

\* write_bytes: the file is opened, then written.
OpenBlob(i) ==
    /\ At(i, "write") /\ writing[i] = Absent
    /\ \E b \in todo[i] :
           /\ tree' = [tree EXCEPT ![tag[i]].files[b] = Truncated]
           /\ writing' = [writing EXCEPT ![i] = b]
    /\ UNCHANGED <<assets, pc, tag, archive, todo>>

WriteBlob(i) ==
    /\ At(i, "write") /\ writing[i] # Absent
    /\ tree' = [tree EXCEPT ![tag[i]].files[writing[i]] = archive[i].packed.files[writing[i]]]
    /\ todo' = [todo EXCEPT ![i] = @ \ {writing[i]}]
    /\ writing' = [writing EXCEPT ![i] = Absent]
    /\ UNCHANGED <<assets, pc, tag, archive>>

OpenManifest(i) ==
    /\ At(i, "write") /\ todo[i] = {}
    /\ tree' = [tree EXCEPT ![tag[i]].manifest = Truncated]
    /\ GoesTo(i, "manifest")
    /\ UNCHANGED <<assets, tag, archive, todo, writing>>

\* The manifest gets the name and the digest of the archive.
WriteManifest(i) ==
    /\ At(i, "manifest")
    /\ LET m == archive[i].packed.manifest
       IN  tree' = [tree EXCEPT ![tag[i]].manifest = Manifest(m.version, m.entries, tag[i])]
    /\ Ends(i)

Die(i) == ~At(i, "idle") /\ Ends(i) /\ UNCHANGED tree

-------------------------------------------------------------------------------
(***************************************************************************)
(* The checks a release makes on a commit.                                 *)
(***************************************************************************)
HasManifest(t) == tree[t] # Absent /\ tree[t].manifest # Absent

check_completeDirectories(exclude) ==   \* a mutant: any directory counts as a corpus
    \A t \in Tags \ {exclude} : assets[t] # Absent => tree[t] # Absent

\* A tag comes with its release.
check_complete(exclude) == \A t \in Tags \ {exclude} : assets[t] # Absent => HasManifest(t)

\* test_golden.py: every manifest can be read, and the blobs it lists are there.
test_golden ==
    \A t \in Tags : HasManifest(t) =>
        /\ tree[t].manifest # Truncated
        /\ \A b \in Blobs : tree[t].files[b] = tree[t].manifest.entries[b]

Readable(t) == HasManifest(t) /\ tree[t].manifest # Truncated

(***************************************************************************)
(* A maintainer removes what an import left behind that nobody continues.  *)
(***************************************************************************)
CleanUp(t) ==
    /\ tree[t] # Absent /\ ~Readable(t)
    /\ \A i \in Importers : tag[i] # t
    /\ tree' = [tree EXCEPT ![t] = Absent]
    /\ UNCHANGED <<assets, pc, tag, archive, todo, writing>>

Importing(i) ==
    \/ \E t \in Tags : Import(i, t)
    \/ Download(i) \/ CheckAbsent(i) \/ Unpack(i) \/ MakeDirectory(i)
    \/ OpenBlob(i) \/ WriteBlob(i) \/ OpenManifest(i) \/ WriteManifest(i)
    \/ Die(i)

GoldenNext == (\E t \in Tags : Publish(t) \/ CleanUp(t)) \/ (\E i \in Importers : Importing(i))

GoldenSpec == GoldenInit /\ [][GoldenNext]_goldenVars

-------------------------------------------------------------------------------
(***************************************************************************)
(* Properties                                                              *)
(***************************************************************************)

\* The imports of any number of processes, dying anywhere, look like whole corpora added
\* once each: a directory with a readable manifest holds exactly the blobs of the release of
\* that tag, from the moment it has one and for ever ("Entries are never edited or removed").
Promise == INSTANCE GoldenCorpus WITH
    corpora <- [t \in Tags |-> IF Readable(t) THEN tree[t].files ELSE Absent]

ImportIsAtomic == Promise!Spec

\* Whatever state of the directory is committed, a release that gets past check_complete and
\* the tests has been tested with the whole corpus of every other release: "A release cannot
\* be cut while an earlier tag's directory is missing".
PassingMeansComplete ==
    \A exclude \in Tags :
        check_complete(exclude) /\ test_golden =>
            \A t \in Tags \ {exclude} : assets[t] # Absent => tree[t] # Absent /\ tree[t].files = encode_corpus(t)
===============================================================================
