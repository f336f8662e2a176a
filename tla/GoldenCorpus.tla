------------------------------ MODULE GoldenCorpus ------------------------------
(***************************************************************************)
(* What tests/golden holds, as its README puts it: for a released tag, the *)
(* envelopes and frames that release produced, added once as a whole.      *)
(* "Entries are never edited or removed."                                  *)
(***************************************************************************)
CONSTANTS Tags,
          Blobs,      \* the names of the entries
          Absent

VARIABLE corpora      \* the corpus of each tag, or Absent

\* What the version released as t encodes the input of entry b to.
Encoded(t, b) == <<t, b>>

Corpus(t) == [b \in Blobs |-> Encoded(t, b)]

Init == corpora = [t \in Tags |-> Absent]

Add(t) == corpora[t] = Absent /\ corpora' = [corpora EXCEPT ![t] = Corpus(t)]

Next == \E t \in Tags : Add(t)

Spec == Init /\ [][Next]_corpora
===============================================================================
