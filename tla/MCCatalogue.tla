---------------------------- MODULE MCCatalogue ----------------------------
(* Small instances of Catalogue for TLC.                                    *)
EXTENDS Catalogue, TLC

CONSTANTS l1, l2, w1, w2

Entry(v, content, files, doi, bad) ==
    [value |-> v, content |-> content, files |-> files, doi |-> doi, bad |-> bad]

\* Two versions of a record, a record that wants one of its files, and entries
\* that cannot be loaded.
First == Entry("1", "a", {"p1", "i1", "t1"}, "d1", "no")
Second == Entry("1", "b", {"p2"}, "d1", "no")
Bare == Entry("1", "c", NoFiles, "none", "no")
Rival == Entry("2", "a", {"p2"}, "none", "no")
Invalid == Entry("1", "b", {"p2"}, "d1", "schema")
Unreadable == Entry("1", "b", {"p2", "t1"}, "d1", "files")

Run(mode, skip, entries) == [type |-> "recid", mode |-> mode, skip |-> skip, entries |-> entries]
Names == [p \in {"p1", "p2"} |-> p]
IndexContent == [i \in {"i1"} |-> {"p2"}]

SomeCommands ==
    {Run("insert", FALSE, <<First>>), Run("insert-or-replace", FALSE, <<Second, Broken>>),
     Run("replace", FALSE, <<Invalid>>), Run("replace", FALSE, <<Bare>>),
     Run("insert-or-skip", FALSE, <<Unreadable, Rival>>), Run("replace", TRUE, <<Second>>),
     Run("delete", FALSE, <<First>>), Run("delete-or-skip", FALSE, <<Rival, First>>),
     [type |-> "docid", mode |-> "insert-or-replace", skip |-> TRUE,
      entries |-> <<Entry("1", "a", NoFiles, "none", "no"), Broken>>]}

\* The rows and the loaders are interchangeable.
Symmetry == Permutations({l1, l2}) \cup Permutations({w1, w2})
=============================================================================
