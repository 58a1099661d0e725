----------------------------- MODULE MCEosDump -----------------------------
(* Small instances of EosDump for TLC.                                      *)
EXTENDS EosDump, TLC

Entry(v, files) == [value |-> v, content |-> "a", files |-> files, doi |-> "none", bad |-> "no"]
Run(mode, entries) == [type |-> "recid", mode |-> mode, skip |-> FALSE, entries |-> entries]

\* A record that gets files, loses some of them and is deleted.
SomeCommands ==
    {Run("insert-or-replace", <<Entry("1", {"p1", "p2"})>>),
     Run("insert-or-replace", <<Entry("1", {"i1"})>>),
     Run("delete", <<Entry("1", {})>>)}

\* Two files have one name.
Names == [p \in {"p1", "p2", "up"} |-> IF p = "up" THEN "other" ELSE "one"]
IndexContent == [i \in {"i1"} |-> {"p2"}]
=============================================================================
