------------------------- MODULE ReleaseLifecycle --------------------------
(***************************************************************************)
(* What the curators are promised about a release: its records enter the   *)
(* portal all together as a preview, and the preview is withdrawn or made  *)
(* public all together; what is public, and what is not of the release,    *)
(* stays as it is.                                                         *)
(***************************************************************************)
CONSTANT Entries
VARIABLES phase, portal

Init == phase = "draft" /\ portal \in [Entries -> {"none", "other"}]

Moves(from, to) ==
    portal' = [i \in Entries |-> IF portal[i] = from THEN to ELSE portal[i]]

Stage(S) ==
    /\ phase = "draft" /\ phase' = "staged"
    /\ \A i \in Entries : portal[i] # "prerelease"
    /\ \A i \in S : portal[i] = "none"
    /\ portal' = [i \in Entries |-> IF i \in S THEN "prerelease" ELSE portal[i]]

Rollback == phase = "staged" /\ phase' = "draft" /\ Moves("prerelease", "none")

Publish == phase = "staged" /\ phase' = "published" /\ Moves("prerelease", "public")

Delete == phase = "draft" /\ phase' = "deleted" /\ UNCHANGED portal

Next == (\E S \in SUBSET Entries : Stage(S)) \/ Rollback \/ Publish \/ Delete

Spec == Init /\ [][Next]_<<phase, portal>>

=============================================================================
