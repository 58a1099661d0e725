--------------------------- MODULE TieredStorage ---------------------------
(***************************************************************************)
(* What the cold storage promises about the copies of the files, without   *)
(* the catalogue, the requests and the transfers: a copy is made from one  *)
(* that exists, and a file only leaves the disk once it is on tape.        *)
(***************************************************************************)
CONSTANT Files
VARIABLES hot, cold     \* the files that are on disk, and on tape

Init == hot \subseteq Files /\ cold \subseteq Files /\ hot \cup cold = Files

Stage(f) == f \in cold /\ hot' = hot \cup {f} /\ cold' = cold

Archive(f) == f \in hot /\ cold' = cold \cup {f} /\ hot' = hot

ClearHot(f) == f \in cold /\ hot' = hot \ {f} /\ cold' = cold

Next == \E f \in Files : Stage(f) \/ Archive(f) \/ ClearHot(f)

Spec == Init /\ [][Next]_<<hot, cold>>

=============================================================================
