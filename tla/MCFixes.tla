------------------------------ MODULE MCFixes ------------------------------
(* Small instances of Fixes for TLC.                                        *)
EXTENDS Fixes, TLC

Plain == [recid |-> NoRecid, title |-> <<"d", "mini">>, described |-> NoTitle, relation |-> NoRecid,
          fields |-> {}, claims |-> FALSE, listed |-> FALSE, files |-> {}, rucio |-> "none",
          doi |-> NoDoi, schema |-> TRUE]
Doc == [slug |-> "none", source |-> "s1", fields |-> {"experiment"}, links |-> {}, images |-> {}, schema |-> TRUE]

\* A pair of CMS records without numbers, or with numbers that somebody else
\* may get, and a page that links to a page without slug.
Pair(recid1, recid2) ==
    <<[Plain EXCEPT !.recid = recid1, !.fields = {"metadata", "cms"},
                    !.doi = <<"theirs", "x">>, !.files = {<<"a*", "bare">>, <<"u3", "whole">>},
                    !.listed = TRUE, !.claims = TRUE],
      [Plain EXCEPT !.recid = recid2, !.title = <<"d", "nano">>, !.doi = <<"ours", "x">>,
                    !.fields = Standard]>>
Pages == <<Doc, [Doc EXCEPT !.slug = "s2", !.links = {<<"s1", "bare">>, <<"s3", "absolute">>}, !.images = {"im"}]>>

Dataset == [Plain EXCEPT !.recid = <<"exp", 1>>, !.title = <<"d", "nano">>, !.rucio = "did", !.fields = Standard]
Untitled == [Dataset EXCEPT !.title = NoTitle]
Single == [Plain EXCEPT !.recid = <<"odd", 0>>, !.fields = Standard, !.listed = TRUE, !.files = {<<"u1", "bare">>}]

\* A number that a curator chose, and that the counter is about to give.
Chosen == [Single EXCEPT !.recid = <<"exp", 6>>, !.files = {<<"u2", "whole">>}]
Numberless == [Chosen EXCEPT !.recid = NoRecid]

SomeUploads ==
    [r \in Releases |->
        IF r = "r2" THEN {[records |-> <<Single>>, documents |-> <<>>]}
        ELSE {[records |-> Pair(NoRecid, <<"plain", 3>>), documents |-> Pages],
              [records |-> Pair(<<"exp", 1>>, <<"plain", 2>>), documents |-> <<>>],
              [records |-> <<Dataset, [Plain EXCEPT !.recid = <<"plain", 2>>]>>, documents |-> <<>>],
              [records |-> <<Chosen, Numberless>>, documents |-> <<>>],
              [records |-> <<Untitled>>, documents |-> <<>>]}]

SmallTree == [d \in {"a*"} |-> {"u1", "u2"}]
Titles == [d \in {"did"} |-> <<"d", "nano">>]
Files == [d \in {"did"} |-> {"u4"}]
AlreadyThere == {<<"recid", <<"exp", 5>>>>, <<"recid", <<"plain", 3>>>>}
AllChecks == Checks
SomeOthers == {<<"recid", <<"plain", 1>>>>, <<"docid", "s3">>, <<"doi", "x">>}

=============================================================================
