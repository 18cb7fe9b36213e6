------------------------- MODULE MCSocialPublishing ------------------------
(***************************************************************************)
(* Two connected pages, one of them with an Instagram account.             *)
(***************************************************************************)
EXTENDS SocialPublishing

CONSTANTS page1, page2, insta1, r1, r2

TwoPages == {page1, page2}
OnePage == {page1}
OneAccount == {insta1}

Claims(runs, disturbed) == [overlap |-> disturbed, faults |-> disturbed, runs |-> runs]

\* Two claims of a post nothing interferes with; one claim where everything may.
AllEnvironments == {Claims(Runs, FALSE)} \cup {Claims({r}, TRUE) : r \in {r1}}

OverlapOnly == {[overlap |-> TRUE, faults |-> FALSE, runs |-> Runs]}
=============================================================================
