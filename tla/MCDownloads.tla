---------------------------- MODULE MCDownloads -----------------------------
\* Two requests for one file, one of them with a place of its own for it, and one for
\* another file, which would have the same name.
EXTENDS Downloads

CONSTANTS r1, r2, s1, url1, url2, p1, p2

MCRequests == {r1, r2, s1}
MCUrlOf(r) == IF r = s1 THEN url2 ELSE url1
MCRaised(r) == r = r2
MCChosen(r) == IF r = r2 THEN p2 ELSE None
MCCandidates(x) == <<p1, p2>>
MCSize(x) == IF x = url1 THEN 3 ELSE 1

Budget(f, c, d) == [failures |-> f, cancels |-> c, crashes |-> d]
MCBudgets == {Budget(2, 0, 0), Budget(1, 1, 0), Budget(1, 0, 1)}
=============================================================================
