--------------------------- MODULE MCHistorySync ---------------------------
\* What may happen to a dialog of which the archive holds one message.
EXTENDS HistorySync

Calm(existing) ==
    [existing |-> existing, news |-> 0, deletes |-> 0, clears |-> 0, upTo |-> 0,
     opens |-> 0, closes |-> 0, failures |-> 0, crashes |-> 0]

\* Messages missed while off line, over up to two pages, and a failed request or a
\* new message.
MissedMessages ==
    {[Calm(n) EXCEPT !.opens = 1, !.closes = 1, !.failures = 1] : n \in {2, 3, 5}}
        \cup {[Calm(3) EXCEPT !.opens = 1, !.news = 1]}

\* A deletion and both kinds of clearing.
Deletions ==
    {[Calm(1) EXCEPT !.deletes = 1, !.clears = 1, !.upTo = 1, !.opens = 1, !.closes = 1]}

\* A clearing over a hole.
Clearing ==
    {[Calm(3) EXCEPT !.upTo = 1, !.opens = 1], [Calm(3) EXCEPT !.clears = 1, !.opens = 1]}

\* A new message, a clearing, a failed request and a death of the process.
Recovery == {[Calm(2) EXCEPT !.news = 1, !.upTo = 1, !.failures = 1, !.crashes = 1]}

\* A deletion whose patch is asked for in vain, or cut off by a death of the process.
LostPatches ==
    {[Calm(1) EXCEPT !.deletes = 1, !.failures = 1, !.crashes = 1],
     [Calm(2) EXCEPT !.deletes = 1, !.crashes = 1]}

All == MissedMessages \cup Deletions \cup Clearing \cup Recovery \cup LostPatches
=============================================================================
