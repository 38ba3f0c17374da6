----------------------------- MODULE MCCurlEasy -----------------------------
\* A request of the fetch and one of the protocol thread, and requests of two
\* pools: one of them, in the pool of two threads, is followed by another.
EXTENDS CurlEasy

CONSTANTS f1, p1, a1, a2, b1, fetch, protocol, top, low

MCTasks == {f1, p1, a1, a2, b1}
MCPools == <<top, low>>
MCWidth(p) == IF p = top THEN 2 ELSE 1
MCLane(t) == CASE t = f1 -> fetch [] t = p1 -> protocol [] t = b1 -> low [] OTHER -> top
MCFollow(t) == IF t = a1 THEN a2 ELSE NoTask
=============================================================================
