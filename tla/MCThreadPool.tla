---------------------------- MODULE MCThreadPool ----------------------------
(* ThreadPool with two workers and three closures, two of which carry the *)
(* same id, so that raise_task has something to choose between.           *)
EXTENDS ThreadPool

CONSTANTS t1, t2, t3, id1

MCIdOf(t) == IF t = t1 THEN NoId ELSE id1

=============================================================================
