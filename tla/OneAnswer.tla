----------------------------- MODULE OneAnswer ------------------------------
(***************************************************************************)
(* What every asynchronous call of the core promises its caller: a request *)
(* is answered at most once, and only after it was made.  The callback     *)
(* objects (async_task_handlers, promises, completion functions) have no   *)
(* protection of their own against a second answer.                        *)
(***************************************************************************)
EXTENDS Naturals

CONSTANT Requests

VARIABLES asked,    \* the requests made so far
          answers   \* how many times each one was answered

vars == <<asked, answers>>

Init == asked = {} /\ answers = [r \in Requests |-> 0]

MayAnswer(r) == r \in asked /\ answers[r] = 0

Ask(r) ==
    /\ r \notin asked
    /\ asked' = asked \cup {r}
    /\ UNCHANGED answers

Answer(r) ==
    /\ MayAnswer(r)
    /\ answers' = [answers EXCEPT ![r] = 1]
    /\ UNCHANGED asked

\* The callback of one request may make the next one.
AnswerAndAsk(r, q) ==
    /\ MayAnswer(r)
    /\ q \notin asked
    /\ answers' = [answers EXCEPT ![r] = 1]
    /\ asked' = asked \cup {q}

Next == \E r \in Requests : 
            \/ Ask(r) 
            \/ Answer(r) 
            \/ \E q \in Requests : AnswerAndAsk(r, q)

Spec == Init /\ [][Next]_vars

=============================================================================
