---------------------------- MODULE MCCurlMulti -----------------------------
\* Three requests: one of the protocol, two ordinary ones of one priority.
EXTENDS CurlMulti

CONSTANTS ProtocolTasks, OrdinaryTasks

MCTasks == ProtocolTasks \cup OrdinaryTasks

MCPriority(t) == IF t \in ProtocolTasks THEN 2 ELSE 150

=============================================================================
