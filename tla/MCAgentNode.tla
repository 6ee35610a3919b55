---------------------------- MODULE MCAgentNode ----------------------------
(* Instance of AgentNode: two processes for one node, and a node that never *)
(* announced itself.                                                        *)
EXTENDS AgentNode

CONSTANTS n1, n2

Assignment == [p \in Procs |-> n1]
=============================================================================
