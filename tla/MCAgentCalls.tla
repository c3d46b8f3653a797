----------------------------- MODULE MCAgentCalls -----------------------------
(* Instances of AgentCalls for TLC. *)
EXTENDS AgentCalls

\* The analysis and two deliverables.
const_Calls == {"analysis", "fdd", "test_case"}
const_Analysis == "analysis"
=============================================================================
