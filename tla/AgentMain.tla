----------------------------- MODULE AgentMain -----------------------------
(***************************************************************************)
(* The agent's command (agent/__main__.py): one process, which reads its   *)
(* environment and takes one of two paths, an explicit execution           *)
(* (AgentRun) when MODELMATCH_EXECUTION_CONFIG is set, else the review and *)
(* scan of LegacyAgent.  The path that is not taken stays where it is.     *)
(***************************************************************************)
EXTENDS AgentRun, LegacyAgent

VARIABLE executionConfig

\* The run of the other path is over before it began.
MainInit ==
  /\ executionConfig \in BOOLEAN
  /\ IF executionConfig
       THEN Init /\ LegacyFresh(CHOOSE s \in Setups : TRUE, "over")
       ELSE LegacyInit /\ Fresh(CHOOSE s \in Starts : TRUE, "done")

MainNext ==
  /\ UNCHANGED executionConfig
  /\ \/ executionConfig /\ Next /\ UNCHANGED legacy
     \/ ~executionConfig /\ LegacyNext /\ UNCHANGED vars
     \/ phase = "over" /\ pc = "done" /\ UNCHANGED <<vars, legacy>>

mainVars == <<executionConfig, vars, legacy>>

MainSpec ==
  /\ MainInit /\ [][MainNext]_mainVars
  /\ WF_mainVars(Agent /\ UNCHANGED <<executionConfig, legacy>>)
  /\ WF_mainVars(Expire /\ UNCHANGED <<executionConfig, legacy>>)
  /\ WF_mainVars((LegacyAgentSteps \/ ScanLate) /\ UNCHANGED <<executionConfig, vars>>)
=============================================================================
