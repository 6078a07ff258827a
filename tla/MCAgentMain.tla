----------------------------- MODULE MCAgentMain ----------------------------
(* Model values for AgentMain: one configuration per profile that behaves     *)
(* differently, with ceilings of two steps and three tokens.                 *)
EXTENDS AgentMain

MCConf(task, mode, language, fix) ==
  [ task |-> task, mode |-> mode, language |-> language, fix |-> fix,
    custom |-> task = "other", diff |-> FALSE, writes |-> {}, commands |-> {},
    required |-> {}, environment |-> FALSE, diagnosis |-> FALSE,
    tokens |-> 3, steps |-> 2, context |-> 1, output |-> 1 ]

MCReview == [MCConf("ci_review", "single_call", "", FALSE) EXCEPT !.diff = TRUE]
MCSecurity == MCConf("security_analysis", "opencode", "", FALSE)
MCTests ==
  [MCConf("test_generation", "opencode", "python", FALSE) EXCEPT
     !.steps = 1, !.writes = {"test"}, !.commands = {"suite"}, !.required = {"suite"}, !.environment = TRUE]
MCReadOnly == [MCConf("ci_failure_diagnosis", "opencode", "", FALSE) EXCEPT !.diagnosis = TRUE]
MCFix ==
  [MCConf("ci_failure_diagnosis", "opencode", "", TRUE) EXCEPT
     !.steps = 1, !.diagnosis = TRUE, !.writes = {"source"}, !.commands = {"suite"}]
MCReport == MCConf("other", "single_call", "", FALSE)
MCOther ==
  [MCConf("other", "opencode", "", FALSE) EXCEPT
     !.steps = 1, !.writes = {"test", "source"}, !.commands = {"suite"}]

\* One whose only command has a name too long for its log.
MCLong == [MCOther EXCEPT !.commands = {"long"}]

\* One the API accepts and the agent does not launch.
MCBare == [MCTests EXCEPT !.environment = FALSE]

MCJob(post, diff, provider, upstream) ==
  [post |-> post, diff |-> diff, provider |-> provider, upstream |-> upstream]

MCStarts ==
  {<<c, MCJob(TRUE, FALSE, p, "failure")>> :
     c \in {MCReview, MCReport}, p \in {"openai", "anthropic", "google"}}
  \cup {<<MCReview, MCJob(FALSE, FALSE, "openai", "failure")>>,
        <<MCReport, MCJob(TRUE, TRUE, "openai", "failure")>>}
  \cup {<<MCSecurity, MCJob(post, diff, "openai", "failure")>> :
     post \in BOOLEAN, diff \in BOOLEAN}
  \cup {<<c, MCJob(TRUE, FALSE, "openai", u)>> :
     c \in {MCReadOnly, MCFix}, u \in {"failure", "success"}}
  \cup {<<c, MCJob(TRUE, FALSE, "openai", "failure")>> : c \in {MCTests, MCBare, MCOther, MCLong}}

MCReport3(in, out, total) == [in |-> in, out |-> out, total |-> total]

\* Plain, with hidden tokens, over a step's ceiling, incomplete, contradictory.
MCStepReports ==
  { MCReport3(1, 0, {1}), MCReport3(1, 1, {3}), MCReport3(2, 1, {3}),
    MCReport3(1, 1, {}), MCReport3(1, 1, {1}) }

\* A setup that works, and each way in which one may not.
MCSetup(task) ==
  [ remote |-> TRUE, task |-> task, image |-> task, runnable |-> TRUE, key |-> TRUE,
    profile |-> FALSE, post |-> TRUE, build |-> TRUE ]
MCSetups ==
  UNION {
    { MCSetup(t), [MCSetup(t) EXCEPT !.image = IF t = "review" THEN "security" ELSE "review"],
      [MCSetup(t) EXCEPT !.runnable = FALSE], [MCSetup(t) EXCEPT !.key = FALSE],
      [MCSetup(t) EXCEPT !.profile = TRUE] } : t \in {"review", "security"} }
  \cup {[MCSetup("review") EXCEPT !.remote = FALSE, !.image = "", !.post = post] : post \in BOOLEAN}
  \cup {[MCSetup("review") EXCEPT !.build = FALSE]}

MCTasks == {s[1].task : s \in MCStarts}
=============================================================================
