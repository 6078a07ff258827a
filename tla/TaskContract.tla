---------------------------- MODULE TaskContract ----------------------------
(***************************************************************************)
(* The contract the API and the agent share (app/task_contracts.py): what  *)
(* a task may be configured to do, which configurations an agent accepts,  *)
(* and which results the API stores for the configuration that produced    *)
(* them.  Everything here is a pure operator.                              *)
(*                                                                         *)
(* An optional field is the set of its value: {} is an absent field.  A    *)
(* file is the kind of change made to it: "test" is a new test file in a   *)
(* test directory, "source" an edit of an existing production file.  The   *)
(* digest of a patch is the set of changes it carries.  A result's base    *)
(* commit is the configured one and is left out.                           *)
(***************************************************************************)
EXTENDS Integers, FiniteSets

Changes == {"test", "source"}

\* What a profile may return and whether it may write.
Profile(capability, kinds, writable) ==
  [capability |-> capability, kinds |-> kinds, writable |-> writable]

ProfileKeys ==
  { <<"ci_review", "single_call", "", FALSE>>, <<"security_analysis", "opencode", "", FALSE>>,
    <<"test_generation", "opencode", "python", FALSE>>,
    <<"test_generation", "opencode", "node", FALSE>>,
    <<"ci_failure_diagnosis", "opencode", "", FALSE>>,
    <<"ci_failure_diagnosis", "opencode", "", TRUE>>,
    <<"other", "single_call", "", FALSE>>, <<"other", "opencode", "", FALSE>> }

PROFILES ==
  [k \in ProfileKeys |->
     CASE k[1] = "ci_review"         -> Profile("ci_review", {"findings"}, FALSE)
       [] k[1] = "security_analysis" -> Profile("security_analysis", {"findings"}, FALSE)
       [] k[1] = "test_generation"   ->
            Profile(IF k[3] = "python" THEN "test_generation_python" ELSE "test_generation_node",
                    {"patch"}, TRUE)
       [] k[1] = "ci_failure_diagnosis" ->
            IF k[4] THEN Profile("diagnosis_fix", {"report", "patch"}, TRUE)
                    ELSE Profile("diagnosis_readonly", {"report"}, FALSE)
       [] k[1] = "other" ->
            IF k[2] = "opencode" THEN Profile("custom_opencode", {"report", "patch"}, TRUE)
                                 ELSE Profile("custom_single_call", {"report"}, FALSE)]

\* The key of a configuration, or of a result, in PROFILES.
KeyOf(c) == <<c.task, c.mode, c.language, c.fix>>

\* Named test generation: new test files only, and at least one.
TestPathsOK(files) == files # {} /\ files \subseteq {"test"}

\* Repairs: exact production files only.
FixPathsOK(files) == files \subseteq {"source"}

\* The reviewed test environment runs one required command.
TestEnvironmentOK(c) ==
  Cardinality(c.commands) = 1 /\ c.required = c.commands

\* The configurations a project may be given.
Configurable(c) ==
  /\ KeyOf(c) \in DOMAIN PROFILES
  /\ LET writable == PROFILES[KeyOf(c)].writable IN
     /\ ~writable => c.writes = {} /\ c.commands = {}
     /\ writable => c.writes # {}
  /\ c.custom <=> c.task = "other"
  /\ c.task = "test_generation" => c.required # {}
  /\ c.environment => c.task = "test_generation" /\ TestEnvironmentOK(c)
  /\ c.diagnosis => /\ c.task = "ci_failure_diagnosis" /\ ~c.diff
                    /\ c.fix => FixPathsOK(c.writes)

\* What the configuration allows its agent; one generation for a single call.
Authority(c) ==
  LET p == PROFILES[KeyOf(c)] IN
  [ profile   |-> p.capability,
    workspace |-> IF p.writable THEN "disposable" ELSE "readonly",
    writes    |-> c.writes,
    executor  |-> c.commands # {},
    kinds     |-> p.kinds,
    steps     |-> IF c.mode = "single_call" THEN 1 ELSE c.steps ]

\* A served configuration: the project's, its authority, and fields besides
\* the nineteen that version 1 of the contract names.
Served(c, fields) ==
  [configuration |-> c, authority |-> Authority(c), besides |-> fields]

\* The agent takes exactly the fields it knows and the authority it derives.
Understood(body) ==
  /\ body.besides = {}
  /\ Configurable(body.configuration)
  /\ body.authority = Authority(body.configuration)

-----------------------------------------------------------------------------

Known(option) == IF option = {} THEN 0 ELSE CHOOSE n \in option : TRUE
Larger(m, n) == IF m > n THEN m ELSE n

\* Runner usage: captured is the sum of the categories seen, known says that
\* no step left one out, total is the reported total.
RunnerUsageOK(u) ==
  /\ \A n \in u.total : n >= u.captured
  /\ u.attempts = 0 => u.steps = 0 /\ u.tools = 0 /\ u.captured = 0

RunnerComplete(u) ==
  u.attempts > 0 /\ u.steps > 0 /\ u.known /\ u.total # {}

\* Provider usage: the categories that add up to a billable total.
Summed(u) ==
  {u.input, u.output}
    \cup CASE u.provider = "anthropic" -> {u.read, u.write}
           [] u.provider = "google"    -> {u.reasoning}
           [] OTHER                    -> {}

CapturedTokens(u) ==
  Known(u.input) + Known(u.output)
    + CASE u.provider = "anthropic" -> Known(u.read) + Known(u.write)
        [] u.provider = "google"    -> Known(u.reasoning)
        [] OTHER                    -> 0

TotalTokens(u) == IF {} \in Summed(u) THEN {} ELSE {CapturedTokens(u)}

ProviderUsageOK(u) ==
  /\ u.provider # "anthropic" /\ u.input # {} =>
       Known(u.read) <= Known(u.input) /\ Known(u.write) <= Known(u.input)
  /\ u.provider # "google" /\ u.output # {} => Known(u.reasoning) <= Known(u.output)
  /\ u.provider = "google" => u.write = {}
  /\ u.requests = 0 =>
       {u.input, u.output, u.read, u.write, u.reasoning, u.reported} = {{}}
  /\ \A n \in u.reported : n >= CapturedTokens(u) /\ TotalTokens(u) \in {{}, {n}}

-----------------------------------------------------------------------------

\* A check of the validation executor, and what all of them amount to.
CheckOK(v) ==
  IF v.status \in {"passed", "failed"}
    THEN v.exit # {} /\ v.log # {} /\ (v.status = "passed" <=> v.exit = {0})
    ELSE v.exit = {}

Summary(statuses) ==
  CASE "failed" \in statuses                            -> "failed"
    [] "failed" \notin statuses /\ "unavailable" \in statuses -> "unavailable"
    [] statuses = {"passed"}                            -> "passed"
    [] OTHER                                            -> "not_run"

\* A result that is consistent in itself.
WellFormed(r) ==
  /\ r.native = {} \/ r.runner = {}
  /\ r.status # "completed" => r.reason
  /\ KeyOf(r) \in DOMAIN PROFILES /\ r.kind \in PROFILES[KeyOf(r)].kinds
  /\ \A a, b \in r.artifacts : a.id = b.id => a = b
  /\ r.status = "completed" => /\ r.kind = "patch" => r.patch # {}
                               /\ r.kind # "findings" => r.report # {}
  /\ \A p \in r.patch : /\ r.kind = "patch"
                        /\ [id |-> p.artifact, kind |-> "patch", sha |-> p.sha] \in r.artifacts
  /\ \A a \in r.artifacts : a.kind = "patch" => \E p \in r.patch : a.id = p.artifact
  /\ \A t \in r.report : t.evidence \subseteq {a.id : a \in r.artifacts}
  /\ \A v, w \in r.checks : v.command = w.command => v = w
  /\ \A v \in r.checks :
       /\ CheckOK(v) /\ v.patch = {p.sha : p \in r.patch}
       /\ \A l \in v.log : \E a \in r.artifacts : a.id = l /\ a.kind = "validation_log"
  /\ r.validation = Summary({v.status : v \in r.checks})
  /\ \A u \in r.native : ProviderUsageOK(u)
  /\ \A u \in r.runner : RunnerUsageOK(u)

\* The failure a diagnosis reports on.
FailureBound(r, c, gate) ==
  /\ r.failure = {} => ~(c.diagnosis /\ r.task = "ci_failure_diagnosis")
  /\ \A f \in r.failure :
       /\ r.task = "ci_failure_diagnosis" /\ c.diagnosis /\ gate = "fail"
       /\ r.status = "completed" =>
            /\ f.claim # {} /\ f.upstream = "failure"
            /\ \E t \in r.report :
                 /\ t.cause # "" /\ t.evidence = {"failure-log"}
                 /\ r.patch = {} => t.explained
                 /\ r.patch # {} => t.cause = "repository"
            /\ \E a \in r.artifacts : a.id = "failure-log" /\ a.kind = "other"
            /\ \E u \in r.runner : u.attempts = 1 /\ u.steps >= 1
       /\ \A p \in r.patch : FixPathsOK(p.files)

\* Reported usage against the configured ceilings.
UsageBound(r, c, gate) ==
  /\ \A u \in r.native :
       /\ r.task \in {"ci_review", "other"} /\ r.mode = "single_call"
       /\ r.status = "completed" => TotalTokens(u) # {} /\ u.requests = 1
       /\ gate = "pass" => Larger(CapturedTokens(u), Known(u.reported)) <= c.tokens
  /\ \A u \in r.runner :
       /\ r.task # "ci_review" /\ r.mode = "opencode"
       /\ r.status = "completed" => RunnerComplete(u)
       /\ (gate = "pass" \/ (r.task = "ci_failure_diagnosis" /\ r.status = "completed"))
            => /\ Larger(u.captured, Known(u.total)) <= c.tokens
               /\ u.steps <= c.steps /\ u.tools <= c.steps /\ u.attempts <= 1

\* Patch, checks and test evidence against the configured commands.
EvidenceBound(r, c) ==
  /\ \A p \in r.patch : /\ p.files \subseteq c.writes
                        /\ r.task = "test_generation" => TestPathsOK(p.files)
  /\ {v.command : v \in r.checks} \subseteq c.commands
  /\ r.validation = "passed" => {v.command : v \in r.checks} = c.commands
  /\ \A v \in r.checks : \A e \in v.tests :
       /\ r.task = "test_generation" /\ c.environment
       /\ \E p \in r.patch : e.paths = p.files
       /\ e.existing = "kept" /\ e.generated > 0

\* What a passing gate needs.
PassEarned(r, c) ==
  /\ r.status = "completed"
  /\ c.required \subseteq {v.command : v \in {w \in r.checks : w.status = "passed"}}
  /\ r.validation \notin {"failed", "unavailable"}
  /\ r.task # "ci_failure_diagnosis"
  /\ r.task = "test_generation" =>
       r.patch # {} /\ \E v \in r.checks : v.status = "passed" /\ v.tests # {}

\* What the API accepts for the configuration a result was produced under.
Accepts(r, c, gate) ==
  /\ WellFormed(r)
  /\ KeyOf(r) = KeyOf(c)
  /\ FailureBound(r, c, gate)
  /\ UsageBound(r, c, gate)
  /\ EvidenceBound(r, c)
  /\ gate = "pass" => PassEarned(r, c)
=============================================================================
