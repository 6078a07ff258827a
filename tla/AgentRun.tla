------------------------------ MODULE AgentRun ------------------------------
(***************************************************************************)
(* One run of the CI agent with an execution configuration                 *)
(* (agent/execution.py): fetch and check the configuration, read the       *)
(* input, claim a failure, start the model or the editor, validate, report *)
(* and deliver.  The editor container changes the workspace and asks for   *)
(* validation through a mailbox while the launcher reads its events, so    *)
(* the two are separate processes here.  The clock is a third one: it may  *)
(* run out at any step.                                                    *)
(*                                                                         *)
(* tree is the set of changes in the disposable workspace.  The commands   *)
(* of a configuration run in the order of the configuration; here in any.  *)
(***************************************************************************)
EXTENDS TaskContract, OpencodeStream

CONSTANTS
  Starts,           \* pairs of a project's configuration and a CI job
  Besides,          \* fields the API serves besides those of contract 1
  StepReports,      \* what a step may report: input, output and total tokens
  Verified,         \* the tasks whose profile is marked verified
  LongNames         \* commands with a name of more than 53 characters

Jobs == [post : BOOLEAN, diff : BOOLEAN, provider : {"openai", "anthropic", "google"},
         upstream : {"failure", "success", "other stage", "no exit", "no log"}]

ASSUME StartsAreConfigurable ==
  \A s \in Starts : Configurable(s[1]) /\ s[2] \in Jobs

\* Ceilings are numbers, a required command is one of the commands, and a log
\* is named apart from the other artifacts.
ASSUME ConfigurationsAreTyped ==
  \A s \in Starts :
    /\ s[1].tokens \in Nat /\ s[1].steps \in Nat
    /\ s[1].context \in Nat /\ s[1].output \in Nat
    /\ s[1].required \subseteq s[1].commands
    /\ s[1].commands \cap {"failure-log", "changes"} = {}

ASSUME StepReportsAreCounts ==
  StepReports \subseteq [in : Nat, out : Nat, total : SUBSET Nat]

VARIABLES
  conf,       \* the configuration this run is for
  job,        \* what the CI job passes to the agent
  pc,         \* where the agent is
  stream,     \* what the reader made of OpenCode's events
  usage,      \* what the provider of a single call reported
  tree,       \* the changes in the workspace
  editor,     \* the editor container
  mail,       \* the mailbox between the editor's bridge and the launcher
  valid,      \* the validation in progress
  evidence,   \* what the last validation left
  report,     \* the parsed answer
  expired,    \* no time is left
  attempts,   \* launches of the model's runner
  outcome,    \* how the execution went
  result,     \* the result and its gate, once built
  exit,       \* the exit code, once known, and why it is what it is
  server      \* what became of the delivery

vars == <<conf, job, pc, stream, usage, tree, editor, mail, valid, evidence, report,
          expired, attempts, outcome, result, exit, server>>
work == <<tree, editor, mail, valid>>
fixed == <<conf, job>>

Limit == [ tokens |-> conf.tokens, steps |-> Authority(conf).steps,
           context |-> conf.context, output |-> conf.output ]
Diagnosis == conf.task = "ci_failure_diagnosis"
Named == conf.task = "test_generation"
ReadOnly == Diagnosis /\ ~conf.fix
UsesEditor == conf.mode = "opencode" /\ conf.task # "security_analysis"

NoEvidence == [patch |-> {}, artifacts |-> {}, checks |-> {}]
Idle == [on |-> FALSE, left |-> {}, tree |-> {}]
FailureLog == IF Diagnosis THEN {[id |-> "failure-log", kind |-> "other", sha |-> {}]} ELSE {}

NoUsage(p, requests) ==
  [ provider |-> p, requests |-> requests, input |-> {}, output |-> {}, read |-> {},
    write |-> {}, reasoning |-> {}, reported |-> {} ]

Fresh(start, at) ==
  /\ conf = start[1] /\ job = start[2] /\ pc = at
  /\ stream = NoStream /\ usage = NoUsage(job.provider, 0)
  /\ tree = {} /\ editor = "off"
  /\ mail = [request |-> 0, response |-> {}, seen |-> {}]
  /\ valid = Idle /\ evidence = NoEvidence /\ report = {}
  /\ expired = FALSE /\ attempts = 0
  /\ outcome = [status |-> "completed", code |-> 0]
  /\ result = {} /\ exit = {} /\ server = "none"

Init == \E s \in Starts : Fresh(s, "start")

\* The process ends with a code and no result.
Leave(code, why) ==
  /\ pc' = "done" /\ exit' = {[code |-> code, why |-> why]}
  /\ UNCHANGED <<stream, usage, work, evidence, report, attempts, outcome, result, server>>

\* The execution ends; a failure keeps nothing of what it produced.
Fails(status, code) ==
  /\ pc' = "result" /\ outcome' = [status |-> status, code |-> code]
  /\ evidence' = NoEvidence /\ report' = {} /\ valid' = Idle

\* The deadline passes; once the execution is over nobody looks at it.
Expire ==
  /\ ~expired /\ pc \notin {"result", "deliver", "done"} /\ expired' = TRUE
  /\ UNCHANGED <<fixed, pc, stream, usage, work, evidence, report, attempts, outcome,
                 result, exit, server>>

-----------------------------------------------------------------------------
(* Before the model: configuration, profile, input, claim. *)

Fetch ==
  /\ pc = "start"
  /\ \/ Leave(4, "unreachable")
     \/ ~Understood(Served(conf, Besides)) /\ Leave(4, "unsupported")
     \/ /\ Understood(Served(conf, Besides)) /\ pc' = "resolve"
        /\ UNCHANGED <<stream, usage, work, evidence, report, attempts, outcome, result,
                       exit, server>>
  /\ UNCHANGED <<fixed, expired>>

\* A task resolves only to a verified profile and the inputs it supports.
Resolves(task, mode) == conf.task = task /\ conf.mode = mode /\ task \in Verified

ReviewResolves == Resolves("ci_review", "single_call") /\ conf.diff
SecurityResolves == Resolves("security_analysis", "opencode") /\ ~conf.diff /\ ~job.diff
DiagnosisResolves == Resolves("ci_failure_diagnosis", "opencode") /\ conf.diagnosis /\ ~job.diff
TestResolves == Resolves("test_generation", "opencode")
OtherResolves == Resolves("other", conf.mode)

Resolved ==
  ReviewResolves \/ SecurityResolves \/ DiagnosisResolves \/ TestResolves \/ OtherResolves

Resolve ==
  /\ pc = "resolve"
  /\ \/ ~Resolved /\ Leave(4, "profile")
     \/ /\ Resolved
        /\ pc' = IF Diagnosis THEN "claim" ELSE "input"
        /\ UNCHANGED <<stream, usage, work, evidence, report, attempts, outcome, result,
                       exit, server>>
  /\ UNCHANGED <<fixed, expired>>

\* The diff is read within the byte ceiling and the deadline of the run.
ReadInput ==
  /\ pc = "input"
  /\ \/ conf.diff /\ (Leave(124, "input") \/ Leave(4, "input"))
     \/ ~conf.diff /\ job.diff /\ Leave(4, "input")
     \/ expired /\ conf.task # "security_analysis" /\ Leave(124, "input")
     \/ /\ ~conf.diff => ~job.diff
        /\ expired => conf.task = "security_analysis"
        /\ pc' = IF conf.mode = "single_call" THEN "call" ELSE "launch"
        /\ UNCHANGED <<stream, usage, work, evidence, report, attempts, outcome, result,
                       exit, server>>
  /\ UNCHANGED <<fixed, expired>>

\* A diagnosis starts only for the configured failure, and only once the API
\* has recorded its claim.
Claim ==
  /\ pc = "claim"
  /\ \/ /\ \/ job.upstream # "failure"
           \/ job.upstream = "failure" /\ server' \in {"duplicate", "unsure"}
        /\ job.upstream # "failure" => server' = "none"
        /\ pc' = "result" /\ outcome' = [status |-> "skipped",
                                         code |-> IF server' = "unsure" THEN 4 ELSE 1]
        /\ UNCHANGED <<stream, usage, work, evidence, report, attempts, result, exit>>
     \/ job.upstream = "failure" /\ Leave(4, "claim")
     \/ /\ job.upstream = "failure" /\ server' = "claimed" /\ pc' = "launch"
        /\ UNCHANGED <<stream, usage, work, evidence, report, attempts, outcome, result,
                       exit>>
  /\ UNCHANGED <<fixed, expired>>

-----------------------------------------------------------------------------
(* A single call: one request, one answer, no retry. *)

Option(S) == {{}} \cup {{n} : n \in S}

Usages ==
  {u \in [ provider : {job.provider}, requests : {1}, input : Option(1 .. 2),
           output : Option(1 .. 2), read : Option(0 .. 1), write : Option(0 .. 1),
           reasoning : Option(0 .. 1), reported : Option(2 .. 4) ] : ProviderUsageOK(u)}

\* How a call that produced text ends, before the text is looked at.
CallCode(u) ==
  LET input == Known(u.input)
                 + IF u.provider = "anthropic" THEN Known(u.read) + Known(u.write) ELSE 0
      output == Known(u.output) + IF u.provider = "google" THEN Known(u.reasoning) ELSE 0
  IN CASE Larger(CapturedTokens(u), Known(u.reported)) > Limit.tokens -> 124
       [] Larger(CapturedTokens(u), Known(u.reported)) <= Limit.tokens
            /\ TotalTokens(u) = {} -> 4
       [] OTHER -> IF input > Limit.context \/ output > Limit.output THEN 124 ELSE 0

\* What an answer holds: findings at a blocking severity or not, a report.
Answers ==
  [ blocking : IF conf.task \in {"ci_review", "security_analysis"} THEN BOOLEAN ELSE {FALSE},
    cause : IF Diagnosis THEN {"repository", "external"} ELSE {""},
    explained : IF Diagnosis THEN BOOLEAN ELSE {FALSE},
    evidence : IF Diagnosis THEN {{"failure-log"}} ELSE {{}} ]

Completes(answer) ==
  /\ pc' = "result" /\ report' = {answer}
  /\ outcome' = [status |-> "completed", code |-> IF answer.blocking THEN 1 ELSE 0]
  /\ UNCHANGED <<evidence, valid>>

\* What is no answer is looked through for a refusal, but not by a diagnosis.
NoFindings(text) == IF text = "refusal" THEN Fails("refused", 3) ELSE Fails("failed", 2)
NoDiagnosis == Fails("failed", 2)

Parses(text) ==
  \/ text = "answer" /\ \E a \in Answers : Completes(a)
  \/ text # "answer" /\ IF Diagnosis THEN NoDiagnosis ELSE NoFindings(text)

\* A selected input is no plain UTF-8 file of its root, or is too large.
Unreadable == Fails("failed", 4) \/ Fails("failed", 124)

\* Diff, files and artifacts are put together, each and all within a ceiling.
NotAssembled == Unreadable \/ Fails("failed", 124)

\* The bound on prompt and output is checked before a token is paid for.
OverBound == Fails("failed", 124)

\* What can go wrong before the one request of a review, or of a custom
\* task, which assembles its inputs here.
Unasked ==
  \/ OverBound \/ Fails("failed", 4)                     \* no credential
  \/ conf.task = "other" /\ NotAssembled

\* One POST: no answer, one over the byte ceiling, or none in time.
Unanswered == Fails("failed", 4) \/ Fails("failed", 124) \/ Fails("timed_out", 124)

\* A response that refuses, stops early, or is another model's.
Unfinished == Fails("refused", 3) \/ Fails("failed", 124) \/ Fails("failed", 4)

Call ==
  /\ pc = "call"
  /\ \/ Unasked /\ usage' = usage
     \/ /\ expired /\ Fails("timed_out", 124)
        /\ usage' \in Usages \cup {usage, NoUsage(job.provider, 1)}
     \/ Unanswered /\ usage' = NoUsage(job.provider, 1)
     \/ /\ usage' \in Usages
        /\ \/ Unfinished
           \/ CallCode(usage') # 0 /\ Fails("failed", CallCode(usage'))
           \/ CallCode(usage') = 0 /\ \E text \in {"answer", "refusal", "junk"} : Parses(text)
  /\ UNCHANGED <<fixed, stream, tree, editor, mail, expired, attempts, result, exit, server>>

-----------------------------------------------------------------------------
(* OpenCode: the launcher, the editor container and the event reader. *)

\* The walk over a workspace refuses links, special files and git metadata,
\* and counts bytes and files.
TreeRefused == Fails("failed", 4) \/ Fails("failed", 124)

\* The exact base commit is exported with git into a fresh directory.
NotCheckedOut ==
  \/ TreeRefused
  \/ Fails("timed_out", 124)                             \* a git command over its seconds

\* A diagnosis that may fix refuses a source it could not restore or must
\* not show, and one that may not sees the selected files only.
Unprepared == Diagnosis /\ (Fails("failed", 4) \/ Unreadable)

\* The baseline of a test run is copied aside with the reporters.
NoBaseline == Named /\ Fails("failed", 4)

\* No launcher as root, no editor without its credential or its container.
EditorRefused == Fails("failed", 4)

\* A scan wants the pinned image and a read-only workspace within bounds.
BoundaryOpen == Fails("failed", 4)
CheckoutRefused == Fails("failed", 4) \/ Fails("failed", 124)
ScanRefused ==
  \/ BoundaryOpen \/ CheckoutRefused \/ OverBound
  \/ expired /\ Fails("timed_out", 124)

\* An image without digest, no exact base commit, an output directory that
\* exists: only a diagnosis turns these into a result.
Misplaced ==
  IF Diagnosis THEN Fails("failed", 4) /\ UNCHANGED <<stream, usage, tree, editor, mail,
                                                     attempts, result, exit, server>>
               ELSE Leave(4, "boundary")

\* The API takes a test configuration without the reviewed environment; the
\* agent, that checks it again before anything else, runs none.
Launchable == Named => conf.environment

Launch ==
  /\ pc = "launch"
  /\ \/ Misplaced /\ UNCHANGED <<fixed, expired>>
     \/ /\ Launchable
        /\ \/ /\ UsesEditor /\ attempts' = 0
              /\ NotCheckedOut \/ NoBaseline \/ Unprepared \/ NotAssembled \/ OverBound
           \/ UsesEditor /\ attempts' = 1 /\ EditorRefused
           \/ ~UsesEditor /\ attempts' = 0 /\ ScanRefused
        /\ UNCHANGED <<fixed, stream, usage, tree, editor, mail, expired, result, exit, server>>
     \/ /\ Launchable
        /\ pc' = "reading" /\ editor' = "running" /\ attempts' = 1
        /\ UNCHANGED <<fixed, stream, usage, tree, mail, valid, evidence, report, expired,
                       outcome, result, exit, server>>

\* The editor edits its writable mount while its container runs.
Edit ==
  /\ editor = "running" /\ UsesEditor /\ ~ReadOnly
  /\ \E change \in Changes :
       tree' = IF change \in tree THEN tree \ {change} ELSE tree \cup {change}
  /\ UNCHANGED <<fixed, pc, stream, usage, editor, mail, valid, evidence, report, expired,
                 attempts, outcome, result, exit, server>>

\* A request is a file with a fresh nonce.
Posted == [mail EXCEPT !.request = Cardinality(mail.seen) + 1]

\* The bridge's one tool takes no arguments and posts one request at a time.
Request ==
  /\ editor = "running" /\ UsesEditor /\ ~ReadOnly /\ mail.request = 0
  /\ Cardinality(mail.seen) <= Limit.steps
  /\ mail' = Posted
  /\ UNCHANGED <<fixed, pc, stream, usage, tree, editor, valid, evidence, report, expired,
                 attempts, outcome, result, exit, server>>

\* The bridge takes the answer under its nonce, or stops waiting.
Answered ==
  /\ editor = "running" /\ mail.request # 0
  /\ \/ \E r \in mail.response : r.nonce = mail.request /\ mail' = [mail EXCEPT !.request = 0, !.response = {}]
     \/ /\ mail.request \in mail.seen /\ \A r \in mail.response : r.nonce # mail.request
        /\ mail' = [mail EXCEPT !.request = 0]
  /\ UNCHANGED <<fixed, pc, stream, usage, tree, editor, valid, evidence, report, expired,
                 attempts, outcome, result, exit, server>>

Live == pc = "reading" /\ stream.code = 0 /\ editor = "running"

\* The reader takes one event of the running process.
ReadEvent ==
  /\ Live
  /\ \/ stream' = StepStart(stream, Limit)
     \/ \E text \in {"answer", "refusal", "junk"} :
          stream.starts > stream.steps /\ stream' = Said(stream, text)
     \/ \E allowed \in BOOLEAN : stream' = ToolUse(stream, allowed, Limit)
     \/ \E r \in StepReports, reason \in {"stop", "tool"} :
          stream' = StepFinish(stream, r.in, r.out, r.total, reason, Limit)
     \/ \E in \in 0 .. 1 : stream' = Malformed(stream, in)
     \/ stream' = Stopped(stream, 4)                     \* an error event, or a failed callback
     \/ stream' = Stopped(stream, 124)                   \* the byte ceiling
  /\ UNCHANGED <<fixed, pc, usage, work, evidence, report, expired, attempts, outcome,
                 result, exit, server>>

TickUnfrozen ==
  /\ Live /\ UsesEditor /\ ~ReadOnly
  /\ mail.request # 0 /\ mail.request \notin mail.seen
  /\ Cardinality(mail.seen) < Limit.steps
  /\ mail' = [mail EXCEPT !.seen = @ \cup {mail.request}]
  /\ pc' = "capture"
  /\ UNCHANGED <<fixed, stream, usage, tree, editor, valid, evidence, report, expired,
                 attempts, outcome, result, exit, server>>

\* Between two reads the launcher looks into the mailbox, and freezes the
\* container for the time of a validation.
Tick ==
  /\ Live /\ UsesEditor /\ ~ReadOnly
  /\ mail.request # 0 /\ mail.request \notin mail.seen
  /\ IF Cardinality(mail.seen) >= Limit.steps
       THEN stream' = Stopped(stream, 124) /\ UNCHANGED <<pc, editor, mail>>
       ELSE /\ mail' = [mail EXCEPT !.seen = @ \cup {mail.request}]
            /\ editor' = "paused" /\ pc' = "capture" /\ UNCHANGED stream
  /\ UNCHANGED <<fixed, usage, tree, valid, evidence, report, expired, attempts, outcome,
                 result, exit, server>>

Patch(files) == [sha |-> files, files |-> files, artifact |-> "changes"]
PatchArtifact(files) == [id |-> "changes", kind |-> "patch", sha |-> files]

\* Generated tests: new test files only, and there are some.
TestPatchOK == TestPathsOK(tree)

\* A repair modifies permitted production files only.
RepairOK == tree # {} => conf.fix /\ FixPathsOK(tree)

\* The policies a captured tree must satisfy.
Capturable ==
  tree \subseteq conf.writes /\ (Named => TestPatchOK) /\ (Diagnosis => RepairOK)

\* A validation that cannot go on, and posts no answer: the callback's error ends the stream, the
\* final one's ends the execution.
Rejected(code, timedOut) ==
  \/ /\ editor # "gone" /\ pc' = "reading" /\ valid' = Idle /\ editor' = "running"
     /\ stream' = Stopped(stream, code)
     /\ UNCHANGED <<mail, evidence, report, outcome>>
  \/ /\ editor = "gone" /\ UNCHANGED <<stream, editor, mail>>
     /\ Fails(IF timedOut THEN "timed_out" ELSE "failed", code)

\* validate() begins: the patch is captured and names the tree as it is.
Capture ==
  /\ pc = "capture"
  /\ \/ Rejected(4, FALSE)                               \* a path or a content no policy allows
     \/ Rejected(124, FALSE)                             \* a byte or file ceiling
     \/ Rejected(124, TRUE)                              \* a git command over its seconds
     \/ /\ Capturable /\ pc' = "checking"
        /\ valid' = [on |-> TRUE, left |-> conf.commands, tree |-> tree]
        /\ evidence' = [ patch |-> {Patch(f) : f \in {tree} \ {{}}}, checks |-> {},
                         artifacts |-> FailureLog \cup {PatchArtifact(f) : f \in {tree} \ {{}}} ]
        /\ UNCHANGED <<stream, editor, mail, report, outcome>>
  /\ UNCHANGED <<fixed, usage, tree, expired, attempts, result, exit, server>>

LogOf(command) == [id |-> command, kind |-> "validation_log", sha |-> {}]

Checked(status, logged, tests) == [status |-> status, logged |-> logged, tests |-> tests]

\* A command that runs to its end has a status and a log; one that cannot be
\* started, takes too long or is not cleaned up after says nothing.
ContainerRuns ==
  {Checked(s, TRUE, {}) : s \in {"passed", "failed"}}
    \cup {Checked("unavailable", logged, {}) : logged \in BOOLEAN}

\* A run of the suite: whether it printed one well-formed report without a
\* collection error, the tests reported, none if one did not pass, its status.
Reports == [whole : BOOLEAN, exit : 0 .. 1, tests : SUBSET {"existing", "test"}]

\* What one run of the suite amounts to.
ReportTests(r) ==
  IF ~r.whole THEN "unavailable"
  ELSE IF r.exit = 1 THEN "failed"
  ELSE IF r.tests = {} THEN "unavailable" ELSE "passed"

\* The existing tests are those of the baseline, and the generated ones ran.
Evaluate(base, final, generated) ==
  IF base.tests = final.tests \ generated /\ generated \subseteq final.tests
    THEN "passed" ELSE "unavailable"

\* The suite runs on the baseline and, if it passes there, on the candidate.
SuiteStatus(base, final, generated) ==
  IF ReportTests(base) # "passed" THEN ReportTests(base)
  ELSE IF ReportTests(final) # "passed" THEN ReportTests(final)
  ELSE Evaluate(base, final, generated)

TestEvidence(base, final, generated) ==
  [ paths |-> generated,
    existing |-> IF base.tests = final.tests \ generated THEN "kept" ELSE "changed",
    generated |-> Cardinality(final.tests \cap generated) ]

\* A check of the suite, unless the dependency lock or the time forbids it.
SuiteRuns(generated) ==
  {Checked("unavailable", logged, {}) : logged \in BOOLEAN}
    \cup {LET s == SuiteStatus(b, f, generated)
          IN Checked(s, TRUE, IF s = "passed" THEN {TestEvidence(b, f, generated)} ELSE {}) :
          b \in Reports, f \in Reports}

\* A log is named validation-<command>, in 64 characters: a command with a
\* longer name than that leaves room for ends the validation once it has run.
CheckUnnamed ==
  /\ pc = "checking"
  /\ valid.left \cap LongNames # {} /\ Rejected(4, FALSE)
  /\ UNCHANGED <<fixed, usage, tree, expired, attempts, result, exit, server>>

\* One configured command runs in its own container against the tree.
Check ==
  /\ pc = "checking"
  /\ \E command \in valid.left, c \in IF Named THEN SuiteRuns(tree) ELSE ContainerRuns :
       LET v == [ command |-> command, status |-> c.status, patch |-> {p.sha : p \in evidence.patch},
                  exit |-> IF c.status = "unavailable" THEN {}
                           ELSE {IF c.status = "passed" THEN 0 ELSE 1},
                  log |-> IF c.logged THEN {command} ELSE {},
                  tests |-> c.tests, against |-> tree ]
       IN /\ expired => c.status = "unavailable" /\ ~c.logged
          /\ command \in LongNames => ~c.logged
          /\ evidence' = [evidence EXCEPT !.checks = @ \cup {v},
                            !.artifacts = @ \cup {LogOf(l) : l \in v.log}]
          /\ valid' = [valid EXCEPT !.left = @ \ {command}]
  /\ UNCHANGED <<fixed, pc, stream, usage, tree, editor, mail, report, expired, attempts,
                 outcome, result, exit, server>>

\* The checks are done: the editor gets its answer and goes on, or the final
\* validation decides how the execution ends.
Settle ==
  /\ pc = "checking" /\ valid.left = {}
  /\ \/ tree # valid.tree /\ Rejected(4, FALSE)
     \/ Named /\ Rejected(4, FALSE)                       \* a suite without test files
     \/ Rejected(124, FALSE)                             \* the artifacts' byte ceiling
     \/ /\ tree = valid.tree /\ editor # "gone"
        /\ pc' = "reading" /\ editor' = "running" /\ valid' = Idle
        /\ mail' = [mail EXCEPT !.response =
              {[nonce |-> mail.request, patch |-> valid.tree,
                against |-> {v.against : v \in evidence.checks}]}]
        /\ evidence' = NoEvidence       \* the next validation overwrites it
        /\ UNCHANGED <<stream, report, outcome>>
     \/ /\ tree = valid.tree /\ editor = "gone" /\ UNCHANGED <<stream, editor, mail>>
        /\ \/ /\ Diagnosis
              /\ \E r \in report : IF evidence.patch # {} THEN r.cause # "repository" ELSE ~r.explained
              /\ Fails("failed", 4)
           \/ expired /\ Fails("timed_out", 124)
           \/ /\ ~expired /\ pc' = "result" /\ valid' = Idle
              /\ Diagnosis => \A r \in report : IF evidence.patch # {} THEN r.cause = "repository" ELSE r.explained
              /\ outcome' = [outcome EXCEPT !.code =
                   IF Summary({v.status : v \in evidence.checks}) \in {"failed", "unavailable"}
                     THEN 1 ELSE 0]
              /\ UNCHANGED <<evidence, report>>
  /\ UNCHANGED <<fixed, usage, tree, expired, attempts, result, exit, server>>

\* The stream is over; the container is removed before anything else happens.
Closes ==
  /\ editor' = "gone" /\ pc' = "ended"
  /\ UNCHANGED <<fixed, usage, tree, mail, valid, evidence, report, expired, attempts,
                 outcome, result, exit, server>>

\* The reader ends it: an event did, or the clock, without waiting for one.
EndStreamOnEvents ==
  /\ pc = "reading" /\ editor = "running" /\ Closes
  /\ stream.code # 0 /\ UNCHANGED stream

EndStream ==
  /\ pc = "reading" /\ editor = "running" /\ Closes
  /\ \/ stream.code # 0 /\ UNCHANGED stream
     \/ stream.code = 0 /\ expired /\ stream' = TimedOut(stream)

\* The editor's process closes its output and exits.
Exited ==
  /\ Live /\ ~expired /\ Closes
  /\ \E rc \in 0 .. 1 : stream' = Ended(stream, rc)

AfterStreamUnvalidated ==
  /\ pc = "ended"
  /\ \/ stream.code # 0 /\ Fails(IF stream.timedOut THEN "timed_out" ELSE "failed", stream.code)
     \/ stream.code = 0 /\ Parses(stream.text)
  /\ UNCHANGED <<fixed, stream, usage, tree, editor, mail, expired, attempts, result, exit,
                 server>>

\* What the launcher makes of it: a failed stream takes its evidence with it,
\* an answer is parsed and, where there is an editor, validated once more.
AfterStream ==
  /\ pc = "ended"
  /\ \/ UsesEditor /\ Fails("failed", 4) /\ stream' = NoStream      \* cleanup not confirmed
     \/ /\ UNCHANGED stream
        /\ \/ stream.code # 0 /\ Fails(IF stream.timedOut THEN "timed_out" ELSE "failed", stream.code)
           \/ stream.code = 0 /\ ~UsesEditor /\ Parses(stream.text)
           \/ stream.code = 0 /\ UsesEditor /\ stream.text # "answer" /\ Parses(stream.text)
           \/ /\ stream.code = 0 /\ UsesEditor /\ stream.text = "answer"
              /\ pc' = "capture" /\ \E a \in Answers : report' = {a}
              /\ UNCHANGED <<valid, evidence, outcome>>
  /\ UNCHANGED <<fixed, usage, tree, editor, mail, expired, attempts, result, exit, server>>

-----------------------------------------------------------------------------
(* The result, the gate and the delivery. *)

\* The total is left out when the stream failed, but not by a security scan.
RunnerUsage ==
  [ attempts |-> attempts, steps |-> stream.steps, tools |-> stream.tools,
    captured |-> stream.captured, known |-> stream.known,
    total |-> IF UsesEditor /\ stream.code # 0 THEN {} ELSE Published(stream) ]

GateOfStatus == IF ~Diagnosis /\ outcome.status = "completed" THEN "pass" ELSE "fail"

Gate ==
  IF ~Diagnosis /\ outcome.status = "completed" /\ outcome.code = 0 THEN "pass" ELSE "fail"

TaskResult ==
  LET findings == conf.task \in {"ci_review", "security_analysis"}
      artifacts == IF Diagnosis /\ evidence.artifacts = {} /\ server = "claimed"
                     THEN FailureLog ELSE evidence.artifacts
  IN [ task |-> conf.task, mode |-> conf.mode, language |-> conf.language, fix |-> conf.fix,
       kind |-> IF findings THEN "findings"
                ELSE IF Named \/ evidence.patch # {} THEN "patch" ELSE "report",
       status |-> outcome.status, reason |-> outcome.status # "completed",
       validation |-> Summary({v.status : v \in evidence.checks}),
       patch |-> evidence.patch, report |-> IF findings THEN {} ELSE report,
       artifacts |-> artifacts, checks |-> evidence.checks,
       failure |-> IF Diagnosis
                     THEN {[upstream |-> job.upstream,
                            claim |-> IF server = "claimed" THEN {"claimed"} ELSE {}]}
                     ELSE {},
       native |-> IF conf.mode = "single_call" THEN {usage} ELSE {},
       runner |-> IF conf.mode = "opencode" THEN {RunnerUsage} ELSE {} ]

\* The result is built; usage that contradicts itself cannot be, and the run
\* ends without one.
BuildResult ==
  /\ pc = "result"
  /\ IF conf.mode = "opencode" /\ ~RunnerUsageOK(RunnerUsage)
       THEN Leave(4, "contract") /\ UNCHANGED <<fixed, expired>>
       ELSE /\ pc' = "deliver" /\ result' = {[result |-> TaskResult, gate |-> Gate]}
            /\ UNCHANGED <<fixed, stream, usage, work, evidence, report, expired, attempts,
                           outcome, exit, server>>

\* A diagnosis never exits with 0: the build it explains has failed.
ExitCode == IF Diagnosis /\ outcome.code = 0 THEN 1 ELSE outcome.code

\* What becomes of a POST, and whether the agent hears of it: a result can be
\* stored although its answer is lost.
Replies(accepts) ==
  LET stored == IF accepts THEN "accepted" ELSE "rejected"
  IN {[server |-> stored, heard |-> h] : h \in BOOLEAN} \cup {[server |-> "lost", heard |-> FALSE]}

\* The result is printed, and posted when the job says so; a duplicate's is
\* not.  A delivery that fails turns the run red.
Deliver ==
  /\ pc = "deliver" /\ pc' = "done"
  /\ \/ /\ ~job.post \/ server = "duplicate"
        /\ exit' = {[code |-> ExitCode, why |-> "reported"]} /\ UNCHANGED server
     \/ /\ job.post /\ server # "duplicate"
        /\ \E x \in result : \E reply \in Replies(Accepts(x.result, conf, x.gate)) :
             /\ server' = reply.server
             /\ exit' = {IF reply = [server |-> "accepted", heard |-> TRUE]
                           THEN [code |-> ExitCode, why |-> "reported"]
                           ELSE [code |-> 4, why |-> "delivery"]}
  /\ UNCHANGED <<fixed, stream, usage, work, evidence, report, expired, attempts, outcome,
                 result>>

Done == pc = "done" /\ UNCHANGED vars

Agent == \/ Fetch \/ Resolve \/ ReadInput \/ Claim \/ Call \/ Launch \/ Tick \/ Capture
         \/ Check \/ CheckUnnamed \/ Settle \/ EndStream \/ AfterStream \/ BuildResult \/ Deliver
Editor == Edit \/ Request \/ Answered \/ ReadEvent \/ Exited

Next == Agent \/ Editor \/ Expire \/ Done

\* The agent's steps are its own program's, each bounded by a timeout; time
\* passes.  Nothing is assumed of the editor, the model or the provider.
Spec == Init /\ [][Next]_vars /\ WF_vars(Agent) /\ WF_vars(Expire)
-----------------------------------------------------------------------------
(* What the run promises. *)

\* The API accepts every result the agent builds: agent/execution.py posts
\* it to an ingest that checks it against the configuration that was served,
\* and a rejected result is a failed build nobody has a report of.
AcceptedByTheServer ==
  \A x \in result : Accepts(x.result, conf, x.gate)

\* A completed execution reports the workspace as the editor left it: the
\* patch names the final tree and every check of the result ran against that
\* very tree, whatever was validated, edited and validated again before
\* (agent/other_opencode.py, "can never validate later edits").
CompletedNamesTheFinalTree ==
  \A x \in result : UsesEditor /\ x.result.status = "completed" =>
    /\ {p.sha : p \in x.result.patch} = {tree} \ {{}}
    /\ {v.command : v \in x.result.checks} = conf.commands
    /\ \A v \in x.result.checks : v.against = tree

\* The editor is told about one tree: every check of a validation answer ran
\* against the tree whose digest the answer carries, although the editor
\* could write to the mount while the checks run.
AnswersAreAboutOneTree ==
  \A r \in mail.response : r.against \subseteq {r.patch}

\* Exit code 0 is a pass and nothing else: a completed execution with every
\* required check passed, delivered where the job asked for delivery; a
\* diagnosis, a refusal or an incomplete stream never exits with 0.
ZeroIsADeliveredPass ==
  \A e \in exit : e.code = 0 =>
    /\ job.post => server = "accepted"
    /\ \E x \in result :
         /\ x.gate = "pass" /\ PassEarned(x.result, conf)
         /\ conf.mode = "opencode" => stream.text = "answer" /\ stream.final = "stop"

\* What a completed execution consumed lies within the ceilings, in tokens,
\* steps, tool calls and validation requests, whichever of them the last
\* event reached first.
CompletedWithinCeilings ==
  \A x \in result : x.result.status = "completed" =>
    /\ \A u \in x.result.runner :
         /\ Larger(u.captured, Known(u.total)) <= Limit.tokens
         /\ u.steps <= Limit.steps /\ u.tools <= Limit.steps
    /\ \A u \in x.result.native :
         /\ Larger(CapturedTokens(u), Known(u.reported)) <= Limit.tokens
         /\ Known(u.input) <= Limit.context
    /\ Cardinality(mail.seen) <= Limit.steps

\* Every run ends, even when the editor or the model hangs: the launcher's
\* deadline does not need an event to arrive.
RunEnds == <>(pc = "done")

\* Every configuration the API serves is one the agent understands.
ServedIsUnderstood == \A e \in exit : e.why # "unsupported"

\* Once the model was invoked the run has a result to report.
InvocationsAreReported == pc = "done" /\ attempts > 0 => result # {}
=============================================================================
