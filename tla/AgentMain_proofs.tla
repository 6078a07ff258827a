-------------------------- MODULE AgentMain_proofs --------------------------
(***************************************************************************)
(* Proofs about the agent, for every configuration the API accepts, every  *)
(* CI job, any ceilings and whatever a step of the model may report: first *)
(* an explicit execution (AgentRun), then the review and scan of           *)
(* LegacyAgent, then what the API is sent, and last the whole command.     *)
(***************************************************************************)
EXTENDS AgentMain, FiniteSetTheorems, TLAPS

\* The run of a start this agent may have.
Started == \E s \in Starts : conf = s[1] /\ job = s[2]

Early == {"start", "resolve", "input", "claim", "call", "launch"}

\* The container exists between launch and the end of its stream, and runs
\* only while its events are read.
EditorInv ==
  /\ editor \in {"off", "running", "paused", "gone"}
  /\ pc \in Early => editor = "off"
  /\ pc = "reading" => editor = "running"
  /\ pc \in {"capture", "checking"} => editor \in {"paused", "gone"}
  /\ editor = "running" => pc = "reading"
  /\ pc \in {"result", "deliver", "done"} => editor \in {"off", "gone"}
  /\ pc = "ended" => editor = "gone"

PathInv ==
  /\ Started
  /\ pc = "claim" => Diagnosis
  /\ pc = "input" => ~Diagnosis
  /\ pc \in {"capture", "checking"} => UsesEditor
  /\ pc = "call" => conf.mode = "single_call"
  /\ pc \in {"launch", "reading", "capture", "checking", "ended"} => conf.mode = "opencode"

\* The records keep their fields.
Shapes ==
  /\ evidence = [ patch |-> evidence.patch, artifacts |-> evidence.artifacts,
                  checks |-> evidence.checks ]
  /\ valid = [on |-> valid.on, left |-> valid.left, tree |-> valid.tree]
  /\ mail = [request |-> mail.request, response |-> mail.response, seen |-> mail.seen]
  /\ outcome = [status |-> outcome.status, code |-> outcome.code]

\* Evidence about the tree as it is, from the commands that have run.
AboutTheTree(commands) ==
  /\ {p.sha : p \in evidence.patch} = {tree} \ {{}}
  /\ {v.command : v \in evidence.checks} = commands
  /\ \A v \in evidence.checks : v.against = tree

TreeInv ==
  /\ pc = "checking" =>
       /\ valid.tree = tree /\ valid.left \subseteq conf.commands
       /\ AboutTheTree(conf.commands \ valid.left)
  /\ pc = "result" /\ UsesEditor /\ outcome.status = "completed" => AboutTheTree(conf.commands)

Built == result # {} => pc \in {"deliver", "done"}

RunInv ==
  /\ EditorInv /\ PathInv /\ Shapes /\ TreeInv /\ Built
  /\ AnswersAreAboutOneTree /\ CompletedNamesTheFinalTree

LEMMA RunInit == Init => RunInv
BY DEF Init, Fresh, RunInv, Started, EditorInv, Early, PathInv, Shapes, TreeInv, Built, Idle, NoEvidence,
       AnswersAreAboutOneTree, CompletedNamesTheFinalTree, UsesEditor

USE DEF vars, work, fixed

LEMMA EditorStep == RunInv /\ [Next]_vars => EditorInv'
<1> SUFFICES ASSUME EditorInv, PathInv, [Next]_vars PROVE EditorInv'
  BY DEF RunInv
<1> USE DEF EditorInv, Early
<1>1. CASE UNCHANGED vars BY <1>1
<1>2. CASE Fetch BY <1>2 DEF Fetch, Leave
<1>3. CASE Resolve BY <1>3 DEF Resolve, Leave
<1>4. CASE ReadInput BY <1>4 DEF ReadInput, Leave
<1>5. CASE Claim BY <1>5 DEF Claim, Leave
<1>6. CASE Call
  <2>1. pc' = "result" BY <1>6 DEF Call, Unasked, OverBound, NotAssembled, Unreadable, Unanswered,
           Unfinished, Parses, Completes, NoFindings, NoDiagnosis, Fails
  <2> QED BY <1>6, <2>1 DEF Call
<1>7. CASE Launch BY <1>7 DEF Launch, Misplaced, Leave, Fails, NotCheckedOut, NoBaseline, TreeRefused,
           Unprepared, NotAssembled, Unreadable, OverBound, EditorRefused, ScanRefused,
           BoundaryOpen, CheckoutRefused
<1>8. CASE Tick BY <1>8 DEF Tick, Live
<1>9. CASE Capture BY <1>9 DEF Capture, Rejected, Fails
<1>10. CASE Check BY <1>10 DEF Check
<1>11. CASE CheckUnnamed BY <1>11 DEF CheckUnnamed, Rejected, Fails
<1>12. CASE Settle BY <1>12 DEF Settle, Rejected, Fails
<1>13. CASE EndStream BY <1>13 DEF EndStream, Closes
<1>14. CASE AfterStream
  BY <1>14 DEF AfterStream, Fails, Parses, Completes, NoFindings, NoDiagnosis
<1>15. CASE BuildResult BY <1>15 DEF BuildResult, Leave
<1>16. CASE Deliver BY <1>16 DEF Deliver
<1>17. CASE Edit BY <1>17 DEF Edit
<1>18. CASE Request BY <1>18 DEF Request
<1>19. CASE Answered BY <1>19 DEF Answered
<1>20. CASE ReadEvent BY <1>20 DEF ReadEvent
<1>21. CASE Exited BY <1>21 DEF Exited, Closes, Live
<1>22. CASE Expire BY <1>22 DEF Expire
<1> QED
  BY <1>1, <1>2, <1>3, <1>4, <1>5, <1>6, <1>7, <1>8, <1>9, <1>10, <1>11, <1>12, <1>13, <1>14,
     <1>15, <1>16, <1>17, <1>18, <1>19, <1>20, <1>21, <1>22 DEF Next, Agent, Editor, Done
LEMMA Keys ==
  ASSUME Started
  PROVE  /\ conf.mode \in {"single_call", "opencode"}
         /\ conf.task = "ci_review" => conf.mode = "single_call"
         /\ conf.task \in {"ci_failure_diagnosis", "test_generation", "security_analysis"} =>
              conf.mode = "opencode"
         /\ conf.task \in {"ci_review", "security_analysis", "test_generation",
                          "ci_failure_diagnosis", "other"}
<1>1. Configurable(conf)
  BY StartsAreConfigurable DEF Started
<1>2. DOMAIN PROFILES = ProfileKeys
  BY DEF PROFILES
<1>3. <<conf.task, conf.mode, conf.language, conf.fix>> \in ProfileKeys
  BY <1>1, <1>2 DEF Configurable, KeyOf
<1> QED BY <1>3 DEF ProfileKeys

LEMMA PathStep == RunInv /\ [Next]_vars => PathInv'
<1> SUFFICES ASSUME PathInv, EditorInv, [Next]_vars PROVE PathInv'
  BY DEF RunInv
<1> USE DEF PathInv, EditorInv, Early, Started, Diagnosis, UsesEditor
<1>1. CASE UNCHANGED vars BY <1>1
<1>2. CASE Fetch BY <1>2 DEF Fetch, Leave
<1>3. CASE Resolve BY <1>3 DEF Resolve, Leave
<1>4. CASE ReadInput BY <1>4, Keys DEF ReadInput, Leave
<1>5. CASE Claim BY <1>5, Keys DEF Claim, Leave
<1>6. CASE Call BY <1>6 DEF Call, Unasked, OverBound, NotAssembled, Unreadable, Unanswered, Unfinished,
           Parses, Completes, NoFindings, NoDiagnosis, Fails
<1>7. CASE Launch BY <1>7 DEF Launch, Misplaced, Leave, Fails, NotCheckedOut, NoBaseline, TreeRefused, Unprepared, NotAssembled, Unreadable,
           OverBound, EditorRefused, ScanRefused, BoundaryOpen, CheckoutRefused
<1>8. CASE Tick BY <1>8 DEF Tick, Live
<1>9. CASE Capture BY <1>9 DEF Capture, Rejected, Fails
<1>10. CASE Check BY <1>10 DEF Check
<1>11. CASE CheckUnnamed BY <1>11 DEF CheckUnnamed, Rejected, Fails
<1>12. CASE Settle BY <1>12 DEF Settle, Rejected, Fails
<1>13. CASE EndStream BY <1>13 DEF EndStream, Closes
<1>14. CASE AfterStream BY <1>14 DEF AfterStream, Fails, Parses, Completes, NoFindings, NoDiagnosis
<1>15. CASE BuildResult BY <1>15 DEF BuildResult, Leave
<1>16. CASE Deliver BY <1>16 DEF Deliver
<1>17. CASE Edit BY <1>17 DEF Edit
<1>18. CASE Request BY <1>18 DEF Request
<1>19. CASE Answered BY <1>19 DEF Answered
<1>20. CASE ReadEvent BY <1>20 DEF ReadEvent
<1>21. CASE Exited BY <1>21 DEF Exited, Closes, Live
<1>22. CASE Expire BY <1>22 DEF Expire
<1> QED
  BY <1>1, <1>2, <1>3, <1>4, <1>5, <1>6, <1>7, <1>8, <1>9, <1>10, <1>11, <1>12, <1>13, <1>14,
     <1>15, <1>16, <1>17, <1>18, <1>19, <1>20, <1>21, <1>22 DEF Next, Agent, Editor, Done

LEMMA ShapeStep == RunInv /\ [Next]_vars => Shapes'
<1> SUFFICES ASSUME Shapes, [Next]_vars PROVE Shapes'
  BY DEF RunInv
<1> USE DEF Shapes, Idle, NoEvidence
<1>1. CASE UNCHANGED vars BY <1>1
<1>2. CASE Fetch BY <1>2 DEF Fetch, Leave
<1>3. CASE Resolve BY <1>3 DEF Resolve, Leave
<1>4. CASE ReadInput BY <1>4 DEF ReadInput, Leave
<1>5. CASE Claim BY <1>5 DEF Claim, Leave
<1>6. CASE Call BY <1>6 DEF Call, Unasked, OverBound, NotAssembled, Unreadable, Unanswered, Unfinished,
           Parses, Completes, NoFindings, NoDiagnosis, Fails
<1>7. CASE Launch BY <1>7 DEF Launch, Misplaced, Leave, Fails, NotCheckedOut, NoBaseline, TreeRefused, Unprepared, NotAssembled, Unreadable,
           OverBound, EditorRefused, ScanRefused, BoundaryOpen, CheckoutRefused
<1>8. CASE Tick BY <1>8 DEF Tick, Live
<1>9. CASE Capture BY <1>9 DEF Capture, Rejected, Fails
<1>10. CASE Check BY <1>10 DEF Check
<1>11. CASE CheckUnnamed BY <1>11 DEF CheckUnnamed, Rejected, Fails
<1>12. CASE Settle BY <1>12 DEF Settle, Rejected, Fails
<1>13. CASE EndStream BY <1>13 DEF EndStream, Closes
<1>14. CASE AfterStream BY <1>14 DEF AfterStream, Fails, Parses, Completes, NoFindings, NoDiagnosis
<1>15. CASE BuildResult BY <1>15 DEF BuildResult, Leave
<1>16. CASE Deliver BY <1>16 DEF Deliver
<1>17. CASE Edit BY <1>17 DEF Edit
<1>18. CASE Request BY <1>18 DEF Request, Posted
<1>19. CASE Answered BY <1>19 DEF Answered
<1>20. CASE ReadEvent BY <1>20 DEF ReadEvent
<1>21. CASE Exited BY <1>21 DEF Exited, Closes, Live
<1>22. CASE Expire BY <1>22 DEF Expire
<1> QED
  BY <1>1, <1>2, <1>3, <1>4, <1>5, <1>6, <1>7, <1>8, <1>9, <1>10, <1>11, <1>12, <1>13, <1>14,
     <1>15, <1>16, <1>17, <1>18, <1>19, <1>20, <1>21, <1>22 DEF Next, Agent, Editor, Done

LEMMA BuiltStep == RunInv /\ [Next]_vars => Built'
<1> SUFFICES ASSUME Built, EditorInv, [Next]_vars PROVE Built'
  BY DEF RunInv
<1> USE DEF Built, EditorInv, Early
<1>1. CASE UNCHANGED vars BY <1>1
<1>2. CASE Fetch BY <1>2 DEF Fetch, Leave
<1>3. CASE Resolve BY <1>3 DEF Resolve, Leave
<1>4. CASE ReadInput BY <1>4 DEF ReadInput, Leave
<1>5. CASE Claim BY <1>5 DEF Claim, Leave
<1>6. CASE Call BY <1>6 DEF Call, Unasked, OverBound, NotAssembled, Unreadable, Unanswered, Unfinished,
           Parses, Completes, NoFindings, NoDiagnosis, Fails
<1>7. CASE Launch BY <1>7 DEF Launch, Misplaced, Leave, Fails, NotCheckedOut, NoBaseline, TreeRefused, Unprepared, NotAssembled, Unreadable,
           OverBound, EditorRefused, ScanRefused, BoundaryOpen, CheckoutRefused
<1>8. CASE Tick BY <1>8 DEF Tick, Live
<1>9. CASE Capture BY <1>9 DEF Capture, Rejected, Fails
<1>10. CASE Check BY <1>10 DEF Check
<1>11. CASE CheckUnnamed BY <1>11 DEF CheckUnnamed, Rejected, Fails
<1>12. CASE Settle BY <1>12 DEF Settle, Rejected, Fails
<1>13. CASE EndStream BY <1>13 DEF EndStream, Closes
<1>14. CASE AfterStream BY <1>14 DEF AfterStream, Fails, Parses, Completes, NoFindings, NoDiagnosis
<1>15. CASE BuildResult BY <1>15 DEF BuildResult, Leave
<1>16. CASE Deliver BY <1>16 DEF Deliver
<1>17. CASE Edit BY <1>17 DEF Edit
<1>18. CASE Request BY <1>18 DEF Request
<1>19. CASE Answered BY <1>19 DEF Answered
<1>20. CASE ReadEvent BY <1>20 DEF ReadEvent
<1>21. CASE Exited BY <1>21 DEF Exited, Closes, Live
<1>22. CASE Expire BY <1>22 DEF Expire
<1> QED
  BY <1>1, <1>2, <1>3, <1>4, <1>5, <1>6, <1>7, <1>8, <1>9, <1>10, <1>11, <1>12, <1>13, <1>14,
     <1>15, <1>16, <1>17, <1>18, <1>19, <1>20, <1>21, <1>22 DEF Next, Agent, Editor, Done

LEMMA AnswersStep == RunInv /\ [Next]_vars => AnswersAreAboutOneTree'
<1> SUFFICES ASSUME AnswersAreAboutOneTree, Shapes, TreeInv, EditorInv, [Next]_vars
             PROVE  AnswersAreAboutOneTree'
  BY DEF RunInv
<1> USE DEF AnswersAreAboutOneTree
<1>1. CASE UNCHANGED vars BY <1>1
<1>2. CASE Fetch BY <1>2 DEF Fetch, Leave
<1>3. CASE Resolve BY <1>3 DEF Resolve, Leave
<1>4. CASE ReadInput BY <1>4 DEF ReadInput, Leave
<1>5. CASE Claim BY <1>5 DEF Claim, Leave
<1>6. CASE Call BY <1>6 DEF Call, Unasked, OverBound, NotAssembled, Unreadable, Unanswered, Unfinished,
           Parses, Completes, NoFindings, NoDiagnosis, Fails
<1>7. CASE Launch BY <1>7 DEF Launch, Misplaced, Leave, Fails, NotCheckedOut, NoBaseline, TreeRefused, Unprepared, NotAssembled, Unreadable,
           OverBound, EditorRefused, ScanRefused, BoundaryOpen, CheckoutRefused
<1>8. CASE Tick
  BY <1>8 DEF Tick, Shapes
<1>9. CASE Capture BY <1>9 DEF Capture, Rejected, Fails
<1>10. CASE Check BY <1>10 DEF Check
<1>11. CASE CheckUnnamed BY <1>11 DEF CheckUnnamed, Rejected, Fails
<1>12. CASE Settle
  <2>1. CASE UNCHANGED mail BY <2>1
  <2>2. CASE mail' = [mail EXCEPT !.response =
              {[nonce |-> mail.request, patch |-> valid.tree,
                against |-> {v.against : v \in evidence.checks}]}] /\ tree = valid.tree
    <3>1. {v.against : v \in evidence.checks} \subseteq {valid.tree}
      BY <1>12, <2>2 DEF Settle, TreeInv, AboutTheTree
    <3> QED BY <2>2, <3>1 DEF Shapes
  <2> QED BY <1>12, <2>1, <2>2 DEF Settle, Rejected, Fails
<1>13. CASE EndStream BY <1>13 DEF EndStream, Closes
<1>14. CASE AfterStream BY <1>14 DEF AfterStream, Fails, Parses, Completes, NoFindings, NoDiagnosis
<1>15. CASE BuildResult BY <1>15 DEF BuildResult, Leave
<1>16. CASE Deliver BY <1>16 DEF Deliver
<1>17. CASE Edit BY <1>17 DEF Edit
<1>18. CASE Request
  BY <1>18 DEF Request, Posted, Shapes
<1>19. CASE Answered
  BY <1>19 DEF Answered, Shapes
<1>20. CASE ReadEvent BY <1>20 DEF ReadEvent
<1>21. CASE Exited BY <1>21 DEF Exited, Closes, Live
<1>22. CASE Expire BY <1>22 DEF Expire
<1> QED
  BY <1>1, <1>2, <1>3, <1>4, <1>5, <1>6, <1>7, <1>8, <1>9, <1>10, <1>11, <1>12, <1>13, <1>14,
     <1>15, <1>16, <1>17, <1>18, <1>19, <1>20, <1>21, <1>22 DEF Next, Agent, Editor, Done

\* What a command's run leaves in the evidence.
Verdict(command, c) ==
  [ command |-> command, status |-> c.status, patch |-> {p.sha : p \in evidence.patch},
    exit |-> IF c.status = "unavailable" THEN {} ELSE {IF c.status = "passed" THEN 0 ELSE 1},
    log |-> IF c.logged THEN {command} ELSE {}, tests |-> c.tests, against |-> tree ]

\* Patches name the trees they were made of.
LEMMA PatchNames == ASSUME NEW S PROVE {p.sha : p \in {Patch(f) : f \in S}} = S
<1>1. \A f : Patch(f).sha = f
  BY DEF Patch
<1> QED BY <1>1

LEMMA TreeStep == RunInv /\ [Next]_vars => TreeInv'
<1> SUFFICES ASSUME TreeInv, EditorInv, PathInv, Shapes, [Next]_vars PROVE TreeInv'
  BY DEF RunInv
<1> USE DEF TreeInv, AboutTheTree, EditorInv, Early, UsesEditor
<1>1. CASE UNCHANGED vars BY <1>1
<1>2. CASE Fetch BY <1>2 DEF Fetch, Leave
<1>3. CASE Resolve BY <1>3 DEF Resolve, Leave
<1>4. CASE ReadInput BY <1>4 DEF ReadInput, Leave
<1>5. CASE Claim BY <1>5 DEF Claim, Leave
<1>6. CASE Call
  <2>1. conf.mode = "single_call" BY <1>6 DEF Call, PathInv
  <2>2. pc' = "result" BY <1>6 DEF Call, Unasked, OverBound, NotAssembled, Unreadable, Unanswered,
           Unfinished, Parses, Completes, NoFindings, NoDiagnosis, Fails
  <2> QED BY <1>6, <2>1, <2>2 DEF Call
<1>7. CASE Launch BY <1>7 DEF Launch, Misplaced, Leave, Fails, NotCheckedOut, NoBaseline, TreeRefused, Unprepared, NotAssembled, Unreadable,
           OverBound, EditorRefused, ScanRefused, BoundaryOpen, CheckoutRefused
<1>8. CASE Tick BY <1>8 DEF Tick, Live
<1>9. CASE Capture
  <2>1. CASE pc' = "checking" /\ valid' = [on |-> TRUE, left |-> conf.commands, tree |-> tree]
             /\ evidence' = [ patch |-> {Patch(f) : f \in {tree} \ {{}}}, checks |-> {},
                  artifacts |-> FailureLog \cup {PatchArtifact(f) : f \in {tree} \ {{}}} ]
    <3>1. {p.sha : p \in {Patch(f) : f \in {tree} \ {{}}}} = {tree} \ {{}}
      BY PatchNames
    <3>2. UNCHANGED <<tree, conf>> /\ outcome' = outcome
      BY <1>9, <2>1 DEF Capture, Rejected, Fails
    <3>3. {p.sha : p \in evidence'.patch} = {tree} \ {{}} /\ evidence'.checks = {}
            /\ valid'.left = conf.commands /\ valid'.tree = tree
      BY <2>1, <3>1
    <3> QED BY <2>1, <3>2, <3>3
  <2>2. CASE pc' = "reading" \/ (pc' = "result" /\ outcome'.status # "completed")
    BY <2>2
  <2> QED BY <1>9, <2>1, <2>2 DEF Capture, Rejected, Fails
<1>10. CASE Check
  <2> PICK command \in valid.left, c \in IF Named THEN SuiteRuns(tree) ELSE ContainerRuns :
         LET v == Verdict(command, c)
         IN /\ evidence' = [evidence EXCEPT !.checks = @ \cup {v},
                              !.artifacts = @ \cup {LogOf(l) : l \in v.log}]
            /\ valid' = [valid EXCEPT !.left = @ \ {command}]
    BY <1>10 DEF Check, Verdict
  <2> DEFINE v == Verdict(command, c)
  <2>0. v.command = command /\ v.against = tree
    BY DEF Verdict
  <2> HIDE DEF v
  <2>1. /\ evidence'.patch = evidence.patch /\ evidence'.checks = evidence.checks \cup {v}
        /\ valid'.tree = valid.tree /\ valid'.left = valid.left \ {command}
    BY DEF Shapes, v
  <2>2. pc = "checking" /\ UNCHANGED <<pc, tree, conf>>
    BY <1>10 DEF Check
  <2>3. {w.command : w \in evidence'.checks} = (conf.commands \ valid.left) \cup {command}
    BY <2>0, <2>1, <2>2
  <2>4. (conf.commands \ valid.left) \cup {command} = conf.commands \ (valid.left \ {command})
    BY <2>2
  <2>5. \A w \in evidence'.checks : w.against = tree
    BY <2>0, <2>1, <2>2
  <2> QED BY <2>1, <2>2, <2>3, <2>4, <2>5
<1>11. CASE CheckUnnamed BY <1>11 DEF CheckUnnamed, Rejected, Fails
<1>12. CASE Settle BY <1>12 DEF Settle, Rejected, Fails
<1>13. CASE EndStream BY <1>13 DEF EndStream, Closes
<1>14. CASE AfterStream BY <1>14 DEF AfterStream, Fails, Parses, Completes, NoFindings, NoDiagnosis
<1>15. CASE BuildResult BY <1>15 DEF BuildResult, Leave
<1>16. CASE Deliver BY <1>16 DEF Deliver
<1>17. CASE Edit BY <1>17 DEF Edit
<1>18. CASE Request BY <1>18 DEF Request
<1>19. CASE Answered BY <1>19 DEF Answered
<1>20. CASE ReadEvent BY <1>20 DEF ReadEvent
<1>21. CASE Exited BY <1>21 DEF Exited, Closes, Live
<1>22. CASE Expire BY <1>22 DEF Expire
<1> QED
  BY <1>1, <1>2, <1>3, <1>4, <1>5, <1>6, <1>7, <1>8, <1>9, <1>10, <1>11, <1>12, <1>13, <1>14,
     <1>15, <1>16, <1>17, <1>18, <1>19, <1>20, <1>21, <1>22 DEF Next, Agent, Editor, Done

LEMMA CompletedStep == RunInv /\ [Next]_vars => CompletedNamesTheFinalTree'
<1> SUFFICES ASSUME CompletedNamesTheFinalTree, TreeInv, EditorInv, Built, [Next]_vars
             PROVE  CompletedNamesTheFinalTree'
  BY DEF RunInv
<1> USE DEF CompletedNamesTheFinalTree, UsesEditor
<1>1. CASE UNCHANGED vars BY <1>1
<1>2. CASE Fetch BY <1>2 DEF Fetch, Leave
<1>3. CASE Resolve BY <1>3 DEF Resolve, Leave
<1>4. CASE ReadInput BY <1>4 DEF ReadInput, Leave
<1>5. CASE Claim BY <1>5 DEF Claim, Leave
<1>6. CASE Call BY <1>6 DEF Call, Unasked, OverBound, NotAssembled, Unreadable, Unanswered, Unfinished,
           Parses, Completes, NoFindings, NoDiagnosis, Fails
<1>7. CASE Launch BY <1>7 DEF Launch, Misplaced, Leave, Fails, NotCheckedOut, NoBaseline, TreeRefused, Unprepared, NotAssembled, Unreadable,
           OverBound, EditorRefused, ScanRefused, BoundaryOpen, CheckoutRefused
<1>8. CASE Tick BY <1>8 DEF Tick, Live
<1>9. CASE Capture BY <1>9 DEF Capture, Rejected, Fails
<1>10. CASE Check BY <1>10 DEF Check
<1>11. CASE CheckUnnamed BY <1>11 DEF CheckUnnamed, Rejected, Fails
<1>12. CASE Settle BY <1>12 DEF Settle, Rejected, Fails
<1>13. CASE EndStream BY <1>13 DEF EndStream, Closes
<1>14. CASE AfterStream BY <1>14 DEF AfterStream, Fails, Parses, Completes, NoFindings, NoDiagnosis
<1>15. CASE BuildResult
  <2>1. CASE UNCHANGED <<result, tree, conf>>
    BY <2>1
  <2>2. CASE result' = {[result |-> TaskResult, gate |-> Gate]} /\ UNCHANGED <<tree, conf>>
    <3>1. TaskResult.status = outcome.status /\ TaskResult.patch = evidence.patch
            /\ TaskResult.checks = evidence.checks
      BY DEF TaskResult
    <3>2. pc = "result" BY <1>15 DEF BuildResult
    <3> QED BY <2>2, <3>1, <3>2 DEF TreeInv, AboutTheTree
  <2> QED BY <1>15, <2>1, <2>2 DEF BuildResult, Leave
<1>16. CASE Deliver BY <1>16 DEF Deliver
<1>17. CASE Edit
  BY <1>17 DEF Edit, Built, EditorInv
<1>18. CASE Request BY <1>18 DEF Request
<1>19. CASE Answered BY <1>19 DEF Answered
<1>20. CASE ReadEvent BY <1>20 DEF ReadEvent
<1>21. CASE Exited BY <1>21 DEF Exited, Closes, Live
<1>22. CASE Expire BY <1>22 DEF Expire
<1> QED
  BY <1>1, <1>2, <1>3, <1>4, <1>5, <1>6, <1>7, <1>8, <1>9, <1>10, <1>11, <1>12, <1>13, <1>14,
     <1>15, <1>16, <1>17, <1>18, <1>19, <1>20, <1>21, <1>22 DEF Next, Agent, Editor, Done

\* What the run promises about the tree, and what it takes to promise it.
THEOREM RunIsInvariant == Spec => []RunInv
<1>1. RunInv /\ [Next]_vars => RunInv'
  BY EditorStep, PathStep, ShapeStep, TreeStep, BuiltStep, AnswersStep, CompletedStep DEF RunInv
<1> QED BY <1>1, RunInit, PTL DEF Spec

\* agent/other_opencode.py, "can never validate later edits": for every
\* configuration, a completed result names the final tree and all its checks ran on it.
THEOREM CompletedIsFinal == Spec => []CompletedNamesTheFinalTree
<1>1. RunInv => CompletedNamesTheFinalTree
  BY DEF RunInv
<1> QED BY <1>1, RunIsInvariant, PTL

\* The editor is told about one tree only, the one its answer names.
THEOREM AnswersNameOneTree == Spec => []AnswersAreAboutOneTree
<1>1. RunInv => AnswersAreAboutOneTree
  BY DEF RunInv
<1> QED BY <1>1, RunIsInvariant, PTL

-----------------------------------------------------------------------------
(* What a stream consumes. *)

Streams ==
  [ code : {0, 4, 124}, timedOut : BOOLEAN, captured : Nat, total : SUBSET Nat,
    known : BOOLEAN, starts : Nat, steps : Nat, tools : Nat,
    text : {"", "answer", "refusal", "junk"}, final : {"", "stop", "tool"} ]

Limits == [tokens : Nat, steps : Nat, context : Nat, output : Nat]

\* A stream that goes on is within its ceilings; its total is one number, that
\* a stream of complete steps has.
Sound(s, limit) ==
  /\ s \in Streams
  /\ \A m, n \in s.total : m = n
  /\ s.known /\ s.steps > 0 => s.total # {}
  /\ s.code = 0 =>
       /\ s.captured <= limit.tokens /\ \A n \in s.total : n <= limit.tokens
       /\ s.steps <= limit.steps /\ s.tools <= limit.steps

LEMMA Fields ==
  ASSUME NEW s \in Streams
  PROVE  /\ s.code \in {0, 4, 124} /\ s.captured \in Nat
         /\ s.total \in SUBSET Nat /\ s.starts \in Nat /\ s.steps \in Nat
         /\ s.tools \in Nat /\ s.text \in {"", "answer", "refusal", "junk"}
         /\ s.final \in {"", "stop", "tool"}
BY DEF Streams

LEMMA LimitFields ==
  ASSUME NEW limit \in Limits
  PROVE  limit.tokens \in Nat /\ limit.steps \in Nat /\ limit.context \in Nat /\ limit.output \in Nat
BY DEF Limits

LEMMA StepStartSound ==
  ASSUME NEW limit \in Limits, NEW s, Sound(s, limit), s.code = 0
  PROVE  Sound(StepStart(s, limit), limit)
<1> DEFINE n == s.starts + 1
           c == IF n > limit.steps THEN 124 ELSE 0
           t == StepStart(s, limit)
<1>0. s \in Streams BY DEF Sound
<1>6. s.starts \in Nat /\ limit.steps \in Nat
  BY <1>0, Fields, LimitFields
<1>1. n \in Nat /\ c \in {0, 4, 124} /\ (c = 0 => n <= limit.steps)
  BY <1>6
<1>2. t = [s EXCEPT !.starts = n, !.text = "", !.final = "", !.code = c]
  BY DEF StepStart
<1> HIDE DEF n, c, t
<1>3. t \in Streams
  BY <1>0, <1>1, <1>2 DEF Streams
<1>4. t.captured = s.captured /\ t.total = s.total /\ t.steps = s.steps /\ t.tools = s.tools /\ t.code = c
  BY <1>0, <1>2 DEF Streams
<1>5. t.known = s.known
  BY <1>0, <1>2 DEF Streams
<1> QED BY <1>3, <1>4, <1>5 DEF Sound, t

LEMMA SaidSound ==
  ASSUME NEW limit \in Limits, NEW s, Sound(s, limit), s.code = 0,
         NEW text \in {"answer", "refusal", "junk"}
  PROVE  Sound(Said(s, text), limit)
<1> DEFINE x == IF s.text = "" THEN text ELSE IF "refusal" \in {s.text, text} THEN "refusal" ELSE "junk"
           t == Said(s, text)
<1>0. s \in Streams BY DEF Sound
<1>1. x \in {"", "answer", "refusal", "junk"}
  OBVIOUS
<1>2. t = [s EXCEPT !.text = x]
  BY DEF Said
<1> HIDE DEF x, t
<1>3. t \in Streams
  BY <1>0, <1>1, <1>2 DEF Streams
<1>4. /\ t.captured = s.captured /\ t.total = s.total /\ t.steps = s.steps /\ t.tools = s.tools
      /\ t.code = s.code
  BY <1>0, <1>2 DEF Streams
<1>5. t.known = s.known
  BY <1>0, <1>2 DEF Streams
<1> QED BY <1>3, <1>4, <1>5 DEF Sound, t

LEMMA ToolUseSound ==
  ASSUME NEW limit \in Limits, NEW s, Sound(s, limit), s.code = 0, NEW allowed \in BOOLEAN
  PROVE  Sound(ToolUse(s, allowed, limit), limit)
<1> DEFINE n == s.tools + 1
           c == IF ~allowed THEN 4 ELSE IF n > limit.steps THEN 124 ELSE 0
           t == ToolUse(s, allowed, limit)
<1>0. s \in Streams BY DEF Sound
<1>6. s.tools \in Nat /\ limit.steps \in Nat
  BY <1>0, Fields, LimitFields
<1>1. n \in Nat /\ c \in {0, 4, 124} /\ (c = 0 => n <= limit.steps)
  BY <1>6
<1>2. t = [s EXCEPT !.tools = n, !.code = c]
  BY DEF ToolUse
<1> HIDE DEF n, c, t
<1>3. t \in Streams
  BY <1>0, <1>1, <1>2 DEF Streams
<1>4. t.captured = s.captured /\ t.total = s.total /\ t.steps = s.steps /\ t.tools = n /\ t.code = c
  BY <1>0, <1>2 DEF Streams
<1>5. t.known = s.known
  BY <1>0, <1>2 DEF Streams
<1> QED BY <1>1, <1>3, <1>4, <1>5 DEF Sound, t

LEMMA MalformedSound ==
  ASSUME NEW limit \in Limits, NEW s, Sound(s, limit), NEW in \in 0 .. 1
  PROVE  Sound(Malformed(s, in), limit)
<1> DEFINE n == s.captured + in
           t == Malformed(s, in)
<1>0. s \in Streams BY DEF Sound
<1>6. s.captured \in Nat
  BY <1>0, Fields
<1>1. n \in Nat
  BY <1>6
<1>2. t = [s EXCEPT !.captured = n, !.code = 4]
  BY DEF Malformed
<1> HIDE DEF n, t
<1>3. t \in Streams
  BY <1>0, <1>1, <1>2 DEF Streams
<1>4. t.total = s.total /\ t.steps = s.steps /\ t.code = 4
  BY <1>0, <1>2 DEF Streams
<1>5. t.known = s.known
  BY <1>0, <1>2 DEF Streams
<1> QED BY <1>3, <1>4, <1>5 DEF Sound, t

\* The process ends with 0 only after steps that all ended, the last with stop.
LEMMA EndedSound ==
  ASSUME NEW limit, NEW s, Sound(s, limit), s.code = 0, NEW rc \in 0 .. 1
  PROVE  LET t == Ended(s, rc) IN
         /\ Sound(t, limit)
         /\ t.code = 0 => t.known /\ t.steps > 0 /\ t.final = "stop"
<1> DEFINE bad == rc # 0 \/ ~s.known \/ s.steps = 0 \/ s.starts # s.steps \/ s.final # "stop"
           c == IF bad THEN 4 ELSE 0
           t == Ended(s, rc)
<1>0. s \in Streams BY DEF Sound
<1>1. c \in {0, 4, 124} /\ (c = 0 => ~bad)
  OBVIOUS
<1>2. t = [s EXCEPT !.code = c]
  BY DEF Ended
<1>7. s.steps \in Nat
  BY <1>0, Fields
<1>6. ~bad => s.known /\ s.steps > 0 /\ s.final = "stop"
  BY <1>7
<1> HIDE DEF c, t, bad
<1>3. t \in Streams
  BY <1>0, <1>1, <1>2 DEF Streams
<1>4. /\ t.captured = s.captured /\ t.total = s.total /\ t.steps = s.steps /\ t.tools = s.tools
      /\ t.final = s.final /\ t.code = c
  BY <1>0, <1>2 DEF Streams
<1>5. t.known = s.known
  BY <1>0, <1>2 DEF Streams
<1> QED BY <1>1, <1>3, <1>4, <1>5, <1>6 DEF Sound, t

LEMMA StoppedSound ==
  ASSUME NEW limit, NEW s, Sound(s, limit), NEW code \in {4, 124}
  PROVE  Sound(Stopped(s, code), limit)
<1> DEFINE t == Stopped(s, code)
<1>0. s \in Streams BY DEF Sound
<1>2. t = [s EXCEPT !.code = code]
  BY DEF Stopped
<1> HIDE DEF t
<1>3. t \in Streams
  BY <1>0, <1>2 DEF Streams
<1>4. t.total = s.total /\ t.steps = s.steps /\ t.code = code
  BY <1>0, <1>2 DEF Streams
<1>5. t.known = s.known
  BY <1>0, <1>2 DEF Streams
<1> QED BY <1>3, <1>4, <1>5 DEF Sound, t

LEMMA TimedOutSound ==
  ASSUME NEW limit, NEW s, Sound(s, limit)
  PROVE  Sound(TimedOut(s), limit)
<1> DEFINE t == TimedOut(s)
<1>0. s \in Streams BY DEF Sound
<1>2. t = [s EXCEPT !.code = 124, !.timedOut = TRUE]
  BY DEF TimedOut
<1> HIDE DEF t
<1>3. t \in Streams
  BY <1>0, <1>2 DEF Streams
<1>4. t.total = s.total /\ t.steps = s.steps /\ t.code = 124
  BY <1>0, <1>2 DEF Streams
<1>5. t.known = s.known
  BY <1>0, <1>2 DEF Streams
<1> QED BY <1>3, <1>4, <1>5 DEF Sound, t

\* Reported totals add up to one total.
LEMMA PlusIsOne ==
  ASSUME NEW total \in SUBSET Nat, \A m, n \in total : m = n, NEW k \in Nat
  PROVE  /\ Plus(total, k) \in SUBSET Nat /\ Plus(total, k) # {}
         /\ \A m, n \in Plus(total, k) : m = n
<1> DEFINE base == IF total = {} THEN {0} ELSE total
<1>1. base \in SUBSET Nat /\ base # {} /\ \A m, n \in base : m = n
  OBVIOUS
<1>2. Plus(total, k) = {k + m : m \in base}
  BY DEF Plus
<1> HIDE DEF base
<1>3. PICK b \in base : base = {b}
  BY <1>1
<1>4. Plus(total, k) = {k + b}
  BY <1>2, <1>3
<1>5. k + b \in Nat
  BY <1>1, <1>3
<1> QED BY <1>4, <1>5

LEMMA StepFinishSound ==
  ASSUME NEW limit \in Limits, NEW s, Sound(s, limit), s.code = 0,
         NEW in \in Nat, NEW out \in Nat, NEW total \in SUBSET Nat, NEW reason \in {"stop", "tool"}
  PROVE  Sound(StepFinish(s, in, out, total, reason, limit), limit)
<1> DEFINE consistent == \A n \in total : n >= in + out
           captured == s.captured + in + out
           summed == IF total = {} THEN s.total ELSE Plus(s.total, CHOOSE n \in total : TRUE)
           over == \/ captured > limit.tokens \/ \E n \in summed : n > limit.tokens
                   \/ in > limit.context \/ out > limit.output
                   \/ s.steps + 1 > limit.steps
           steps == s.steps + 1
           c == IF over THEN 124 ELSE IF consistent THEN 0 ELSE 4
           t == StepFinish(s, in, out, total, reason, limit)
<1>0. s \in Streams BY DEF Sound
<1>1. s.captured \in Nat /\ s.steps \in Nat /\ s.total \in SUBSET Nat
  BY <1>0, Fields
<1>2. limit.tokens \in Nat /\ limit.steps \in Nat
  BY LimitFields
<1>3. summed \in SUBSET Nat /\ (\A m, n \in summed : m = n) /\ (total # {} => summed # {})
  <2>1. CASE total = {}
    BY <1>1, <2>1 DEF Sound
  <2>2. CASE total # {}
    <3> DEFINE k == CHOOSE n \in total : TRUE
    <3>1. k \in Nat
      BY <2>2
    <3>2. summed = Plus(s.total, k)
      BY <2>2
    <3>3. \A m, n \in s.total : m = n
      BY DEF Sound
    <3> HIDE DEF k, summed
    <3> QED BY <1>1, <3>1, <3>2, <3>3, PlusIsOne
  <2> QED BY <2>1, <2>2
<1>4. captured \in Nat /\ steps \in Nat
  BY <1>1
<1>5. c \in {0, 4, 124} /\ (c = 0 => ~over)
  OBVIOUS
<1> HIDE DEF summed
<1>6. (~over) => /\ captured <= limit.tokens /\ \A n \in summed : n <= limit.tokens
                 /\ steps <= limit.steps
  BY <1>2, <1>3, <1>4
<1>7. PICK k \in BOOLEAN : k = (s.known /\ total # {} /\ consistent)
  OBVIOUS
<1>13. k => total # {}
  BY <1>7
<1>8. t = [s EXCEPT !.steps = steps, !.captured = captured, !.total = summed, !.known = k,
                    !.final = reason, !.code = c]
  BY <1>7 DEF StepFinish, summed
<1> HIDE DEF consistent, captured, over, steps, c, t
<1>9. t \in Streams
  <2>1. PICK n \in Nat : n = steps
    BY <1>4
  <2>2. PICK cap \in Nat : cap = captured
    BY <1>4
  <2>3. PICK tot \in SUBSET Nat : tot = summed
    BY <1>3
  <2>4. PICK d \in {0, 4, 124} : d = c
    BY <1>5
  <2>5. t = [s EXCEPT !.steps = n, !.captured = cap, !.total = tot, !.known = k,
                      !.final = reason, !.code = d]
    BY <1>8, <2>1, <2>2, <2>3, <2>4
  <2> QED BY ONLY <1>0, <2>5, reason \in {"stop", "tool"} DEF Streams
<1>10. t.captured = captured /\ t.total = summed /\ t.steps = steps /\ t.tools = s.tools /\ t.code = c
  BY <1>0, <1>8 DEF Streams
<1>11. t.known = k
  BY <1>0, <1>8 DEF Streams
<1>12. s.tools <= limit.steps
  BY DEF Sound
<1> QED BY <1>3, <1>5, <1>6, <1>9, <1>10, <1>11, <1>12, <1>13 DEF Sound, t

LEMMA LimitTyped == ASSUME Started PROVE Limit \in Limits
<1>1. Authority(conf).steps = IF conf.mode = "single_call" THEN 1 ELSE conf.steps
  BY DEF Authority
<1>2. conf.tokens \in Nat /\ conf.steps \in Nat /\ conf.context \in Nat /\ conf.output \in Nat
  BY ConfigurationsAreTyped DEF Started
<1> QED BY <1>1, <1>2 DEF Limit, Limits

LEMMA NoStreamSound == ASSUME NEW limit \in Limits PROVE Sound(NoStream, limit)
<1>1. NoStream \in Streams
  BY DEF NoStream, Streams
<1>2. NoStream.captured = 0 /\ NoStream.total = {} /\ NoStream.steps = 0 /\ NoStream.tools = 0
  BY DEF NoStream
<1> QED BY <1>1, <1>2, LimitFields DEF Sound

\* A stream that ended well: it said an answer and stopped.
Finished ==
  /\ stream.code = 0 /\ stream.known /\ stream.steps > 0
  /\ stream.final = "stop" /\ stream.text = "answer"

\* A call whose usage is known and within the ceilings.
Metered(u) == u \in Usages /\ CallCode(u) = 0

\* The launcher counts one launch, and what follows a stream that ended well
\* knows that it did.
FinishInv ==
  /\ pc \in {"reading", "capture", "checking", "ended"} => attempts = 1
  /\ pc = "ended" /\ stream.code = 0 =>
       stream.known /\ stream.steps > 0 /\ stream.final = "stop"
  /\ pc \in {"capture", "checking"} /\ editor = "gone" => Finished
  /\ pc = "result" /\ outcome.status = "completed" =>
       IF conf.mode = "opencode" THEN Finished /\ attempts = 1
                                 ELSE Metered(usage)

\* A validation request is counted before it is served.
SeenInv == IsFiniteSet(mail.seen) /\ Cardinality(mail.seen) <= Limit.steps

SoundStream == Sound(stream, Limit)

MeterInv == RunInv /\ SoundStream /\ SeenInv /\ FinishInv /\ CompletedWithinCeilings

LEMMA LimitKept == [Next]_vars => (Started => Started') /\ Limit' = Limit
<1> SUFFICES ASSUME [Next]_vars PROVE UNCHANGED <<conf, job>>
  BY DEF Started, Limit
<1>1. CASE UNCHANGED vars BY <1>1
<1>2. CASE Fetch BY <1>2 DEF Fetch, Leave
<1>3. CASE Resolve BY <1>3 DEF Resolve, Leave
<1>4. CASE ReadInput BY <1>4 DEF ReadInput, Leave
<1>5. CASE Claim BY <1>5 DEF Claim, Leave
<1>6. CASE Call BY <1>6 DEF Call, Unasked, OverBound, NotAssembled, Unreadable, Unanswered, Unfinished,
           Parses, Completes, NoFindings, NoDiagnosis, Fails
<1>7. CASE Launch BY <1>7 DEF Launch, Misplaced, Leave, Fails, NotCheckedOut, NoBaseline, TreeRefused, Unprepared, NotAssembled, Unreadable,
           OverBound, EditorRefused, ScanRefused, BoundaryOpen, CheckoutRefused
<1>8. CASE Tick BY <1>8 DEF Tick, Live
<1>9. CASE Capture BY <1>9 DEF Capture, Rejected, Fails
<1>10. CASE Check BY <1>10 DEF Check
<1>11. CASE CheckUnnamed BY <1>11 DEF CheckUnnamed, Rejected, Fails
<1>12. CASE Settle BY <1>12 DEF Settle, Rejected, Fails
<1>13. CASE EndStream BY <1>13 DEF EndStream, Closes
<1>14. CASE AfterStream BY <1>14 DEF AfterStream, Fails, Parses, Completes, NoFindings, NoDiagnosis
<1>15. CASE BuildResult BY <1>15 DEF BuildResult, Leave
<1>16. CASE Deliver BY <1>16 DEF Deliver
<1>17. CASE Edit BY <1>17 DEF Edit
<1>18. CASE Request BY <1>18 DEF Request
<1>19. CASE Answered BY <1>19 DEF Answered
<1>20. CASE ReadEvent BY <1>20 DEF ReadEvent
<1>21. CASE Exited BY <1>21 DEF Exited, Closes, Live
<1>22. CASE Expire BY <1>22 DEF Expire
<1> QED
  BY <1>1, <1>2, <1>3, <1>4, <1>5, <1>6, <1>7, <1>8, <1>9, <1>10, <1>11, <1>12, <1>13, <1>14,
     <1>15, <1>16, <1>17, <1>18, <1>19, <1>20, <1>21, <1>22 DEF Next, Agent, Editor, Done

LEMMA SoundStep == RunInv /\ SoundStream /\ [Next]_vars => SoundStream'
<1> SUFFICES ASSUME RunInv, SoundStream, [Next]_vars PROVE Sound(stream', Limit)
  BY LimitKept DEF SoundStream
<1>0. Limit \in Limits /\ Sound(stream, Limit)
  BY LimitTyped DEF RunInv, PathInv, SoundStream
<1>1. CASE UNCHANGED vars
  BY <1>0, <1>1
<1>2. CASE Fetch BY <1>2, <1>0 DEF Fetch, Leave
<1>3. CASE Resolve BY <1>3, <1>0 DEF Resolve, Leave
<1>4. CASE ReadInput BY <1>4, <1>0 DEF ReadInput, Leave
<1>5. CASE Claim BY <1>5, <1>0 DEF Claim, Leave
<1>6. CASE Call BY <1>6, <1>0 DEF Call, Unasked, OverBound, NotAssembled, Unreadable, Unanswered, Unfinished,
           Parses, Completes, NoFindings, NoDiagnosis, Fails
<1>7. CASE Launch BY <1>7, <1>0 DEF Launch, Misplaced, Leave, Fails, NotCheckedOut, NoBaseline, TreeRefused, Unprepared, NotAssembled, Unreadable,
           OverBound, EditorRefused, ScanRefused, BoundaryOpen, CheckoutRefused
<1>8. CASE Tick
  <2>1. stream' \in {stream, Stopped(stream, 4), Stopped(stream, 124)}
    BY <1>8 DEF Tick
  <2> QED BY <1>0, <2>1, StoppedSound
<1>9. CASE Capture
  <2>1. stream' \in {stream, Stopped(stream, 4), Stopped(stream, 124)}
    BY <1>9 DEF Capture, Rejected
  <2> QED BY <1>0, <2>1, StoppedSound
<1>10. CASE Check BY <1>10, <1>0 DEF Check
<1>11. CASE CheckUnnamed
  <2>1. stream' \in {stream, Stopped(stream, 4), Stopped(stream, 124)}
    BY <1>11 DEF CheckUnnamed, Rejected
  <2> QED BY <1>0, <2>1, StoppedSound
<1>12. CASE Settle
  <2>1. stream' \in {stream, Stopped(stream, 4), Stopped(stream, 124)}
    BY <1>12 DEF Settle, Rejected
  <2> QED BY <1>0, <2>1, StoppedSound
<1>13. CASE EndStream
  <2>1. stream' \in {stream, TimedOut(stream)}
    BY <1>13 DEF EndStream
  <2> QED BY <1>0, <2>1, TimedOutSound
<1>14. CASE AfterStream
  <2>1. stream' \in {stream, NoStream}
    BY <1>14 DEF AfterStream
  <2> QED BY <1>0, <2>1, NoStreamSound
<1>15. CASE BuildResult BY <1>15, <1>0 DEF BuildResult, Leave
<1>16. CASE Deliver BY <1>16, <1>0 DEF Deliver
<1>17. CASE Edit BY <1>17, <1>0 DEF Edit
<1>18. CASE Request BY <1>18, <1>0 DEF Request
<1>19. CASE Answered BY <1>19, <1>0 DEF Answered
<1>20. CASE ReadEvent
  <2>0. stream.code = 0
    BY <1>20 DEF ReadEvent, Live
  <2>1. CASE stream' = StepStart(stream, Limit)
    BY <1>0, <2>0, <2>1, StepStartSound
  <2>2. CASE \E text \in {"answer", "refusal", "junk"} : stream' = Said(stream, text)
    BY <1>0, <2>0, <2>2, SaidSound
  <2>3. CASE \E allowed \in BOOLEAN : stream' = ToolUse(stream, allowed, Limit)
    BY <1>0, <2>0, <2>3, ToolUseSound
  <2>4. CASE \E r \in StepReports, reason \in {"stop", "tool"} :
               stream' = StepFinish(stream, r.in, r.out, r.total, reason, Limit)
    <3> PICK r \in StepReports, reason \in {"stop", "tool"} :
          stream' = StepFinish(stream, r.in, r.out, r.total, reason, Limit)
      BY <2>4
    <3>1. r.in \in Nat /\ r.out \in Nat /\ r.total \in SUBSET Nat
      BY StepReportsAreCounts
    <3> QED BY <1>0, <2>0, <3>1, StepFinishSound
  <2>5. CASE \E in \in 0 .. 1 : stream' = Malformed(stream, in)
    BY <1>0, <2>5, MalformedSound
  <2>6. CASE stream' = Stopped(stream, 4) \/ stream' = Stopped(stream, 124)
    BY <1>0, <2>6, StoppedSound
  <2> QED BY <1>20, <2>1, <2>2, <2>3, <2>4, <2>5, <2>6 DEF ReadEvent
<1>21. CASE Exited
  <2>1. stream.code = 0 /\ \E rc \in 0 .. 1 : stream' = Ended(stream, rc)
    BY <1>21 DEF Exited, Live
  <2> QED BY <1>0, <2>1, EndedSound
<1>22. CASE Expire BY <1>22, <1>0 DEF Expire
<1> QED
  BY <1>1, <1>2, <1>3, <1>4, <1>5, <1>6, <1>7, <1>8, <1>9, <1>10, <1>11, <1>12, <1>13, <1>14,
     <1>15, <1>16, <1>17, <1>18, <1>19, <1>20, <1>21, <1>22 DEF Next, Agent, Editor, Done

LEMMA SeenStep == MeterInv /\ [Next]_vars => SeenInv'
<1> SUFFICES ASSUME SeenInv, Shapes, Started, [Next]_vars PROVE IsFiniteSet(mail'.seen) /\ Cardinality(mail'.seen) <= Limit.steps
  BY LimitKept DEF SeenInv, MeterInv, RunInv, PathInv
<1>0. IsFiniteSet(mail.seen) /\ Cardinality(mail.seen) <= Limit.steps
  BY DEF SeenInv
<1>1. CASE UNCHANGED vars BY <1>0, <1>1
<1>2. CASE Fetch BY <1>2, <1>0 DEF Fetch, Leave
<1>3. CASE Resolve BY <1>3, <1>0 DEF Resolve, Leave
<1>4. CASE ReadInput BY <1>4, <1>0 DEF ReadInput, Leave
<1>5. CASE Claim BY <1>5, <1>0 DEF Claim, Leave
<1>6. CASE Call BY <1>6, <1>0 DEF Call, Unasked, OverBound, NotAssembled, Unreadable, Unanswered, Unfinished,
           Parses, Completes, NoFindings, NoDiagnosis, Fails
<1>7. CASE Launch BY <1>7, <1>0 DEF Launch, Misplaced, Leave, Fails, NotCheckedOut, NoBaseline, TreeRefused, Unprepared, NotAssembled, Unreadable,
           OverBound, EditorRefused, ScanRefused, BoundaryOpen, CheckoutRefused
<1>8. CASE Tick
  <2>1. CASE mail' = mail
    BY <1>0, <2>1
  <2>2. CASE mail' = [mail EXCEPT !.seen = @ \cup {mail.request}] /\ Cardinality(mail.seen) < Limit.steps
    <3>1. mail'.seen = mail.seen \cup {mail.request}
      BY <2>2 DEF Shapes
    <3>2. IsFiniteSet(mail'.seen)
      BY <1>0, <3>1, FS_AddElement
    <3>3. Limit.steps \in Nat
      BY LimitTyped, LimitFields
    <3>4. Cardinality(mail.seen) \in Nat
      BY <1>0, FS_CardinalityType
    <3>5. CASE mail.request \in mail.seen
      <4>1. mail'.seen = mail.seen
        BY <3>1, <3>5
      <4> QED BY <1>0, <4>1
    <3>6. CASE mail.request \notin mail.seen
      <4>1. Cardinality(mail.seen \cup {mail.request}) = Cardinality(mail.seen) + 1
        BY <1>0, <3>6, FS_AddElement
      <4> QED BY <2>2, <3>1, <3>2, <3>3, <3>4, <4>1
    <3> QED BY <3>5, <3>6
  <2>3. Cardinality(mail.seen) \in Nat /\ Limit.steps \in Nat
    BY <1>0, LimitTyped, LimitFields, FS_CardinalityType
  <2> QED BY <1>8, <2>1, <2>2, <2>3 DEF Tick
<1>9. CASE Capture BY <1>9, <1>0 DEF Capture, Rejected, Fails
<1>10. CASE Check BY <1>10, <1>0 DEF Check
<1>11. CASE CheckUnnamed BY <1>11, <1>0 DEF CheckUnnamed, Rejected, Fails
<1>12. CASE Settle
  <2>1. CASE mail' = mail
    BY <1>0, <2>1
  <2>2. CASE \E r : mail' = [mail EXCEPT !.response = r]
    <3>1. mail'.seen = mail.seen
      BY <2>2 DEF Shapes
    <3> QED BY <1>0, <3>1
  <2> QED BY <1>12, <2>1, <2>2 DEF Settle, Rejected, Fails
<1>13. CASE EndStream BY <1>13, <1>0 DEF EndStream, Closes
<1>14. CASE AfterStream BY <1>14, <1>0 DEF AfterStream, Fails, Parses, Completes, NoFindings, NoDiagnosis
<1>15. CASE BuildResult BY <1>15, <1>0 DEF BuildResult, Leave
<1>16. CASE Deliver BY <1>16, <1>0 DEF Deliver
<1>17. CASE Edit BY <1>17, <1>0 DEF Edit
<1>18. CASE Request
  <2>1. mail'.seen = mail.seen
    BY <1>18 DEF Request, Posted, Shapes
  <2> QED BY <1>0, <2>1
<1>19. CASE Answered
  <2>1. mail'.seen = mail.seen
    BY <1>19 DEF Answered, Shapes
  <2> QED BY <1>0, <2>1
<1>20. CASE ReadEvent BY <1>20, <1>0 DEF ReadEvent
<1>21. CASE Exited BY <1>21, <1>0 DEF Exited, Closes, Live
<1>22. CASE Expire BY <1>22, <1>0 DEF Expire
<1> QED
  BY <1>1, <1>2, <1>3, <1>4, <1>5, <1>6, <1>7, <1>8, <1>9, <1>10, <1>11, <1>12, <1>13, <1>14,
     <1>15, <1>16, <1>17, <1>18, <1>19, <1>20, <1>21, <1>22 DEF Next, Agent, Editor, Done

LEMMA MeteredKept == ASSUME UNCHANGED <<conf, job, usage>> PROVE Metered(usage)' <=> Metered(usage)
BY DEF Metered, Usages, CallCode, Limit

LEMMA FinishInvStep == MeterInv /\ [Next]_vars => FinishInv'
<1> SUFFICES ASSUME FinishInv, SoundStream, EditorInv, PathInv, Shapes, [Next]_vars
             PROVE  FinishInv'
  BY DEF MeterInv, RunInv
<1> USE DEF FinishInv, EditorInv, Early, Finished
<1>1. CASE UNCHANGED vars
  BY <1>1, MeteredKept
<1>2. CASE Fetch BY <1>2 DEF Fetch, Leave
<1>3. CASE Resolve BY <1>3 DEF Resolve, Leave
<1>4. CASE ReadInput BY <1>4 DEF ReadInput, Leave
<1>5. CASE Claim BY <1>5 DEF Claim, Leave
<1>6. CASE Call
  <2>1. conf.mode # "opencode"
    BY <1>6 DEF Call, PathInv
  <2>2. CASE usage' \in Usages /\ CallCode(usage') = 0
    <3>1. Metered(usage')
      BY <2>2 DEF Metered
    <3>2. pc' = "result" /\ UNCHANGED <<conf, job>>
      BY <1>6 DEF Call, Unasked, OverBound, NotAssembled, Unreadable, Unanswered, Unfinished,
           Parses, Completes, NoFindings, NoDiagnosis, Fails
    <3>3. Metered(usage)'
      BY <3>1, <3>2 DEF Metered, Usages, CallCode, Limit
    <3> QED BY <2>1, <3>2, <3>3
  <2>3. CASE ~(usage' \in Usages /\ CallCode(usage') = 0)
    <3>1. pc' = "result" /\ outcome'.status # "completed" /\ UNCHANGED <<conf, job>>
      BY <1>6, <2>3 DEF Call, Unasked, OverBound, NotAssembled, Unreadable, Unanswered, Unfinished, Fails
    <3> QED BY <3>1
  <2> QED BY <2>2, <2>3
<1>7. CASE Launch BY <1>7 DEF Launch, Misplaced, Leave, Fails, NotCheckedOut, NoBaseline, TreeRefused, Unprepared, NotAssembled, Unreadable,
           OverBound, EditorRefused, ScanRefused, BoundaryOpen, CheckoutRefused
<1>8. CASE Tick BY <1>8 DEF Tick, Live
<1>9. CASE Capture BY <1>9 DEF Capture, Rejected, Fails
<1>10. CASE Check BY <1>10 DEF Check
<1>11. CASE CheckUnnamed BY <1>11 DEF CheckUnnamed, Rejected, Fails
<1>12. CASE Settle
  <2>1. conf.mode = "opencode" /\ UNCHANGED <<conf, attempts>>
    BY <1>12 DEF Settle, PathInv
  <2>2. CASE pc' = "reading"
    BY <1>12, <2>1, <2>2 DEF Settle
  <2>3. CASE pc' = "result" /\ outcome'.status # "completed"
    BY <2>3
  <2>4. CASE pc' = "result" /\ editor = "gone" /\ UNCHANGED stream
    BY <1>12, <2>1, <2>4 DEF Settle
  <2> QED BY <1>12, <2>2, <2>3, <2>4 DEF Settle, Rejected, Fails
<1>13. CASE EndStream
  <2>1. stream \in Streams
    BY DEF SoundStream, Sound
  <2>2. TimedOut(stream).code = 124
    BY <2>1 DEF TimedOut, Streams
  <2> QED BY <1>13, <2>2 DEF EndStream, Closes
<1>14. CASE AfterStream
  <2>1. pc = "ended" /\ editor = "gone" /\ conf.mode = "opencode" /\ UNCHANGED <<conf, attempts>>
    BY <1>14 DEF AfterStream, PathInv
  <2>2. CASE pc' = "result" /\ outcome'.status # "completed"
    BY <2>2
  <2>3. CASE pc' \in {"capture", "result"} /\ stream.code = 0 /\ stream.text = "answer" /\ UNCHANGED stream
    BY <2>1, <2>3
  <2>4. pc' \in {"capture", "result"}
    BY <1>14 DEF AfterStream, Fails, Parses, Completes, NoFindings, NoDiagnosis
  <2> QED BY <1>14, <2>2, <2>3, <2>4 DEF AfterStream, Fails, Parses, Completes, NoFindings, NoDiagnosis
<1>15. CASE BuildResult BY <1>15 DEF BuildResult, Leave
<1>16. CASE Deliver BY <1>16 DEF Deliver
<1>17. CASE Edit BY <1>17 DEF Edit
<1>18. CASE Request BY <1>18 DEF Request
<1>19. CASE Answered BY <1>19 DEF Answered
<1>20. CASE ReadEvent
  <2>1. pc = "reading" /\ UNCHANGED <<pc, attempts, editor>>
    BY <1>20 DEF ReadEvent, Live
  <2> QED BY <2>1
<1>21. CASE Exited
  <2>1. PICK rc \in 0 .. 1 : stream' = Ended(stream, rc)
    BY <1>21 DEF Exited
  <2>2. stream'.code = 0 => stream'.known /\ stream'.steps > 0 /\ stream'.final = "stop"
    BY <1>21, <2>1, EndedSound DEF Exited, Live, SoundStream
  <2>3. pc = "reading" /\ pc' = "ended" /\ UNCHANGED attempts
    BY <1>21 DEF Exited, Closes, Live
  <2> QED BY <2>2, <2>3
<1>22. CASE Expire BY <1>22 DEF Expire
<1> QED
  BY <1>1, <1>2, <1>3, <1>4, <1>5, <1>6, <1>7, <1>8, <1>9, <1>10, <1>11, <1>12, <1>13, <1>14,
     <1>15, <1>16, <1>17, <1>18, <1>19, <1>20, <1>21, <1>22 DEF Next, Agent, Editor, Done

LEMMA KnownTyped == ASSUME NEW S \in SUBSET Nat PROVE Known(S) \in Nat
<1>1. CASE S = {}
  BY <1>1 DEF Known
<1>2. CASE S # {}
  BY <1>2 DEF Known
<1> QED BY <1>1, <1>2

LEMMA KnownBound ==
  ASSUME NEW S \in SUBSET Nat, NEW k \in Nat, \A n \in S : n <= k
  PROVE  Known(S) <= k
<1>1. CASE S = {}
  BY <1>1 DEF Known
<1>2. CASE S # {}
  BY <1>2 DEF Known
<1> QED BY <1>1, <1>2

LEMMA UsageTyped ==
  ASSUME NEW u \in Usages
  PROVE  /\ u.input \in SUBSET Nat /\ u.output \in SUBSET Nat /\ u.read \in SUBSET Nat
         /\ u.write \in SUBSET Nat /\ u.reasoning \in SUBSET Nat /\ u.reported \in SUBSET Nat
<1>1. \A S \in SUBSET Nat : Option(S) \subseteq SUBSET Nat
  BY DEF Option
<1>2. /\ u.input \in Option(1 .. 2) /\ u.output \in Option(1 .. 2) /\ u.read \in Option(0 .. 1)
      /\ u.write \in Option(0 .. 1) /\ u.reasoning \in Option(0 .. 1)
      /\ u.reported \in Option(2 .. 4)
  BY DEF Usages
<1>3. 1 .. 2 \subseteq Nat /\ 0 .. 1 \subseteq Nat /\ 2 .. 4 \subseteq Nat
  OBVIOUS
<1> QED BY <1>1, <1>2, <1>3

\* A call that completes is within the ceilings of tokens and context.
LEMMA MeteredWithin ==
  ASSUME NEW u, Metered(u), Limit \in Limits
  PROVE  /\ Larger(CapturedTokens(u), Known(u.reported)) <= Limit.tokens
         /\ Known(u.input) <= Limit.context /\ TotalTokens(u) # {}
<1>0. u \in Usages /\ CallCode(u) = 0
  BY DEF Metered
<1> DEFINE extra == IF u.provider = "anthropic" THEN Known(u.read) + Known(u.write) ELSE 0
           input == Known(u.input) + extra
           output == Known(u.output) + IF u.provider = "google" THEN Known(u.reasoning) ELSE 0
           tokens == Larger(CapturedTokens(u), Known(u.reported))
           late == input > Limit.context \/ output > Limit.output
<1>1. Known(u.input) \in Nat /\ Known(u.read) \in Nat /\ Known(u.write) \in Nat
  BY <1>0, UsageTyped, KnownTyped
<1>2. extra \in Nat
  BY <1>1
<1>3. Limit.context \in Nat /\ Limit.tokens \in Nat
  BY LimitFields
<1>4. CallCode(u) = CASE tokens > Limit.tokens -> 124
                      [] tokens <= Limit.tokens /\ TotalTokens(u) = {} -> 4
                      [] OTHER -> IF late THEN 124 ELSE 0
  BY DEF CallCode
<1>5. tokens \in Nat
  <2>1. /\ Known(u.input) \in Nat /\ Known(u.output) \in Nat /\ Known(u.read) \in Nat
        /\ Known(u.write) \in Nat /\ Known(u.reasoning) \in Nat /\ Known(u.reported) \in Nat
    BY <1>0, UsageTyped, KnownTyped
  <2>2. CapturedTokens(u) \in Nat
    BY <2>1 DEF CapturedTokens
  <2> QED BY <2>1, <2>2 DEF Larger
<1> HIDE DEF extra, output, tokens, late
<1>6. tokens <= Limit.tokens /\ TotalTokens(u) # {} /\ ~late
  BY <1>0, <1>3, <1>4, <1>5
<1>7. Known(u.input) <= Limit.context
  BY <1>1, <1>2, <1>3, <1>6 DEF late
<1> QED BY <1>6, <1>7 DEF tokens

\* What a result says of its consumption, as CompletedWithinCeilings has it.
Within(r) ==
  r.status = "completed" =>
    /\ \A u \in r.runner :
         /\ Larger(u.captured, Known(u.total)) <= Limit.tokens
         /\ u.steps <= Limit.steps /\ u.tools <= Limit.steps
    /\ \A u \in r.native :
         /\ Larger(CapturedTokens(u), Known(u.reported)) <= Limit.tokens
         /\ Known(u.input) <= Limit.context

LEMMA TaskResultWithin ==
  ASSUME MeterInv, pc = "result" PROVE Within(TaskResult)
<1> SUFFICES ASSUME outcome.status = "completed" PROVE Within(TaskResult)
  BY DEF Within, TaskResult
<1>0. Limit \in Limits
  BY LimitTyped DEF MeterInv, RunInv, PathInv
<1>1. TaskResult.native = IF conf.mode = "single_call" THEN {usage} ELSE {}
  BY DEF TaskResult
<1>2. TaskResult.runner = IF conf.mode = "opencode" THEN {RunnerUsage} ELSE {}
  BY DEF TaskResult
<1>3. ASSUME conf.mode = "opencode"
      PROVE  /\ Larger(RunnerUsage.captured, Known(RunnerUsage.total)) <= Limit.tokens
             /\ RunnerUsage.steps <= Limit.steps /\ RunnerUsage.tools <= Limit.steps
  <2>1. Finished /\ Sound(stream, Limit)
    BY <1>3 DEF MeterInv, FinishInv, SoundStream
  <2>2. /\ RunnerUsage.captured = stream.captured /\ RunnerUsage.total = stream.total
        /\ RunnerUsage.steps = stream.steps /\ RunnerUsage.tools = stream.tools
    BY <2>1 DEF RunnerUsage, Finished, Published
  <2>3. stream.captured \in Nat /\ stream.total \in SUBSET Nat /\ Limit.tokens \in Nat
    BY <1>0, <2>1, Fields, LimitFields DEF Sound
  <2>4. stream.captured <= Limit.tokens /\ Known(stream.total) <= Limit.tokens
    BY <2>1, <2>3, KnownBound DEF Sound, Finished
  <2>5. stream.steps <= Limit.steps /\ stream.tools <= Limit.steps
    BY <2>1 DEF Sound, Finished
  <2> QED BY <2>2, <2>4, <2>5 DEF Larger
<1>4. ASSUME conf.mode # "opencode" PROVE Metered(usage)
  BY <1>4 DEF MeterInv, FinishInv
<1> QED BY <1>0, <1>1, <1>2, <1>3, <1>4, MeteredWithin DEF Within

LEMMA CeilingStep == MeterInv /\ [Next]_vars => CompletedWithinCeilings'
<1> SUFFICES ASSUME MeterInv, [Next]_vars PROVE CompletedWithinCeilings'
  OBVIOUS
<1>1. result' = result \/ (result' = {[result |-> TaskResult, gate |-> Gate]} /\ pc = "result")
<2>1. CASE UNCHANGED vars BY <2>1
<2>2. CASE Fetch BY <2>2 DEF Fetch, Leave
<2>3. CASE Resolve BY <2>3 DEF Resolve, Leave
<2>4. CASE ReadInput BY <2>4 DEF ReadInput, Leave
<2>5. CASE Claim BY <2>5 DEF Claim, Leave
<2>6. CASE Call BY <2>6 DEF Call, Unasked, OverBound, NotAssembled, Unreadable, Unanswered, Unfinished,
           Parses, Completes, NoFindings, NoDiagnosis, Fails
<2>7. CASE Launch BY <2>7 DEF Launch, Misplaced, Leave, Fails, NotCheckedOut, NoBaseline, TreeRefused, Unprepared, NotAssembled, Unreadable,
           OverBound, EditorRefused, ScanRefused, BoundaryOpen, CheckoutRefused
<2>8. CASE Tick BY <2>8 DEF Tick, Live
<2>9. CASE Capture BY <2>9 DEF Capture, Rejected, Fails
<2>10. CASE Check BY <2>10 DEF Check
<2>11. CASE CheckUnnamed BY <2>11 DEF CheckUnnamed, Rejected, Fails
<2>12. CASE Settle BY <2>12 DEF Settle, Rejected, Fails
<2>13. CASE EndStream BY <2>13 DEF EndStream, Closes
<2>14. CASE AfterStream BY <2>14 DEF AfterStream, Fails, Parses, Completes, NoFindings, NoDiagnosis
<2>15. CASE BuildResult BY <2>15 DEF BuildResult, Leave
<2>16. CASE Deliver BY <2>16 DEF Deliver
<2>17. CASE Edit BY <2>17 DEF Edit
<2>18. CASE Request BY <2>18 DEF Request
<2>19. CASE Answered BY <2>19 DEF Answered
<2>20. CASE ReadEvent BY <2>20 DEF ReadEvent
<2>21. CASE Exited BY <2>21 DEF Exited, Closes, Live
<2>22. CASE Expire BY <2>22 DEF Expire
<2> QED
  BY <2>1, <2>2, <2>3, <2>4, <2>5, <2>6, <2>7, <2>8, <2>9, <2>10, <2>11, <2>12, <2>13, <2>14,
     <2>15, <2>16, <2>17, <2>18, <2>19, <2>20, <2>21, <2>22 DEF Next, Agent, Editor, Done
<1>2. \A x \in result : Within(x.result)
  BY DEF MeterInv, CompletedWithinCeilings, Within
<1>3. \A x \in result' : Within(x.result)
  BY <1>1, <1>2, TaskResultWithin
<1>4. Limit' = Limit /\ SeenInv'
  BY LimitKept, SeenStep
<1>5. ASSUME NEW r PROVE Within(r)' = Within(r)
  BY <1>4 DEF Within
<1> QED BY <1>3, <1>4 DEF CompletedWithinCeilings, Within, SeenInv

LEMMA MeterInit == Init => MeterInv
<1> SUFFICES ASSUME Init PROVE MeterInv
  OBVIOUS
<1>1. RunInv
  BY RunInit
<1>2. Limit \in Limits
  BY <1>1, LimitTyped DEF RunInv, PathInv
<1>3. stream = NoStream /\ mail.seen = {} /\ pc = "start" /\ result = {} /\ outcome.status = "completed"
  BY DEF Init, Fresh
<1>4. SoundStream
  BY <1>2, <1>3, NoStreamSound DEF SoundStream
<1>5. SeenInv
  BY <1>2, <1>3, FS_EmptySet, LimitFields DEF SeenInv
<1>6. FinishInv /\ CompletedWithinCeilings
  BY <1>3 DEF FinishInv, CompletedWithinCeilings
<1> QED BY <1>1, <1>4, <1>5, <1>6 DEF MeterInv

LEMMA MeterStep == MeterInv /\ [Next]_vars => MeterInv'
<1> SUFFICES ASSUME MeterInv, [Next]_vars PROVE MeterInv'
  OBVIOUS
<1>1. RunInv'
  BY EditorStep, PathStep, ShapeStep, TreeStep, BuiltStep, AnswersStep, CompletedStep
     DEF RunInv, MeterInv
<1>2. SoundStream' /\ SeenInv'
  BY SoundStep, SeenStep DEF MeterInv
<1>3. FinishInv' /\ CompletedWithinCeilings'
  BY FinishInvStep, CeilingStep
<1> QED BY <1>1, <1>2, <1>3 DEF MeterInv

\* What the run promises about its consumption, and what it takes to promise it.
THEOREM MeterIsInvariant == Spec => []MeterInv
<1> QED BY MeterStep, MeterInit, PTL DEF Spec

\* What a completed execution consumed lies within its ceilings, whatever the
\* steps of the model report (agent/security_stream.py, agent/review_execution.py).
THEOREM CompletedIsWithin == Spec => []CompletedWithinCeilings
<1>1. MeterInv => CompletedWithinCeilings
  BY DEF MeterInv
<1> QED BY <1>1, MeterIsInvariant, PTL

-----------------------------------------------------------------------------
(* The review and scan of LegacyAgent. *)

LegacySpec == LegacyInit /\ [][LegacyNext]_legacy

Answer == {"clean", "blocking", "unusable"}
Counts == [attempts : Nat, tokens : Nat, steps : Nat]
Scans == [ tokens : Nat, steps : Nat, said : SUBSET (Answer \cup {"refusal", "junk"}),
           answer : Answer \cup {""}, earlier : SUBSET (Answer \cup {""}),
           late : BOOLEAN, rc : SUBSET {0, 1, 124} ]

LegacyTypes ==
  /\ totals \in Counts /\ scan \in Scans /\ paid \in Nat
  /\ verdict \in SUBSET [gate : {"pass", "fail"}, tokens : Nat]
  /\ left \subseteq {0, 1, 2, 3, 4, 124}

\* Before a verdict nothing but a failure can be known, and the scan of a
\* review has not begun.
Undecided ==
  /\ phase # "over" => left = {}
  /\ phase \notin {"over", "report"} => verdict = {}
  /\ phase \in {"start", "diff", "review", "workspace"} => scan = NoScan /\ paid = 0
  /\ phase \in {"start", "diff", "review", "workspace"} =>
       totals = [attempts |-> 0, tokens |-> 0, steps |-> 0]

\* The answers of a scan are things it said, and only stray text lets another
\* than the last be found.
AnswerIsSaid ==
  /\ Found \ {""} \subseteq scan.said
  /\ "junk" \notin scan.said => scan.earlier = {}

\* Every attempt but the first may take one token and one step too many; the
\* attempt in progress is within what its predecessors left.
SharedBounds ==
  /\ phase = "attempt" =>
       /\ paid = totals.tokens
       /\ totals.attempts < MaxAttempts
       /\ totals.tokens <= TokenCeiling - 1 + totals.attempts
       /\ totals.steps <= StepCeiling - 1 + totals.attempts
  /\ phase = "streaming" =>
       /\ paid = totals.tokens + scan.tokens
       /\ totals.attempts \in 1 .. MaxAttempts
       /\ totals.tokens <= TokenCeiling - 2 + totals.attempts
       /\ totals.steps <= StepCeiling - 2 + totals.attempts
       /\ scan.rc # {124} =>
            scan.tokens <= RemainingTokens /\ scan.steps <= RemainingSteps

\* A passing verdict was said in the last attempt, and nothing after it that
\* stray text did not spoil.
Cleared ==
  /\ "refusal" \notin scan.said /\ scan.said \cap {"clean", "unusable"} # {}
  /\ "junk" \notin scan.said => scan.answer # "blocking"

VerdictIsSound == \A v \in verdict : v.gate = "pass" => Cleared

DeliveredClean ==
  0 \in left => /\ \E v \in verdict : v.gate = "pass"
                /\ setup.post => posted = "accepted"

LegacyInv ==
  /\ LegacyTypes /\ Undecided /\ AnswerIsSaid /\ SharedBounds
  /\ VerdictIsSound /\ DeliveredClean /\ ReportedIsPaid

-----------------------------------------------------------------------------

LEMMA FreshOK ==
  ASSUME NEW s, NEW at \in {"start", "over"}, LegacyFresh(s, at)
  PROVE  LegacyInv
<1>1. LegacyTypes
  BY DEF LegacyFresh, LegacyTypes, Counts, Scans, NoScan
<1>2. Undecided /\ AnswerIsSaid /\ SharedBounds
  BY DEF LegacyFresh, Undecided, AnswerIsSaid, Found, SharedBounds, NoScan
<1>3. VerdictIsSound /\ DeliveredClean /\ ReportedIsPaid
  BY DEF LegacyFresh, VerdictIsSound, DeliveredClean, ReportedIsPaid
<1>4. QED
  BY <1>1, <1>2, <1>3 DEF LegacyInv

(* A run that gives up says nothing of the code.                           *)
LEMMA QuitsOK ==
  ASSUME LegacyInv, NEW code \in {2, 3, 4, 124}, Quits(code), phase # "over", phase # "report",
         totals' \in Counts, scan' \in Scans, paid' \in Nat, AnswerIsSaid'
  PROVE  LegacyInv'
<1>1. phase' = "over" /\ verdict = {} /\ verdict' = {} /\ left' = {code} /\ 0 \notin left'
  BY DEF Quits, LegacyInv, Undecided
<1>2. LegacyTypes' /\ Undecided' /\ SharedBounds'
  BY <1>1 DEF LegacyTypes, Undecided, SharedBounds
<1>3. VerdictIsSound' /\ DeliveredClean' /\ ReportedIsPaid'
  BY <1>1 DEF VerdictIsSound, DeliveredClean, ReportedIsPaid
<1>4. QED
  BY <1>1, <1>2, <1>3 DEF LegacyInv

(* A run that goes on has no verdict yet.                                  *)
LEMMA GoesOK ==
  ASSUME LegacyInv, NEW next \in {"diff", "workspace", "review", "attempt", "streaming"},
         Goes(next), phase # "over", phase # "report",
         totals' \in Counts, scan' \in Scans, paid' \in Nat, AnswerIsSaid', SharedBounds',
         next \notin {"attempt", "streaming"} =>
           /\ phase \in {"start", "diff", "review", "workspace"}
           /\ UNCHANGED <<scan, paid, totals>>
  PROVE  LegacyInv'
<1>1. phase' = next /\ verdict = {} /\ verdict' = {} /\ left' = {}
  BY DEF Goes, LegacyInv, Undecided
<1>2. LegacyTypes' /\ Undecided'
  BY <1>1 DEF LegacyInv, LegacyTypes, Undecided
<1>3. VerdictIsSound' /\ DeliveredClean' /\ ReportedIsPaid'
  BY <1>1 DEF VerdictIsSound, DeliveredClean, ReportedIsPaid
<1>4. QED
  BY <1>1, <1>2, <1>3 DEF LegacyInv

(* A verdict needs its evidence and its sum.                               *)
LEMMA ConcludesOK ==
  ASSUME LegacyInv, NEW answer, NEW tokens \in Nat, Concludes(answer, tokens), phase # "over",
         totals' \in Counts, scan' \in Scans, paid' \in Nat, AnswerIsSaid',
         answer # "blocking" => Cleared',
         tokens = paid', paid' <= TokenCeiling + MaxAttempts - 1,
         totals'.steps <= StepCeiling + MaxAttempts - 1
  PROVE  LegacyInv'
<1> DEFINE v == [gate |-> IF "critical" \in ToFindings(answer) THEN "fail" ELSE "pass",
                 tokens |-> tokens]
<1>1. phase' = "report" /\ verdict' = {v} /\ left' = {}
  BY DEF Concludes, LegacyInv, Undecided
<1>2. v \in [gate : {"pass", "fail"}, tokens : Nat] /\ v.tokens = tokens
  OBVIOUS
<1>3. v.gate = "pass" => answer # "blocking"
  BY DEF ToFindings
<1> HIDE DEF v
<1>4. LegacyTypes' /\ Undecided' /\ SharedBounds'
  BY <1>1, <1>2 DEF LegacyTypes, Undecided, SharedBounds
<1>5. VerdictIsSound' /\ DeliveredClean' /\ ReportedIsPaid'
  BY <1>1, <1>2, <1>3 DEF VerdictIsSound, DeliveredClean, ReportedIsPaid
<1>6. QED
  BY <1>1, <1>4, <1>5 DEF LegacyInv

-----------------------------------------------------------------------------
(* The steps                                                               *)

LEMMA ResolveOK == ASSUME LegacyInv, LegacyResolve PROVE LegacyInv'
<1>1. /\ UNCHANGED <<scan, totals, paid>> /\ phase = "start"
      /\ Quits(4) \/ Goes("diff") \/ Goes("workspace")
  BY DEF LegacyResolve, Unreached
<1>2. /\ totals' \in Counts /\ scan' \in Scans /\ paid' \in Nat /\ AnswerIsSaid'
  BY <1>1 DEF LegacyInv, LegacyTypes, AnswerIsSaid, Found
<1>3. CASE Quits(4)
  BY <1>1, <1>2, <1>3, QuitsOK
<1>4. ASSUME NEW next \in {"diff", "workspace"}, Goes(next) PROVE LegacyInv'
  <2>1. SharedBounds'
    BY <1>4 DEF Goes, SharedBounds
  <2>2. QED
    BY <1>1, <1>2, <1>4, <2>1, GoesOK
<1>5. QED
  BY <1>1, <1>3, <1>4

LEMMA DiffOK == ASSUME LegacyInv, ReviewDiff PROVE LegacyInv'
<1>1. /\ UNCHANGED <<scan, totals, paid>> /\ phase = "diff"
      /\ Quits(4) \/ Quits(124) \/ Goes("review")
  BY DEF ReviewDiff
<1>2. /\ totals' \in Counts /\ scan' \in Scans /\ paid' \in Nat /\ AnswerIsSaid'
  BY <1>1 DEF LegacyInv, LegacyTypes, AnswerIsSaid, Found
<1>3. CASE Quits(4) \/ Quits(124)
  BY <1>1, <1>2, <1>3, QuitsOK
<1>4. CASE Goes("review")
  <2>1. SharedBounds'
    BY <1>4 DEF Goes, SharedBounds
  <2>2. QED
    BY <1>1, <1>2, <1>4, <2>1, GoesOK
<1>5. QED
  BY <1>1, <1>3, <1>4

LEMMA ReviewOK == ASSUME LegacyInv, ReviewCall PROVE LegacyInv'
<1>1. /\ totals' = totals /\ totals \in Counts /\ phase = "review" /\ scan = NoScan
      /\ totals.steps = 0
  <2>1. totals' = totals /\ phase = "review"
    BY DEF ReviewCall
  <2>2. scan = NoScan /\ totals = [attempts |-> 0, tokens |-> 0, steps |-> 0]
    BY <2>1 DEF LegacyInv, Undecided
  <2>3. QED
    BY <2>1, <2>2 DEF LegacyInv, LegacyTypes
<1>2. CASE Quits(4) /\ UNCHANGED <<scan, paid>>
  <2>1. /\ scan' \in Scans /\ paid' \in Nat /\ AnswerIsSaid'
    BY <1>2 DEF LegacyInv, LegacyTypes, AnswerIsSaid, Found
  <2>2. QED
    BY <1>1, <1>2, <2>1, QuitsOK
<1>3. ASSUME NEW tokens \in StepTokens, NEW text \in {"refusal", "clean", "blocking", "junk"},
             paid' = tokens, scan' = [scan EXCEPT !.tokens = tokens, !.said = {text}],
             IF tokens > TokenCeiling THEN Quits(124) ELSE ParseFindings(text, tokens)
      PROVE  LegacyInv'
  <2>1. tokens \in Nat
    BY StepTokensAreCounts
  <2>2. scan' \in Scans /\ scan'.answer = "" /\ scan'.said = {text} /\ AnswerIsSaid'
    BY <1>1, <1>3, <2>1 DEF NoScan, Scans, Answer, AnswerIsSaid, Found
  <2>3. CASE Quits(124) \/ Quits(2) \/ Quits(3)
    BY <1>1, <1>3, <2>1, <2>2, <2>3, QuitsOK
  <2>4. CASE /\ tokens <= TokenCeiling /\ text \in {"clean", "blocking"}
             /\ Concludes(text, tokens)
    <3>1. text # "blocking" => Cleared'
      BY <2>2, <2>4 DEF Cleared, Answer
    <3>2. /\ paid' = tokens /\ paid' <= TokenCeiling + MaxAttempts - 1
          /\ totals'.steps <= StepCeiling + MaxAttempts - 1
      BY <1>1, <1>3, <2>1, <2>4, CeilingsArePositive
    <3>3. QED
      BY <1>1, <1>3, <2>1, <2>2, <2>4, <3>1, <3>2, ConcludesOK
  <2>5. QED
    BY <1>3, <2>1, <2>3, <2>4, CeilingsArePositive DEF ParseFindings
<1>4. QED
  BY <1>2, <1>3 DEF ReviewCall

LEMMA PreparesOK == ASSUME LegacyInv, ScanPrepares PROVE LegacyInv'
<1>1. /\ UNCHANGED <<scan, totals, paid>> /\ phase = "workspace"
      /\ Quits(4) \/ Goes("attempt")
  BY DEF ScanPrepares
<1>2. /\ totals' \in Counts /\ scan' \in Scans /\ paid' \in Nat /\ AnswerIsSaid'
  BY <1>1 DEF LegacyInv, LegacyTypes, AnswerIsSaid, Found
<1>3. CASE Quits(4)
  BY <1>1, <1>2, <1>3, QuitsOK
<1>4. CASE Goes("attempt")
  <2>1. phase' = "attempt" /\ paid' = 0 /\ totals' = [attempts |-> 0, tokens |-> 0, steps |-> 0]
    BY <1>1, <1>4 DEF Goes, LegacyInv, Undecided
  <2>2. SharedBounds'
    BY <2>1, CeilingsArePositive DEF SharedBounds
  <2>3. QED
    BY <1>1, <1>2, <1>4, <2>2, GoesOK
<1>5. QED
  BY <1>1, <1>3, <1>4

LEMMA StartsOK == ASSUME LegacyInv, StartAttempt PROVE LegacyInv'
<1>1. /\ phase = "attempt" /\ scan' = NoScan /\ paid' = paid
      /\ totals \in Counts /\ totals' = [totals EXCEPT !.attempts = @ + 1]
      /\ Quits(4) \/ Goes("streaming")
  BY DEF StartAttempt, LegacyInv, LegacyTypes
<1>2. /\ totals' \in Counts /\ totals'.attempts = totals.attempts + 1
      /\ totals'.tokens = totals.tokens /\ totals'.steps = totals.steps
  BY <1>1 DEF Counts
<1>3. scan' \in Scans /\ paid' \in Nat /\ AnswerIsSaid'
  BY <1>1 DEF LegacyInv, LegacyTypes, AnswerIsSaid, Found, NoScan, Scans
<1>4. CASE Quits(4)
  BY <1>1, <1>2, <1>3, <1>4, QuitsOK
<1>5. CASE Goes("streaming")
  <2>1. phase' = "streaming"
    BY <1>5 DEF Goes
  <2>2. scan'.tokens = 0 /\ scan'.steps = 0 /\ totals.attempts \in Nat /\ totals.tokens \in Nat
        /\ totals.steps \in Nat
    BY <1>1 DEF NoScan, Counts
  <2>3. SharedBounds'
    BY <1>1, <1>2, <2>1, <2>2, CeilingsArePositive
       DEF SharedBounds, LegacyInv, RemainingTokens, RemainingSteps, Remaining
  <2>4. QED
    BY <1>1, <1>2, <1>3, <1>5, <2>3, GoesOK
<1>6. QED
  BY <1>1, <1>4, <1>5

(* A step of the scan that leaves it running or stops it: no verdict, and  *)
(* the bounds of the attempt.                                              *)
LEMMA StreamingOK ==
  ASSUME LegacyInv, phase = "streaming", UNCHANGED <<setup, phase, totals, verdict, left, posted>>,
         scan' \in Scans, paid' \in Nat, AnswerIsSaid', paid' = totals.tokens + scan'.tokens,
         scan'.rc # {124} => scan'.tokens <= RemainingTokens /\ scan'.steps <= RemainingSteps
  PROVE  LegacyInv'
<1>1. verdict' = {} /\ left' = {} /\ phase' = "streaming"
  BY DEF LegacyInv, Undecided
<1>2. LegacyTypes' /\ Undecided'
  BY <1>1 DEF LegacyInv, LegacyTypes, Undecided
<1>3. SharedBounds'
  BY <1>1 DEF LegacyInv, SharedBounds, RemainingTokens, RemainingSteps
<1>4. VerdictIsSound' /\ DeliveredClean' /\ ReportedIsPaid'
  BY <1>1 DEF VerdictIsSound, DeliveredClean, ReportedIsPaid
<1>5. QED
  BY <1>2, <1>3, <1>4 DEF LegacyInv

Texts == {"", "refusal", "clean", "blocking", "unusable", "junk"}

LEMMA SeenType ==
  ASSUME scan \in Scans, NEW tokens \in Nat, NEW step \in {0, 1}, NEW text \in Texts
  PROVE  /\ Seen(tokens, step, text) \in Scans
         /\ Seen(tokens, step, text).tokens = scan.tokens + tokens
         /\ Seen(tokens, step, text).tokens \in Nat /\ Seen(tokens, step, text).steps \in Nat
         /\ scan.said \subseteq Seen(tokens, step, text).said
         /\ text # "" => text \in Seen(tokens, step, text).said
         /\ \/ Seen(tokens, step, text).answer = scan.answer
            \/ Seen(tokens, step, text).answer = text /\ text # ""
         /\ Seen(tokens, step, text).earlier \subseteq Found
         /\ "junk" \notin scan.said => Seen(tokens, step, text).earlier = scan.earlier
<1> DEFINE seen == Seen(tokens, step, text)
           used == scan.tokens + tokens
           done == scan.steps + step
           said == scan.said \cup ({text} \ {""})
           answer == IF text \in FindingsObjects THEN text ELSE scan.answer
           earlier == EarlierThan(text)
<1>1. scan.tokens \in Nat /\ scan.steps \in Nat
  BY DEF Scans
<1>2. used \in Nat /\ done \in Nat
  BY <1>1
<1>3. scan.said \in SUBSET (Answer \cup {"refusal", "junk"}) /\ scan.answer \in Answer \cup {""}
  BY DEF Scans
<1>4. /\ said \in SUBSET (Answer \cup {"refusal", "junk"}) /\ answer \in Answer \cup {""}
      /\ answer = scan.answer \/ (answer = text /\ text # "")
  BY <1>3 DEF Texts, Answer, FindingsObjects
<1>5. seen = [scan EXCEPT !.tokens = used, !.steps = done, !.said = said,
                          !.earlier = earlier, !.answer = answer]
  BY DEF Seen
<1>6. scan.earlier \in SUBSET (Answer \cup {""})
  BY DEF Scans
<1>7. /\ earlier \in SUBSET (Answer \cup {""}) /\ earlier \subseteq Found
      /\ "junk" \notin scan.said => earlier = scan.earlier
  BY <1>3, <1>6 DEF EarlierThan, Found
<1> HIDE DEF seen, used, done, said, answer, earlier
<1>8. /\ seen \in Scans /\ seen.tokens = used /\ seen.steps = done
      /\ seen.said = said /\ seen.answer = answer /\ seen.earlier = earlier
  BY <1>2, <1>4, <1>5, <1>7 DEF Scans
<1>9. QED
  BY <1>2, <1>4, <1>7, <1>8 DEF seen, used, said

LEMMA CodeType ==
  ASSUME NEW s \in Scans, NEW code \in SUBSET {0, 1, 124}, scan' = [s EXCEPT !.rc = code]
  PROVE  /\ scan' \in Scans /\ scan'.tokens = s.tokens /\ scan'.steps = s.steps
         /\ scan'.said = s.said /\ scan'.answer = s.answer /\ scan'.rc = code
         /\ scan'.earlier = s.earlier
  BY DEF Scans

LEMMA EventOK == ASSUME LegacyInv, ScanEvent PROVE LegacyInv'
<1>1. /\ phase = "streaming" /\ scan.rc = {} /\ totals' = totals /\ totals \in Counts
      /\ scan \in Scans /\ paid \in Nat /\ paid = totals.tokens + scan.tokens
  BY DEF ScanEvent, LegacyInv, LegacyTypes, SharedBounds
<1>2. CASE Quits(4) /\ UNCHANGED <<scan, paid>>
  <2>1. AnswerIsSaid'
    BY <1>2 DEF LegacyInv, AnswerIsSaid, Found
  <2>2. QED
    BY <1>1, <1>2, <2>1, QuitsOK
<1>3. ASSUME NEW tokens \in StepTokens, NEW step \in {0, 1}, NEW text \in Texts,
             paid' = paid + tokens, UNCHANGED <<setup, phase, verdict, left, posted>>,
             scan' = [Seen(tokens, step, text) EXCEPT
                        !.rc = IF OverCeiling(Seen(tokens, step, text)) THEN {124} ELSE {}]
      PROVE  LegacyInv'
  <2> DEFINE seen == Seen(tokens, step, text)
             code == IF OverCeiling(seen) THEN {124} ELSE {}
  <2>1. tokens \in Nat
    BY StepTokensAreCounts
  <2>2. /\ seen \in Scans /\ seen.tokens = scan.tokens + tokens /\ seen.steps \in Nat
        /\ scan.said \subseteq seen.said /\ (text # "" => text \in seen.said)
        /\ seen.answer = scan.answer \/ (seen.answer = text /\ text # "")
        /\ seen.earlier \subseteq Found
        /\ "junk" \notin scan.said => seen.earlier = scan.earlier
        /\ seen.tokens \in Nat
    <3>1. scan \in Scans
      BY <1>1
    <3>2. QED
      BY <2>1, <3>1, SeenType
  <2>3. scan' = [seen EXCEPT !.rc = code] /\ code \in SUBSET {0, 1, 124}
    BY <1>3
  <2>4. code # {124} => ~OverCeiling(seen)
    OBVIOUS
  <2> HIDE DEF seen, code
  <2>5. /\ scan' \in Scans /\ scan'.tokens = seen.tokens /\ scan'.steps = seen.steps
        /\ scan'.said = seen.said /\ scan'.answer = seen.answer /\ scan'.rc = code
        /\ scan'.earlier = seen.earlier
    BY <2>2, <2>3, CodeType
  <2>6. AnswerIsSaid'
    BY <2>2, <2>5 DEF AnswerIsSaid, Found, LegacyInv
  <2>7. scan.tokens \in Nat /\ totals.tokens \in Nat /\ totals.steps \in Nat
    BY <1>1 DEF Scans, Counts
  <2>8. paid' \in Nat /\ paid' = totals.tokens + scan'.tokens
    <3>1. /\ paid' = paid + tokens /\ paid = totals.tokens + scan.tokens
          /\ scan'.tokens = scan.tokens + tokens
      BY <1>1, <1>3, <2>2, <2>5
    <3>2. QED
      BY <2>1, <2>7, <3>1
  <2>9. scan'.rc # {124} => scan'.tokens <= RemainingTokens /\ scan'.steps <= RemainingSteps
    <3>1. RemainingTokens \in Int /\ RemainingSteps \in Int
      BY <2>7, CeilingsArePositive DEF RemainingTokens, RemainingSteps, Remaining
    <3>2. seen.tokens \in Nat /\ seen.steps \in Nat
      BY <2>2
    <3>3. QED
      BY <2>4, <2>5, <3>1, <3>2 DEF OverCeiling
  <2>10. UNCHANGED <<setup, phase, totals, verdict, left, posted>>
    BY <1>1, <1>3
  <2>11. QED
    BY <1>1, <2>5, <2>6, <2>8, <2>9, <2>10, StreamingOK
<1>4. QED
  BY <1>2, <1>3 DEF ScanEvent, Texts

LEMMA LateExitsOK == ASSUME LegacyInv, ScanLate \/ ScanExits PROVE LegacyInv'
<1>1. /\ phase = "streaming" /\ scan.rc = {} /\ scan \in Scans /\ paid \in Nat
      /\ UNCHANGED <<setup, phase, totals, paid, verdict, left, posted>>
      /\ paid = totals.tokens + scan.tokens
      /\ scan.tokens <= RemainingTokens /\ scan.steps <= RemainingSteps
  BY DEF ScanLate, ScanExits, LegacyInv, LegacyTypes, SharedBounds
<1>2. /\ scan' \in Scans /\ scan'.tokens = scan.tokens /\ scan'.steps = scan.steps
      /\ scan'.said = scan.said /\ scan'.answer = scan.answer /\ scan'.earlier = scan.earlier
  <2>1. \/ scan' = [scan EXCEPT !.late = TRUE]
        \/ \E rc \in {0, 1, 124} : scan' = [scan EXCEPT !.rc = {rc}]
    BY DEF ScanLate, ScanExits
  <2>2. CASE scan' = [scan EXCEPT !.late = TRUE]
    BY <1>1, <2>2 DEF Scans
  <2>3. ASSUME NEW rc \in {0, 1, 124}, scan' = [scan EXCEPT !.rc = {rc}]
        PROVE  /\ scan' \in Scans /\ scan'.tokens = scan.tokens /\ scan'.steps = scan.steps
               /\ scan'.said = scan.said /\ scan'.answer = scan.answer
               /\ scan'.earlier = scan.earlier
    <3> DEFINE code == {rc}
    <3>1. code \in SUBSET {0, 1, 124} /\ scan' = [scan EXCEPT !.rc = code] /\ scan \in Scans
      BY <1>1, <2>3
    <3> HIDE DEF code
    <3>2. QED
      BY <3>1, CodeType
  <2>4. QED
    BY <2>1, <2>2, <2>3
<1>3. AnswerIsSaid'
  BY <1>2 DEF AnswerIsSaid, Found, LegacyInv
<1>4. QED
  BY <1>1, <1>2, <1>3, StreamingOK

LEMMA JudgeOK == ASSUME LegacyInv, Judge PROVE LegacyInv'
<1>1. /\ phase = "streaming" /\ scan.rc # {} /\ UNCHANGED <<scan, paid>>
      /\ totals \in Counts /\ scan \in Scans /\ paid \in Nat
      /\ totals' = [totals EXCEPT !.tokens = @ + scan.tokens, !.steps = @ + scan.steps]
  BY DEF Judge, LegacyInv, LegacyTypes
<1>2. /\ totals' \in Counts /\ totals'.attempts = totals.attempts
      /\ totals'.tokens = totals.tokens + scan.tokens
      /\ totals'.steps = totals.steps + scan.steps
      /\ scan.tokens \in Nat /\ scan.steps \in Nat /\ totals.tokens \in Nat
      /\ totals.steps \in Nat /\ totals.attempts \in Nat
  <2>1. /\ scan.tokens \in Nat /\ scan.steps \in Nat /\ totals.tokens \in Nat
        /\ totals.steps \in Nat /\ totals.attempts \in Nat
    BY <1>1 DEF Counts, Scans
  <2>2. totals.tokens + scan.tokens \in Nat /\ totals.steps + scan.steps \in Nat
    BY <2>1
  <2>3. QED
    BY <1>1, <2>1, <2>2 DEF Counts
<1>3. scan' \in Scans /\ paid' \in Nat /\ AnswerIsSaid'
  BY <1>1 DEF AnswerIsSaid, Found, LegacyInv
<1>4. CASE \E code \in {2, 3, 4, 124} : Quits(code)
  BY <1>1, <1>2, <1>3, <1>4, QuitsOK
<1>5. scan.rc # {124} =>
        /\ paid' = totals'.tokens
        /\ totals'.tokens <= TokenCeiling - 1 + totals'.attempts
        /\ totals'.steps <= StepCeiling - 1 + totals'.attempts
        /\ totals'.attempts <= MaxAttempts
  BY <1>1, <1>2, CeilingsArePositive
     DEF LegacyInv, SharedBounds, RemainingTokens, RemainingSteps, Remaining
<1>6. CASE scan.rc # {124} /\ totals.attempts < MaxAttempts /\ Goes("attempt")
  <2>1. SharedBounds'
    BY <1>2, <1>5, <1>6 DEF SharedBounds, Goes
  <2>2. QED
    BY <1>1, <1>2, <1>3, <1>6, <2>1, GoesOK
<1>7. ASSUME NEW heard \in Heard, heard # "refusal", heard # "junk",
             scan.rc # {124}, Concludes(heard, totals'.tokens)
      PROVE  LegacyInv'
  <2>1. heard \in Found \ {""} /\ "refusal" \notin scan.said
    BY <1>7 DEF Heard
  <2>2. heard \in Answer /\ heard \in scan.said
    BY <1>1, <2>1 DEF LegacyInv, AnswerIsSaid, Found, Scans
  <2>3. "junk" \notin scan.said => heard = scan.answer
    BY <2>1 DEF LegacyInv, AnswerIsSaid, Found
  <2>4. heard # "blocking" => Cleared'
    BY <1>1, <2>1, <2>2, <2>3 DEF Cleared, Answer
  <2>5. /\ totals'.tokens \in Nat /\ totals'.tokens = paid'
        /\ paid' <= TokenCeiling + MaxAttempts - 1
        /\ totals'.steps <= StepCeiling + MaxAttempts - 1
    BY <1>2, <1>5, <1>7, CeilingsArePositive
  <2>6. QED
    BY <1>1, <1>2, <1>3, <1>7, <2>4, <2>5, ConcludesOK
<1>8. scan.rc = {124} \/ scan.rc # {124}
  OBVIOUS
<1>9. QED
  BY <1>1, <1>4, <1>6, <1>7 DEF Judge, Again

LEMMA ReportOK == ASSUME LegacyInv, Report PROVE LegacyInv'
<1>1. /\ phase = "report" /\ phase' = "over" /\ UNCHANGED <<setup, scan, totals, paid, verdict>>
  BY DEF Report
<1>2. PICK v \in verdict :
        /\ left' \in {{4}, {IF v.gate = "pass" THEN 0 ELSE 1}}
        /\ 0 \in left' => v.gate = "pass" /\ (setup.post => posted' = "accepted")
  BY DEF Report
<1>3. LegacyTypes' /\ Undecided' /\ AnswerIsSaid' /\ SharedBounds'
  BY <1>1, <1>2 DEF LegacyInv, LegacyTypes, Undecided, AnswerIsSaid, Found, SharedBounds
<1>4. VerdictIsSound' /\ ReportedIsPaid'
  BY <1>1 DEF LegacyInv, VerdictIsSound, Cleared, ReportedIsPaid
<1>5. DeliveredClean'
  BY <1>1, <1>2 DEF DeliveredClean
<1>6. QED
  BY <1>3, <1>4, <1>5 DEF LegacyInv

LEMMA LegacyInductive == LegacyInv /\ [LegacyNext]_legacy => LegacyInv'
<1>1. ASSUME LegacyInv, UNCHANGED legacy PROVE LegacyInv'
  <2>1. UNCHANGED <<setup, phase, scan, totals, paid, verdict, left, posted>>
    BY <1>1 DEF legacy
  <2>2. LegacyTypes' /\ Undecided' /\ AnswerIsSaid'
    BY <1>1, <2>1 DEF LegacyInv, LegacyTypes, Undecided, AnswerIsSaid, Found
  <2>3. SharedBounds' /\ ReportedIsPaid'
    BY <1>1, <2>1 DEF LegacyInv, SharedBounds, RemainingTokens, RemainingSteps, ReportedIsPaid
  <2>4. VerdictIsSound' /\ DeliveredClean'
    BY <1>1, <2>1 DEF LegacyInv, VerdictIsSound, Cleared, DeliveredClean
  <2>5. QED
    BY <2>2, <2>3, <2>4 DEF LegacyInv
<1>2. QED
  BY <1>1, ResolveOK, DiffOK, ReviewOK, PreparesOK, StartsOK, JudgeOK, ReportOK, EventOK,
     LateExitsOK DEF LegacyNext, LegacyAgentSteps

LEMMA LegacyMeans == LegacyInv => CleanMeansScanned /\ ReportedIsPaid
  BY DEF LegacyInv, DeliveredClean, VerdictIsSound, Cleared, Answer, CleanMeansScanned

(* Exit code 0 means that the code was looked at and the answer heard has  *)
(* no blocking finding, for every environment, ceiling and number of       *)
(* attempts.                                                               *)
THEOREM CleanIsScanned == LegacySpec => []CleanMeansScanned
<1>1. LegacyInit => LegacyInv
  BY FreshOK DEF LegacyInit
<1>2. QED
  BY <1>1, LegacyInductive, LegacyMeans, PTL DEF LegacySpec

(* A result counts what was paid for, within the shared ceilings and the   *)
(* one token and step that every further attempt may take.                 *)
THEOREM ReportIsPaid == LegacySpec => []ReportedIsPaid
<1>1. LegacyInit => LegacyInv
  BY FreshOK DEF LegacyInit
<1>2. QED
  BY <1>1, LegacyInductive, LegacyMeans, PTL DEF LegacySpec

-----------------------------------------------------------------------------
(* What the API is sent: it accepts every result AgentRun builds. *)

Running == {"launch", "reading", "capture", "checking", "ended"}

\* A diagnosis that got past its profile is configured as one, and runs only
\* with a recorded claim for a failure; a test run only in its environment.
ClaimInv ==
  /\ Diagnosis /\ pc \in {"claim", "result"} \cup Running => conf.diagnosis
  /\ Diagnosis /\ pc \in Running => server = "claimed" /\ job.upstream = "failure"
  /\ Diagnosis /\ pc = "result" /\ outcome.status = "completed" =>
       server = "claimed" /\ job.upstream = "failure"
  /\ Named /\ pc \in Running \ {"launch"} => conf.environment
  /\ Named /\ pc = "result" /\ outcome.status = "completed" => conf.environment

Reported == \E a \in Answers : report = {a}

\* Evidence is there only while a validation is, or a failed one ended the
\* stream; a report only from the answer to the end of the last validation.
EmptyInv ==
  /\ pc \notin {"result", "deliver", "done"} => outcome.status = "completed"
  /\ pc \in Early \cup {"capture"} => evidence = NoEvidence
  /\ pc \in {"reading", "ended"} /\ stream.code = 0 => evidence = NoEvidence
  /\ pc \in Early \cup {"reading", "ended"} => report = {}
  /\ pc \in {"capture", "checking"} =>
       IF editor = "gone" THEN Reported ELSE report = {}
  /\ pc = "result" =>
       IF outcome.status = "completed" THEN Reported
       ELSE evidence = NoEvidence /\ report = {} /\ outcome.code # 0
  /\ pc = "result" /\ outcome.status = "completed" /\ ~UsesEditor => evidence = NoEvidence
  /\ ProviderUsageOK(usage)

LEMMA ClaimStep == MeterInv /\ ClaimInv /\ [Next]_vars => ClaimInv'
<1> SUFFICES ASSUME EditorInv, PathInv, ClaimInv, [Next]_vars PROVE ClaimInv'
  BY DEF MeterInv, RunInv
<1> USE DEF ClaimInv, EditorInv, Early, Running, Diagnosis, Named, PathInv
<1>1. CASE UNCHANGED vars BY <1>1
<1>2. CASE Fetch BY <1>2 DEF Fetch, Leave
<1>3. CASE Resolve BY <1>3 DEF Resolve, Leave, Resolved, ReviewResolves, SecurityResolves,
             DiagnosisResolves, TestResolves, OtherResolves, Resolves
<1>4. CASE ReadInput BY <1>4 DEF ReadInput, Leave
<1>5. CASE Claim BY <1>5 DEF Claim, Leave
<1>6. CASE Call
  <2>1. ~Diagnosis /\ ~Named
    BY <1>6, Keys DEF Call
  <2>2. UNCHANGED conf /\ pc' = "result"
    BY <1>6 DEF Call, Unasked, OverBound, NotAssembled, Unreadable, Unanswered, Unfinished,
           Parses, Completes, NoFindings, NoDiagnosis, Fails
  <2> QED BY <2>1, <2>2
<1>7. CASE Launch BY <1>7 DEF Launch, Launchable, Misplaced, Leave, Fails, NotCheckedOut, NoBaseline, TreeRefused, Unprepared, NotAssembled, Unreadable,
           OverBound, EditorRefused, ScanRefused, BoundaryOpen, CheckoutRefused
<1>8. CASE Tick BY <1>8 DEF Tick, Live
<1>9. CASE Capture BY <1>9 DEF Capture, Rejected, Fails
<1>10. CASE Check BY <1>10 DEF Check
<1>11. CASE CheckUnnamed BY <1>11 DEF CheckUnnamed, Rejected, Fails
<1>12. CASE Settle BY <1>12 DEF Settle, Rejected, Fails
<1>13. CASE EndStream BY <1>13 DEF EndStream, Closes
<1>14. CASE AfterStream BY <1>14 DEF AfterStream, Fails, Parses, Completes, NoFindings, NoDiagnosis
<1>15. CASE BuildResult BY <1>15 DEF BuildResult, Leave
<1>16. CASE Deliver BY <1>16 DEF Deliver
<1>17. CASE Edit BY <1>17 DEF Edit
<1>18. CASE Request BY <1>18 DEF Request
<1>19. CASE Answered BY <1>19 DEF Answered
<1>20. CASE ReadEvent BY <1>20 DEF ReadEvent
<1>21. CASE Exited BY <1>21 DEF Exited, Closes, Live
<1>22. CASE Expire BY <1>22 DEF Expire
<1> QED
  BY <1>1, <1>2, <1>3, <1>4, <1>5, <1>6, <1>7, <1>8, <1>9, <1>10, <1>11, <1>12, <1>13, <1>14,
     <1>15, <1>16, <1>17, <1>18, <1>19, <1>20, <1>21, <1>22 DEF Next, Agent, Editor, Done

LEMMA NoUsageOK == ASSUME NEW p, NEW n PROVE ProviderUsageOK(NoUsage(p, n))
<1>1. Known({}) = 0
  BY DEF Known
<1> QED BY <1>1 DEF ProviderUsageOK, NoUsage

LEMMA ReportedKept == ASSUME UNCHANGED <<conf, report>> PROVE Reported' <=> Reported
BY DEF Reported, Answers, Diagnosis

LEMMA StoppedCode ==
  ASSUME NEW limit, NEW s, Sound(s, limit), NEW code \in {4, 124}
  PROVE  Stopped(s, code).code = code /\ TimedOut(s).code = 124
BY DEF Sound, Streams, Stopped, TimedOut

LEMMA EmptyStep == MeterInv /\ EmptyInv /\ [Next]_vars => EmptyInv'
<1> SUFFICES ASSUME EditorInv, PathInv, FinishInv, SoundStream, Shapes, EmptyInv,
                    [Next]_vars
             PROVE  EmptyInv'
  BY DEF MeterInv, RunInv
<1> USE DEF EmptyInv, EditorInv, Early, UsesEditor
<1>0. UNCHANGED <<conf, report>> => (Reported' <=> Reported)
  BY ReportedKept
<1>99. Sound(stream, Limit)
  BY DEF SoundStream
<1>1. CASE UNCHANGED vars BY <1>1, <1>0
<1>2. CASE Fetch BY <1>2 DEF Fetch, Leave
<1>3. CASE Resolve BY <1>3 DEF Resolve, Leave
<1>4. CASE ReadInput BY <1>4 DEF ReadInput, Leave
<1>5. CASE Claim BY <1>5 DEF Claim, Leave
<1>6. CASE Call
  <2>0. pc = "call" /\ evidence = NoEvidence /\ report = {} /\ conf.mode = "single_call"
    BY <1>6 DEF Call, PathInv
  <2>1. pc' = "result" /\ UNCHANGED <<conf, job>>
    BY <1>6 DEF Call, Unasked, OverBound, NotAssembled, Unreadable, Unanswered, Unfinished,
           Parses, Completes, NoFindings, NoDiagnosis, Fails
  <2>2. ProviderUsageOK(usage')
    <3>1. usage' \in Usages \/ usage' = usage \/ usage' = NoUsage(job.provider, 1)
      BY <1>6 DEF Call
    <3> QED BY <3>1, NoUsageOK DEF Usages
  <2>3. CASE \E a \in Answers : Completes(a)
    <3>1. evidence' = NoEvidence /\ outcome'.status = "completed"
      BY <2>0, <2>3 DEF Completes
    <3>2. Reported'
      BY <2>1, <2>3 DEF Reported, Completes, Answers, Diagnosis
    <3> QED BY <2>1, <2>2, <3>1, <3>2
  <2>4. CASE evidence' = NoEvidence /\ report' = {} /\ outcome'.status # "completed" /\ outcome'.code # 0
    BY <2>1, <2>2, <2>4
  <2>5. CASE \E text : Parses(text)
    BY <2>3, <2>4, <2>5 DEF Parses, NoFindings, NoDiagnosis, Fails
  <2>6. CallCode(usage') # 0 /\ Fails("failed", CallCode(usage')) => outcome'.status # "completed" /\ outcome'.code # 0
    BY DEF Fails
  <2> QED BY <1>6, <2>4, <2>5, <2>6 DEF Call, Unasked, OverBound, NotAssembled, Unreadable, Unanswered, Unfinished,
           Fails
<1>7. CASE Launch BY <1>7 DEF Launch, Misplaced, Leave, Fails, NotCheckedOut, NoBaseline, TreeRefused, Unprepared, NotAssembled, Unreadable,
           OverBound, EditorRefused, ScanRefused, BoundaryOpen, CheckoutRefused
<1>8. CASE Tick BY <1>8 DEF Tick, Live
<1>9. CASE Capture
  <2>1. CASE pc' = "reading" /\ stream'.code # 0 /\ UNCHANGED <<report, usage, outcome>>
             /\ editor # "gone" /\ editor' # "gone"
    BY <1>9, <2>1 DEF Capture
  <2>2. CASE pc' = "result" /\ evidence' = NoEvidence /\ report' = {} /\ outcome'.status # "completed"
             /\ outcome'.code # 0 /\ UNCHANGED usage
    BY <2>2
  <2>5. UNCHANGED usage /\ UNCHANGED conf
    BY <1>9 DEF Capture
  <2>3. ASSUME NEW code \in {4, 124}, NEW late, Rejected(code, late)
        PROVE  EmptyInv'
    <3>1. \/ /\ pc' = "reading" /\ stream'.code # 0 /\ UNCHANGED <<report, outcome>>
             /\ editor # "gone" /\ editor' # "gone"
          \/ /\ pc' = "result" /\ evidence' = NoEvidence /\ report' = {}
             /\ outcome'.status # "completed" /\ outcome'.code # 0
      BY <1>99, <2>3, StoppedCode DEF Rejected, Fails
    <3> QED BY <2>1, <2>2, <2>5, <3>1
  <2>4. CASE pc' = "checking" /\ UNCHANGED <<report, editor, outcome>>
    <3>1. Reported' <=> Reported
      BY <1>0, <1>9, <2>4 DEF Capture
    <3> QED BY <1>9, <2>4, <3>1 DEF Capture
  <2> QED BY <1>9, <2>1, <2>2, <2>3, <2>4, <2>5 DEF Capture
<1>10. CASE Check BY <1>10, <1>0 DEF Check
<1>11. CASE CheckUnnamed
  <2>1. CASE pc' = "reading" /\ stream'.code # 0 /\ UNCHANGED <<report, usage, outcome>>
             /\ editor # "gone" /\ editor' # "gone"
    BY <1>11, <2>1 DEF CheckUnnamed
  <2>2. CASE pc' = "result" /\ evidence' = NoEvidence /\ report' = {} /\ outcome'.status # "completed"
             /\ outcome'.code # 0 /\ UNCHANGED usage
    BY <2>2
  <2>5. UNCHANGED usage /\ UNCHANGED conf
    BY <1>11 DEF CheckUnnamed
  <2>3. ASSUME NEW code \in {4, 124}, NEW late, Rejected(code, late)
        PROVE  EmptyInv'
    <3>1. \/ /\ pc' = "reading" /\ stream'.code # 0 /\ UNCHANGED <<report, outcome>>
             /\ editor # "gone" /\ editor' # "gone"
          \/ /\ pc' = "result" /\ evidence' = NoEvidence /\ report' = {}
             /\ outcome'.status # "completed" /\ outcome'.code # 0
      BY <1>99, <2>3, StoppedCode DEF Rejected, Fails
    <3> QED BY <2>1, <2>2, <2>5, <3>1
  <2> QED BY <1>11, <2>1, <2>2, <2>3, <2>5 DEF CheckUnnamed
<1>12. CASE Settle
  <2>1. CASE pc' = "reading" /\ stream'.code # 0 /\ UNCHANGED <<report, usage, outcome>>
             /\ editor # "gone" /\ editor' # "gone"
    BY <1>12, <2>1 DEF Settle
  <2>2. CASE pc' = "result" /\ evidence' = NoEvidence /\ report' = {} /\ outcome'.status # "completed"
             /\ outcome'.code # 0 /\ UNCHANGED usage
    BY <2>2
  <2>5. UNCHANGED usage /\ UNCHANGED conf
    BY <1>12 DEF Settle
  <2>3. ASSUME NEW code \in {4, 124}, NEW late, Rejected(code, late)
        PROVE  EmptyInv'
    <3>1. \/ /\ pc' = "reading" /\ stream'.code # 0 /\ UNCHANGED <<report, outcome>>
             /\ editor # "gone" /\ editor' # "gone"
          \/ /\ pc' = "result" /\ evidence' = NoEvidence /\ report' = {}
             /\ outcome'.status # "completed" /\ outcome'.code # 0
      BY <1>99, <2>3, StoppedCode DEF Rejected, Fails
    <3> QED BY <2>1, <2>2, <2>5, <3>1
  <2>4. CASE pc' = "reading" /\ evidence' = NoEvidence /\ UNCHANGED <<stream, report, outcome>> /\ editor # "gone"
    BY <1>12, <2>4 DEF Settle
  <2>6. CASE pc' = "result" /\ editor = "gone" /\ UNCHANGED <<evidence, report>>
             /\ \E k : outcome' = [outcome EXCEPT !.code = k]
    <3>1. Reported' <=> Reported
      BY <1>0, <2>5, <2>6
    <3>2. UsesEditor'
      BY <1>12, <2>5 DEF Settle, PathInv
    <3>3. outcome'.status = outcome.status
      BY <2>6 DEF Shapes
    <3> QED BY <1>12, <2>5, <2>6, <3>1, <3>2, <3>3 DEF Settle
  <2>7. CASE Fails("failed", 4) \/ Fails("timed_out", 124)
    BY <2>2, <2>5, <2>7 DEF Fails
  <2>8. \/ Rejected(4, FALSE) \/ Rejected(124, FALSE)
        \/ Fails("failed", 4) \/ Fails("timed_out", 124)
        \/ pc' = "reading" /\ evidence' = NoEvidence /\ UNCHANGED <<stream, report, outcome>> /\ editor # "gone"
        \/ /\ pc' = "result" /\ editor = "gone" /\ UNCHANGED <<evidence, report>>
           /\ outcome' = [outcome EXCEPT !.code =
                   IF Summary({v.status : v \in evidence.checks}) \in {"failed", "unavailable"}
                     THEN 1 ELSE 0]
    BY <1>12 DEF Settle
  <2>9. CASE Rejected(4, FALSE) \/ Rejected(124, FALSE)
    BY <2>3, <2>9
  <2> QED BY <2>4, <2>6, <2>7, <2>8, <2>9
<1>13. CASE EndStream BY <1>13 DEF EndStream, Closes
<1>14. CASE AfterStream
  <2>1. /\ pc = "ended" /\ editor = "gone" /\ conf.mode = "opencode" /\ report = {}
        /\ UNCHANGED <<conf, usage, editor>>
    BY <1>14 DEF AfterStream, PathInv
  <2>2. CASE /\ pc' = "result" /\ evidence' = NoEvidence /\ report' = {}
             /\ outcome'.status # "completed" /\ outcome'.code # 0
    BY <2>1, <2>2
  <2>3. CASE stream.code = 0 /\ ~UsesEditor /\ \E a \in Answers : Completes(a)
    <3>1. pc' = "result" /\ evidence' = NoEvidence /\ outcome'.status = "completed"
      BY <2>1, <2>3 DEF Completes
    <3>2. Reported'
      BY <2>1, <2>3 DEF Reported, Completes, Answers, Diagnosis
    <3> QED BY <2>1, <3>1, <3>2
  <2>4. CASE stream.code = 0 /\ UsesEditor /\ pc' = "capture" /\ UNCHANGED <<evidence, outcome>>
             /\ \E a \in Answers : report' = {a}
    <3>1. Reported'
      BY <2>1, <2>4 DEF Reported, Answers, Diagnosis
    <3> QED BY <2>1, <2>4, <3>1
  <2>5. ASSUME NEW text, Parses(text), text # "answer"
        PROVE  /\ pc' = "result" /\ evidence' = NoEvidence /\ report' = {}
               /\ outcome'.status # "completed" /\ outcome'.code # 0
    BY <2>5 DEF Parses, NoFindings, NoDiagnosis, Fails
  <2>6. ASSUME NEW status \in {"failed", "timed_out"}, NEW code, code # 0, Fails(status, code)
        PROVE  /\ pc' = "result" /\ evidence' = NoEvidence /\ report' = {}
               /\ outcome'.status # "completed" /\ outcome'.code # 0
    BY <2>6 DEF Fails
  <2>7. CASE UsesEditor /\ Fails("failed", 4)
    BY <2>2, <2>6, <2>7
  <2>8. CASE stream.code # 0 /\ Fails(IF stream.timedOut THEN "timed_out" ELSE "failed", stream.code)
    BY <2>2, <2>6, <2>8
  <2>9. CASE stream.code = 0 /\ ~UsesEditor /\ Parses(stream.text)
    BY <2>2, <2>3, <2>5, <2>9 DEF Parses
  <2>10. CASE UsesEditor /\ stream.text # "answer" /\ Parses(stream.text)
    BY <2>2, <2>5, <2>10
  <2> QED BY <1>14, <2>4, <2>7, <2>8, <2>9, <2>10 DEF AfterStream
<1>15. CASE BuildResult BY <1>15 DEF BuildResult, Leave
<1>16. CASE Deliver BY <1>16 DEF Deliver
<1>17. CASE Edit BY <1>17 DEF Edit
<1>18. CASE Request BY <1>18 DEF Request
<1>19. CASE Answered BY <1>19 DEF Answered
<1>20. CASE ReadEvent
  <2>1. pc = "reading" /\ stream.code = 0 /\ evidence = NoEvidence
    BY <1>20 DEF ReadEvent, Live
  <2> QED BY <1>20, <2>1 DEF ReadEvent
<1>21. CASE Exited
  <2>1. pc = "reading" /\ stream.code = 0 /\ evidence = NoEvidence
    BY <1>21 DEF Exited, Live
  <2> QED BY <1>21, <2>1 DEF Exited, Closes
<1>22. CASE Expire BY <1>0, <1>22 DEF Expire
<1> QED
  BY <1>1, <1>2, <1>3, <1>4, <1>5, <1>6, <1>7, <1>8, <1>9, <1>10, <1>11, <1>12, <1>13, <1>14,
     <1>15, <1>16, <1>17, <1>18, <1>19, <1>20, <1>21, <1>22 DEF Next, Agent, Editor, Done

Runs == IF Named THEN SuiteRuns(tree) ELSE ContainerRuns

\* The evidence is about a tree the policies permit: its patch, its artifacts
\* and no others, and one verdict for each command that ran.
Validated ==
  /\ Capturable
  /\ evidence.patch = {Patch(f) : f \in {tree} \ {{}}}
  /\ evidence.artifacts = FailureLog \cup {PatchArtifact(f) : f \in {tree} \ {{}}}
                            \cup {LogOf(l) : l \in UNION {v.log : v \in evidence.checks}}
  /\ \A v \in evidence.checks : \E c \in Runs : v = Verdict(v.command, c)
  /\ \A v, w \in evidence.checks : v.command = w.command => v = w

\* A repair goes with a repository cause, no repair with an explanation.
ReportFits ==
  Diagnosis => \A r \in report : IF evidence.patch # {} THEN r.cause = "repository" ELSE r.explained

CheckedInv ==
  /\ pc = "checking" => Validated
  /\ pc = "result" /\ outcome.status = "completed" /\ UsesEditor =>
       /\ Validated /\ ReportFits
       /\ outcome.code = IF Summary({v.status : v \in evidence.checks}) \in {"failed", "unavailable"}
                           THEN 1 ELSE 0

LEMMA ValidatedKept == ASSUME UNCHANGED <<conf, tree, evidence>> PROVE Validated' <=> Validated
BY DEF Validated, Capturable, TestPatchOK, RepairOK, Verdict, FailureLog, Diagnosis, Named, Runs

LEMMA CheckedStep == MeterInv /\ EmptyInv /\ CheckedInv /\ [Next]_vars => CheckedInv'
<1> SUFFICES ASSUME EditorInv, PathInv, Shapes, TreeInv, EmptyInv, CheckedInv, [Next]_vars
             PROVE  CheckedInv'
  BY DEF MeterInv, RunInv
<1>0. UNCHANGED <<conf, tree, evidence>> => (Validated' <=> Validated)
  BY ValidatedKept
<1> USE DEF CheckedInv, EditorInv, Early
<1>1. CASE UNCHANGED vars
  <2>1. UNCHANGED <<conf, tree, evidence>> /\ (ReportFits' <=> ReportFits)
    BY <1>1 DEF ReportFits, Diagnosis
  <2> QED BY <1>0, <1>1, <2>1 DEF UsesEditor
<1>2. CASE Fetch BY <1>2 DEF Fetch, Leave
<1>3. CASE Resolve BY <1>3 DEF Resolve, Leave
<1>4. CASE ReadInput BY <1>4 DEF ReadInput, Leave
<1>5. CASE Claim BY <1>5 DEF Claim, Leave
<1>6. CASE Call
  <2>1. pc' = "result" /\ ~UsesEditor'
    BY <1>6 DEF Call, Unasked, OverBound, NotAssembled, Unreadable, Unanswered, Unfinished,
           Parses, Completes, NoFindings, NoDiagnosis, Fails, PathInv, UsesEditor
  <2> QED BY <2>1
<1>7. CASE Launch BY <1>7 DEF Launch, Misplaced, Leave, Fails, NotCheckedOut, NoBaseline, TreeRefused, Unprepared, NotAssembled, Unreadable,
           OverBound, EditorRefused, ScanRefused, BoundaryOpen, CheckoutRefused
<1>8. CASE Tick BY <1>8 DEF Tick, Live
<1>9. CASE Capture
  <2>1. CASE pc' # "checking"
    BY <1>9, <2>1 DEF Capture, Rejected, Fails
  <2>2. CASE pc' = "checking"
    <3>1. /\ Capturable /\ UNCHANGED <<conf, tree>>
          /\ evidence' = [ patch |-> {Patch(f) : f \in {tree} \ {{}}}, checks |-> {},
                  artifacts |-> FailureLog \cup {PatchArtifact(f) : f \in {tree} \ {{}}} ]
      BY <1>9, <2>2 DEF Capture, Rejected, Fails
    <3>2. Capturable' /\ FailureLog' = FailureLog
      BY <3>1 DEF Capturable, TestPatchOK, RepairOK, FailureLog, Diagnosis, Named
    <3>3. /\ evidence'.patch = {Patch(f) : f \in {tree} \ {{}}} /\ evidence'.checks = {}
          /\ evidence'.artifacts = FailureLog \cup {PatchArtifact(f) : f \in {tree} \ {{}}}
      BY <3>1
    <3>4. {LogOf(l) : l \in UNION {v.log : v \in evidence'.checks}} = {}
      BY <3>3
    <3>5. Validated'
      BY <3>1, <3>2, <3>3, <3>4 DEF Validated
    <3> QED BY <2>2, <3>5
  <2> QED BY <2>1, <2>2
<1>10. CASE Check
  <2> PICK command \in valid.left, c \in Runs :
         LET v == Verdict(command, c)
         IN evidence' = [evidence EXCEPT !.checks = @ \cup {v},
                           !.artifacts = @ \cup {LogOf(l) : l \in v.log}]
    BY <1>10 DEF Check, Verdict, Runs
  <2> DEFINE v == Verdict(command, c)
  <2>0. v.command = command
    BY DEF Verdict
  <2> HIDE DEF v
  <2>1. /\ evidence'.patch = evidence.patch /\ evidence'.checks = evidence.checks \cup {v}
        /\ evidence'.artifacts = evidence.artifacts \cup {LogOf(l) : l \in v.log}
    BY DEF Shapes, v
  <2>2. pc = "checking" /\ UNCHANGED <<pc, tree, conf>>
    BY <1>10 DEF Check
  <2>3. Validated /\ {w.command : w \in evidence.checks} = conf.commands \ valid.left
    BY <2>2 DEF TreeInv, AboutTheTree
  <2>4. \A w \in evidence.checks : w.command # command
    BY <2>3
  <2>5. Capturable' /\ FailureLog' = FailureLog /\ Runs' = Runs
    BY <2>2, <2>3 DEF Validated, Capturable, TestPatchOK, RepairOK, FailureLog, Diagnosis, Named, Runs
  <2>6. \A a, b : Verdict(a, b)' = Verdict(a, b)
    BY <2>1, <2>2 DEF Verdict
  <2>7. \A w \in evidence'.checks : \E d \in Runs : w = Verdict(w.command, d)
    BY <2>0, <2>1, <2>3 DEF Validated, v
  <2>8. \A w, x \in evidence'.checks : w.command = x.command => w = x
    BY <2>0, <2>1, <2>3, <2>4 DEF Validated
  <2>9. UNION {w.log : w \in evidence'.checks} = v.log \cup UNION {w.log : w \in evidence.checks}
    BY <2>1
  <2>10. evidence'.artifacts = FailureLog \cup {PatchArtifact(f) : f \in {tree} \ {{}}}
                            \cup {LogOf(l) : l \in UNION {w.log : w \in evidence'.checks}}
    BY <2>1, <2>3, <2>9 DEF Validated
  <2>11. Validated'
    BY <2>1, <2>2, <2>3, <2>5, <2>6, <2>7, <2>8, <2>10 DEF Validated
  <2> QED BY <2>2, <2>11
<1>11. CASE CheckUnnamed
  <2>1. pc' = "reading" \/ (pc' = "result" /\ outcome'.status # "completed")
    BY <1>11 DEF CheckUnnamed, Rejected, Fails
  <2> QED BY <2>1
<1>12. CASE Settle
  <2>1. CASE pc' = "reading" \/ (pc' = "result" /\ outcome'.status # "completed")
    BY <2>1
  <2>2. CASE /\ pc' = "result" /\ UNCHANGED <<evidence, report>>
             /\ Diagnosis => \A r \in report : IF evidence.patch # {} THEN r.cause = "repository" ELSE r.explained
             /\ outcome' = [outcome EXCEPT !.code =
                   IF Summary({v.status : v \in evidence.checks}) \in {"failed", "unavailable"}
                     THEN 1 ELSE 0]
    <3>1. pc = "checking" /\ UNCHANGED <<conf, tree>>
      BY <1>12 DEF Settle
    <3>2. Validated'
      BY <1>0, <2>2, <3>1
    <3>3. ReportFits'
      BY <2>2, <3>1 DEF ReportFits, Diagnosis
    <3>4. outcome'.code = IF Summary({v.status : v \in evidence'.checks}) \in {"failed", "unavailable"}
                            THEN 1 ELSE 0
      BY <2>2 DEF Shapes
    <3> QED BY <2>2, <3>2, <3>3, <3>4
  <2> QED BY <1>12, <2>1, <2>2 DEF Settle, Rejected, Fails
<1>13. CASE EndStream BY <1>13 DEF EndStream, Closes
<1>14. CASE AfterStream
  <2>1. CASE pc' = "capture" \/ (pc' = "result" /\ outcome'.status # "completed")
    BY <2>1
  <2>2. CASE ~UsesEditor /\ pc' = "result"
    <3>1. ~UsesEditor'
      BY <1>14, <2>2 DEF AfterStream, UsesEditor
    <3> QED BY <2>2, <3>1
  <2> QED BY <1>14, <2>1, <2>2 DEF AfterStream, Fails, Parses, Completes, NoFindings, NoDiagnosis
<1>15. CASE BuildResult BY <1>15 DEF BuildResult, Leave
<1>16. CASE Deliver BY <1>16 DEF Deliver
<1>17. CASE Edit BY <1>17 DEF Edit
<1>18. CASE Request BY <1>18 DEF Request
<1>19. CASE Answered BY <1>19 DEF Answered
<1>20. CASE ReadEvent BY <1>20 DEF ReadEvent, Live
<1>21. CASE Exited BY <1>21 DEF Exited, Closes, Live
<1>22. CASE Expire
  <2>1. UNCHANGED <<conf, tree, evidence, pc>> /\ pc # "result"
    BY <1>22 DEF Expire
  <2> QED BY <1>0, <2>1
<1> QED
  BY <1>1, <1>2, <1>3, <1>4, <1>5, <1>6, <1>7, <1>8, <1>9, <1>10, <1>11, <1>12, <1>13, <1>14,
     <1>15, <1>16, <1>17, <1>18, <1>19, <1>20, <1>21, <1>22 DEF Next, Agent, Editor, Done

\* What a profile may return: findings, a patch, a report or either.
LEMMA Kinds ==
  ASSUME Started
  PROVE  LET p == PROFILES[KeyOf(conf)] IN
         /\ KeyOf(conf) \in DOMAIN PROFILES
         /\ conf.task \in {"ci_review", "security_analysis"} => p.kinds = {"findings"} /\ p.writable = FALSE
         /\ Named => p.kinds = {"patch"} /\ p.writable = TRUE
         /\ Diagnosis /\ conf.fix => p.kinds = {"report", "patch"} /\ p.writable = TRUE
         /\ Diagnosis /\ ~conf.fix => p.kinds = {"report"} /\ p.writable = FALSE
         /\ conf.task = "other" /\ conf.mode = "opencode" =>
              p.kinds = {"report", "patch"} /\ p.writable = TRUE
         /\ conf.task = "other" /\ conf.mode = "single_call" => p.kinds = {"report"} /\ p.writable = FALSE
<1>1. Configurable(conf)
  BY StartsAreConfigurable DEF Started
<1> DEFINE k == <<conf.task, conf.mode, conf.language, conf.fix>>
<1>2. k \in ProfileKeys /\ KeyOf(conf) = k
  BY <1>1 DEF Configurable, KeyOf, PROFILES
<1>3. k[1] = conf.task /\ k[2] = conf.mode /\ k[3] = conf.language /\ k[4] = conf.fix
  OBVIOUS
<1> HIDE DEF k
<1>4. PROFILES[k] =
     CASE k[1] = "ci_review"         -> Profile("ci_review", {"findings"}, FALSE)
       [] k[1] = "security_analysis" -> Profile("security_analysis", {"findings"}, FALSE)
       [] k[1] = "test_generation"   ->
            Profile(IF k[3] = "python" THEN "test_generation_python" ELSE "test_generation_node",
                    {"patch"}, TRUE)
       [] k[1] = "ci_failure_diagnosis" ->
            IF k[4] THEN Profile("diagnosis_fix", {"report", "patch"}, TRUE)
                    ELSE Profile("diagnosis_readonly", {"report"}, FALSE)
       [] k[1] = "other" ->
            IF k[2] = "opencode" THEN Profile("custom_opencode", {"report", "patch"}, TRUE)
                                 ELSE Profile("custom_single_call", {"report"}, FALSE)
  BY <1>2 DEF PROFILES
<1>5. k \in DOMAIN PROFILES
  BY <1>2 DEF PROFILES
<1> DEFINE q == PROFILES[k]
<1>8. conf.task = "ci_review" => q = Profile("ci_review", {"findings"}, FALSE)
  BY <1>3, <1>4
<1>9. conf.task = "security_analysis" => q = Profile("security_analysis", {"findings"}, FALSE)
  BY <1>3, <1>4
<1>10. Named => \E a : q = Profile(a, {"patch"}, TRUE)
  BY <1>3, <1>4 DEF Named
<1>11. Diagnosis /\ conf.fix => q = Profile("diagnosis_fix", {"report", "patch"}, TRUE)
  BY <1>3, <1>4 DEF Diagnosis
<1>12. Diagnosis /\ ~conf.fix => q = Profile("diagnosis_readonly", {"report"}, FALSE)
  BY <1>3, <1>4 DEF Diagnosis
<1>13. conf.task = "other" /\ conf.mode = "opencode" =>
         q = Profile("custom_opencode", {"report", "patch"}, TRUE)
  BY <1>3, <1>4
<1>14. conf.task = "other" /\ conf.mode = "single_call" =>
         q = Profile("custom_single_call", {"report"}, FALSE)
  BY <1>3, <1>4
<1>15. PROFILES[KeyOf(conf)] = q /\ KeyOf(conf) \in DOMAIN PROFILES
  BY <1>2, <1>5
<1> HIDE DEF q
<1>16. conf.task \in {"ci_review", "security_analysis"} => q.kinds = {"findings"} /\ q.writable = FALSE
  <2> SUFFICES ASSUME conf.task \in {"ci_review", "security_analysis"} PROVE q.kinds = {"findings"} /\ q.writable = FALSE
    OBVIOUS
  <2>1. \E a : q = Profile(a, {"findings"}, FALSE)
    BY <1>8, <1>9
  <2> PICK a : q = Profile(a, {"findings"}, FALSE)
    BY <2>1
  <2>2. Profile(a, {"findings"}, FALSE).kinds = {"findings"}
    BY DEF Profile
  <2>3. Profile(a, {"findings"}, FALSE).writable = FALSE
    BY DEF Profile
  <2> QED BY <2>2, <2>3, Zenon
<1>17. Named => q.kinds = {"patch"} /\ q.writable = TRUE
  <2> SUFFICES ASSUME Named PROVE q.kinds = {"patch"} /\ q.writable = TRUE
    OBVIOUS
  <2> PICK a : q = Profile(a, {"patch"}, TRUE)
    BY <1>10
  <2>2. Profile(a, {"patch"}, TRUE).kinds = {"patch"}
    BY DEF Profile
  <2>3. Profile(a, {"patch"}, TRUE).writable = TRUE
    BY DEF Profile
  <2> QED BY <2>2, <2>3, Zenon
<1>18. Diagnosis /\ conf.fix => q.kinds = {"report", "patch"} /\ q.writable = TRUE
  <2> SUFFICES ASSUME Diagnosis /\ conf.fix PROVE q.kinds = {"report", "patch"} /\ q.writable = TRUE
    OBVIOUS
  <2>1. \E a : q = Profile(a, {"report", "patch"}, TRUE)
    BY <1>11
  <2> PICK a : q = Profile(a, {"report", "patch"}, TRUE)
    BY <2>1
  <2>2. Profile(a, {"report", "patch"}, TRUE).kinds = {"report", "patch"}
    BY DEF Profile
  <2>3. Profile(a, {"report", "patch"}, TRUE).writable = TRUE
    BY DEF Profile
  <2> QED BY <2>2, <2>3, Zenon
<1>19. Diagnosis /\ ~conf.fix => q.kinds = {"report"} /\ q.writable = FALSE
  <2> SUFFICES ASSUME Diagnosis /\ ~conf.fix PROVE q.kinds = {"report"} /\ q.writable = FALSE
    OBVIOUS
  <2>1. \E a : q = Profile(a, {"report"}, FALSE)
    BY <1>12
  <2> PICK a : q = Profile(a, {"report"}, FALSE)
    BY <2>1
  <2>2. Profile(a, {"report"}, FALSE).kinds = {"report"}
    BY DEF Profile
  <2>3. Profile(a, {"report"}, FALSE).writable = FALSE
    BY DEF Profile
  <2> QED BY <2>2, <2>3, Zenon
<1>20. conf.task = "other" /\ conf.mode = "opencode" => q.kinds = {"report", "patch"} /\ q.writable = TRUE
  <2> SUFFICES ASSUME conf.task = "other" /\ conf.mode = "opencode" PROVE q.kinds = {"report", "patch"} /\ q.writable = TRUE
    OBVIOUS
  <2>1. \E a : q = Profile(a, {"report", "patch"}, TRUE)
    BY <1>13
  <2> PICK a : q = Profile(a, {"report", "patch"}, TRUE)
    BY <2>1
  <2>2. Profile(a, {"report", "patch"}, TRUE).kinds = {"report", "patch"}
    BY DEF Profile
  <2>3. Profile(a, {"report", "patch"}, TRUE).writable = TRUE
    BY DEF Profile
  <2> QED BY <2>2, <2>3, Zenon
<1>21. conf.task = "other" /\ conf.mode = "single_call" => q.kinds = {"report"} /\ q.writable = FALSE
  <2> SUFFICES ASSUME conf.task = "other" /\ conf.mode = "single_call" PROVE q.kinds = {"report"} /\ q.writable = FALSE
    OBVIOUS
  <2>1. \E a : q = Profile(a, {"report"}, FALSE)
    BY <1>14
  <2> PICK a : q = Profile(a, {"report"}, FALSE)
    BY <2>1
  <2>2. Profile(a, {"report"}, FALSE).kinds = {"report"}
    BY DEF Profile
  <2>3. Profile(a, {"report"}, FALSE).writable = FALSE
    BY DEF Profile
  <2> QED BY <2>2, <2>3, Zenon
<1> QED BY <1>15, <1>16, <1>17, <1>18, <1>19, <1>20, <1>21, Zenon

LEMMA Bounds ==
  ASSUME Started
  PROVE  /\ ~PROFILES[KeyOf(conf)].writable => conf.writes = {} /\ conf.commands = {}
         /\ Named => conf.required # {}
         /\ conf.required \subseteq conf.commands
         /\ conf.commands \cap {"failure-log", "changes"} = {}
<1>1. Configurable(conf)
  BY StartsAreConfigurable DEF Started
<1> QED BY <1>1, ConfigurationsAreTyped DEF Started, Configurable, Named

\* How a command's run may end, and what evidence of tests it may leave.
LEMMA RunsOK ==
  ASSUME NEW c \in Runs, Capturable
  PROVE  /\ c.status \in {"passed", "failed", "unavailable"}
         /\ c.status # "unavailable" => c.logged = TRUE
         /\ \A e \in c.tests : Named /\ e.paths = tree /\ e.existing = "kept" /\ e.generated > 0
         /\ Named /\ c.status = "passed" => c.tests # {}
<1>0. \A s, l, e : Checked(s, l, e).status = s /\ Checked(s, l, e).tests = e
  BY DEF Checked
<1>4. \A s, e : Checked(s, TRUE, e).logged = TRUE
  BY DEF Checked
<1>1. CASE ~Named /\ \E s \in {"passed", "failed"} : c = Checked(s, TRUE, {})
  <2> PICK s \in {"passed", "failed"} : c = Checked(s, TRUE, {})
    BY <1>1
  <2>1. c.status = s /\ c.tests = {}
    BY <1>0
  <2>2. c.logged = TRUE
    BY <1>4
  <2> QED BY <1>1, <2>1, <2>2
<1>2. CASE \E logged \in BOOLEAN : c = Checked("unavailable", logged, {})
  BY <1>0, <1>2
<1>3. CASE Named /\ \E b, f \in Reports : LET s == SuiteStatus(b, f, tree)
             IN c = Checked(s, TRUE, IF s = "passed" THEN {TestEvidence(b, f, tree)} ELSE {})
  <2> PICK b, f \in Reports : LET s == SuiteStatus(b, f, tree)
             IN c = Checked(s, TRUE, IF s = "passed" THEN {TestEvidence(b, f, tree)} ELSE {})
    BY <1>3
  <2> DEFINE s == SuiteStatus(b, f, tree)
           tests == IF s = "passed" THEN {TestEvidence(b, f, tree)} ELSE {}
  <2>8. c = Checked(s, TRUE, tests)
    OBVIOUS
  <2>2. s \in {"passed", "failed", "unavailable"}
    BY DEF SuiteStatus, ReportTests, Evaluate
  <2>3. s = "passed" => b.tests = f.tests \ tree /\ tree \subseteq f.tests
    BY DEF SuiteStatus, ReportTests, Evaluate
  <2>10. s # "passed" => tests = {}
    OBVIOUS
  <2>11. s = "passed" => tests = {TestEvidence(b, f, tree)}
    OBVIOUS
  <2> HIDE DEF s, tests
  <2>1. c.status = s /\ c.tests = tests
    <3>1. Checked(s, TRUE, tests).status = s
      BY DEF Checked
    <3>2. Checked(s, TRUE, tests).tests = tests
      BY DEF Checked
    <3> QED BY <2>8, <3>1, <3>2, Zenon
  <2>9. c.logged = TRUE
    BY <1>4, <2>8
  <2>4. tree = {"test"}
    BY <1>3 DEF Capturable, TestPatchOK, TestPathsOK
  <2>5. Cardinality({"test"}) = 1
    BY FS_Singleton
  <2>6. s = "passed" => TestEvidence(b, f, tree).generated > 0
    <3>1. s = "passed" => f.tests \cap tree = {"test"}
      BY <2>3, <2>4
    <3>2. TestEvidence(b, f, tree).generated = Cardinality(f.tests \cap tree)
      BY DEF TestEvidence
    <3> QED BY <2>5, <3>1, <3>2
  <2>7. s = "passed" => TestEvidence(b, f, tree).paths = tree /\ TestEvidence(b, f, tree).existing = "kept"
    BY <2>3 DEF TestEvidence
  <2> QED BY <1>3, <2>1, <2>2, <2>6, <2>7, <2>9, <2>10, <2>11
<1>5. CASE Named
  <2>1. c \in SuiteRuns(tree)
    BY <1>5 DEF Runs
  <2>2. \/ \E logged \in BOOLEAN : c = Checked("unavailable", logged, {})
        \/ \E b, f \in Reports : LET s == SuiteStatus(b, f, tree)
             IN c = Checked(s, TRUE, IF s = "passed" THEN {TestEvidence(b, f, tree)} ELSE {})
    <3> DEFINE E(x, y) == LET s == SuiteStatus(x, y, tree)
                          IN Checked(s, TRUE, IF s = "passed" THEN {TestEvidence(x, y, tree)} ELSE {})
    <3>1. SuiteRuns(tree) = {Checked("unavailable", logged, {}) : logged \in BOOLEAN}
                              \cup {E(x, y) : x \in Reports, y \in Reports}
      BY DEF SuiteRuns
    <3>2. \/ \E logged \in BOOLEAN : c = Checked("unavailable", logged, {})
          \/ \E x, y \in Reports : c = E(x, y)
      <4> HIDE DEF E
      <4> QED BY <2>1, <3>1
    <3> QED BY <3>2
  <2> QED BY <1>2, <1>3, <1>5, <2>2
<1>6. CASE ~Named
  <2>1. c \in ContainerRuns
    BY <1>6 DEF Runs
  <2> QED BY <1>1, <1>2, <1>6, <2>1 DEF ContainerRuns
<1> QED BY <1>5, <1>6


\* A check of the evidence is well formed, and its tests are those of the tree.
LEMMA CheckFacts ==
  ASSUME Validated, NEW v \in evidence.checks
  PROVE  /\ CheckOK(v) /\ v.status \in {"passed", "failed", "unavailable"}
         /\ v.patch = {p.sha : p \in evidence.patch}
         /\ v.log \subseteq {v.command}
         /\ \A e \in v.tests : Named /\ e.paths = tree /\ e.existing = "kept" /\ e.generated > 0
         /\ Named /\ v.status = "passed" => v.tests # {}
<1>0. \E k : \E c \in Runs : k = v.command /\ v = Verdict(k, c)
  BY DEF Validated
<1> PICK k : \E c \in Runs : k = v.command /\ v = Verdict(k, c)
  BY <1>0
<1> PICK c \in Runs : k = v.command /\ v = Verdict(k, c)
  OBVIOUS
<1>1. v.status = c.status /\ v.patch = {p.sha : p \in evidence.patch} /\ v.tests = c.tests
  <2>1. Verdict(k, c).status = c.status
    BY DEF Verdict
  <2>2. Verdict(k, c).tests = c.tests
    BY DEF Verdict
  <2>3. Verdict(k, c).patch = {p.sha : p \in evidence.patch}
    BY DEF Verdict
  <2> QED BY <2>1, <2>2, <2>3
<1>2. v.exit = IF c.status = "unavailable" THEN {} ELSE {IF c.status = "passed" THEN 0 ELSE 1}
  <2>1. Verdict(k, c).exit = IF c.status = "unavailable" THEN {}
                             ELSE {IF c.status = "passed" THEN 0 ELSE 1}
    BY DEF Verdict
  <2> QED BY <2>1
<1>3. v.log = IF c.logged THEN {k} ELSE {}
  <2>1. Verdict(k, c).log = IF c.logged THEN {k} ELSE {}
    BY DEF Verdict
  <2> QED BY <2>1
<1>4. Capturable
  BY DEF Validated
<1>5. /\ c.status \in {"passed", "failed", "unavailable"}
      /\ c.status # "unavailable" => c.logged = TRUE
      /\ \A e \in c.tests : Named /\ e.paths = tree /\ e.existing = "kept" /\ e.generated > 0
      /\ Named /\ c.status = "passed" => c.tests # {}
  BY <1>4, RunsOK
<1>6. v.log \subseteq {k}
  BY <1>3
<1>7. c.logged = TRUE => v.log # {}
  BY <1>3
<1>8. c.status \in {"passed", "failed"} => v.log # {}
  BY <1>5, <1>7
<1>9. CheckOK(v)
  <2>1. CASE c.status = "passed"
    BY <1>1, <1>2, <1>8, <2>1 DEF CheckOK
  <2>2. CASE c.status = "failed"
    BY <1>1, <1>2, <1>8, <2>2 DEF CheckOK
  <2>3. CASE c.status = "unavailable"
    BY <1>1, <1>2, <2>3 DEF CheckOK
  <2> QED BY <1>5, <2>1, <2>2, <2>3
<1> QED BY <1>1, <1>5, <1>6, <1>9

\* What the checks amount to.
LEMMA SummaryFacts ==
  ASSUME NEW S, S \subseteq {"passed", "failed", "unavailable"}
  PROVE  /\ Summary({}) = "not_run"
         /\ Summary(S) \notin {"failed", "unavailable"} => S \subseteq {"passed"}
<1>1. Summary({}) = "not_run"
  BY DEF Summary
<1>2. CASE "failed" \in S
  BY <1>1, <1>2 DEF Summary
<1>3. CASE "failed" \notin S /\ "unavailable" \in S
  BY <1>1, <1>3 DEF Summary
<1>4. CASE "failed" \notin S /\ "unavailable" \notin S
  BY <1>1, <1>4
<1> QED BY <1>2, <1>3, <1>4

LEMMA ArtifactFields ==
  ASSUME NEW f
  PROVE  /\ PatchArtifact(f).id = "changes" /\ PatchArtifact(f).kind = "patch"
         /\ PatchArtifact(f).sha = f
         /\ LogOf(f).id = f /\ LogOf(f).kind = "validation_log"
         /\ Patch(f).sha = f /\ Patch(f).files = f /\ Patch(f).artifact = "changes"
BY DEF PatchArtifact, LogOf, Patch

\* The artifacts of a validation bear different names: of the failure's log,
\* the patch and the logs of commands, which are named apart from both.
LEMMA ArtifactsOK ==
  ASSUME Validated, Started, AboutTheTree(conf.commands)
  PROVE  /\ \A a, b \in evidence.artifacts : a.id = b.id => a = b
         /\ \A a \in evidence.artifacts :
              a.kind = "patch" => \E p \in evidence.patch : a.id = p.artifact
         /\ \A p \in evidence.patch :
              [id |-> p.artifact, kind |-> "patch", sha |-> p.sha] \in evidence.artifacts
         /\ \A v \in evidence.checks : \A l \in v.log :
              \E a \in evidence.artifacts : a.id = l /\ a.kind = "validation_log"
         /\ FailureLog \subseteq evidence.artifacts
<1> DEFINE logs == UNION {v.log : v \in evidence.checks}
           failure == [id |-> "failure-log", kind |-> "other", sha |-> {}]
<1>1. logs \subseteq conf.commands
  <2>1. \A v \in evidence.checks : v.log \subseteq {v.command} /\ v.command \in conf.commands
    BY CheckFacts DEF AboutTheTree
  <2> QED BY <2>1
<1>2. conf.commands \cap {"failure-log", "changes"} = {}
  BY Bounds
<1>3. failure.id = "failure-log" /\ failure.kind = "other" /\ FailureLog \subseteq {failure}
  BY DEF FailureLog
<1>4. /\ evidence.patch = {Patch(f) : f \in {tree} \ {{}}}
      /\ evidence.artifacts = FailureLog \cup {PatchArtifact(f) : f \in {tree} \ {{}}}
                                \cup {LogOf(l) : l \in logs}
  BY DEF Validated
<1> HIDE DEF logs, failure
<1>5. \A a \in evidence.artifacts :
        \/ a = failure
        \/ a = PatchArtifact(tree) /\ tree # {}
        \/ \E l \in conf.commands : a = LogOf(l)
  BY <1>1, <1>3, <1>4
<1>6. ASSUME NEW a \in evidence.artifacts, NEW b \in evidence.artifacts, a.id = b.id PROVE a = b
  <2>1. CASE a = failure
    <3>1. b.id = "failure-log"
      BY <1>3, <1>6, <2>1
    <3>2. b # PatchArtifact(tree) /\ \A l \in conf.commands : b # LogOf(l)
      BY <1>2, <3>1, ArtifactFields
    <3> QED BY <1>5, <2>1, <3>2
  <2>2. CASE a = PatchArtifact(tree)
    <3>1. b.id = "changes"
      BY <1>6, <2>2, ArtifactFields
    <3>2. b # failure /\ \A l \in conf.commands : b # LogOf(l)
      BY <1>2, <1>3, <3>1, ArtifactFields
    <3> QED BY <1>5, <2>2, <3>2
  <2>3. CASE \E l \in conf.commands : a = LogOf(l)
    <3> PICK l \in conf.commands : a = LogOf(l)
      BY <2>3
    <3>1. b.id = l /\ l \notin {"failure-log", "changes"}
      BY <1>2, <1>6, ArtifactFields
    <3>2. b # failure /\ b # PatchArtifact(tree)
      BY <1>3, <3>1, ArtifactFields
    <3>3. PICK m \in conf.commands : b = LogOf(m)
      BY <1>5, <3>2
    <3>4. m = l
      BY <3>1, <3>3, ArtifactFields
    <3> QED BY <3>3, <3>4
  <2> QED BY <1>5, <2>1, <2>2, <2>3
<1>7. ASSUME NEW a \in evidence.artifacts, a.kind = "patch"
      PROVE  \E p \in evidence.patch : a.id = p.artifact
  <2>1. a # failure /\ \A l \in conf.commands : a # LogOf(l)
    BY <1>3, <1>7, ArtifactFields
  <2>2. a = PatchArtifact(tree) /\ tree # {}
    BY <1>5, <2>1
  <2>3. Patch(tree) \in evidence.patch
    BY <1>4, <2>2
  <2> QED BY <2>2, <2>3, ArtifactFields
<1>8. ASSUME NEW p \in evidence.patch
      PROVE  [id |-> p.artifact, kind |-> "patch", sha |-> p.sha] \in evidence.artifacts
  <2>1. p = Patch(tree) /\ PatchArtifact(tree) \in evidence.artifacts
    BY <1>4
  <2>2. [id |-> p.artifact, kind |-> "patch", sha |-> p.sha] = PatchArtifact(tree)
    BY <2>1, ArtifactFields DEF PatchArtifact
  <2> QED BY <2>1, <2>2
<1>9. ASSUME NEW v \in evidence.checks, NEW l \in v.log
      PROVE  \E a \in evidence.artifacts : a.id = l /\ a.kind = "validation_log"
  <2>1. LogOf(l) \in evidence.artifacts
    BY <1>4, <1>9 DEF logs
  <2> QED BY <2>1, ArtifactFields
<1>10. FailureLog \subseteq evidence.artifacts
  BY <1>4
<1> QED BY <1>6, <1>7, <1>8, <1>9, <1>10


-----------------------------------------------------------------------------
(* The result of an execution. *)

Sending ==
  /\ MeterInv /\ ClaimInv /\ EmptyInv /\ CheckedInv /\ pc = "result"
  /\ conf.mode = "opencode" => RunnerUsageOK(RunnerUsage)

\* A completed execution in an editor: the only one that keeps evidence.
Whole == outcome.status = "completed" /\ UsesEditor

LEMMA SentFacts ==
  ASSUME Sending
  PROVE  /\ Started
         /\ Whole => Validated /\ ReportFits /\ AboutTheTree(conf.commands)
         /\ ~Whole => evidence = NoEvidence
         /\ outcome.status = "completed" => Reported
         /\ outcome.status # "completed" => report = {} /\ outcome.code # 0
<1>1. PathInv /\ TreeInv /\ EmptyInv /\ CheckedInv /\ pc = "result"
  BY DEF Sending, MeterInv, RunInv
<1> QED BY <1>1 DEF PathInv, TreeInv, EmptyInv, CheckedInv, Whole

Findings == conf.task \in {"ci_review", "security_analysis"}

SentArtifacts ==
  IF Diagnosis /\ evidence.artifacts = {} /\ server = "claimed" THEN FailureLog
                                                                ELSE evidence.artifacts
SentKind ==
  IF Findings THEN "findings" ELSE IF Named \/ evidence.patch # {} THEN "patch" ELSE "report"

LEMMA ResultFields ==
  /\ TaskResult.task = conf.task /\ TaskResult.mode = conf.mode
  /\ KeyOf(TaskResult) = KeyOf(conf)
  /\ TaskResult.kind = SentKind
  /\ TaskResult.status = outcome.status
  /\ TaskResult.status # "completed" => TaskResult.reason
  /\ TaskResult.validation = Summary({v.status : v \in evidence.checks})
  /\ TaskResult.patch = evidence.patch /\ TaskResult.checks = evidence.checks
  /\ TaskResult.report = IF Findings THEN {} ELSE report
  /\ TaskResult.artifacts = SentArtifacts
  /\ TaskResult.failure = IF Diagnosis
                     THEN {[upstream |-> job.upstream,
                            claim |-> IF server = "claimed" THEN {"claimed"} ELSE {}]}
                     ELSE {}
  /\ TaskResult.native = IF conf.mode = "single_call" THEN {usage} ELSE {}
  /\ TaskResult.runner = IF conf.mode = "opencode" THEN {RunnerUsage} ELSE {}
<1>1. TaskResult.task = conf.task /\ TaskResult.mode = conf.mode
  BY DEF TaskResult
<1>2. KeyOf(TaskResult) = KeyOf(conf)
  <2>1. TaskResult.language = conf.language
    BY DEF TaskResult
  <2>2. TaskResult.fix = conf.fix
    BY DEF TaskResult
  <2> QED BY <1>1, <2>1, <2>2, Zenon DEF KeyOf
<1>3. TaskResult.kind = SentKind
  BY DEF TaskResult, SentKind, Findings
<1>4. TaskResult.status = outcome.status
  BY DEF TaskResult
<1>5. TaskResult.status # "completed" => TaskResult.reason
  <2>1. TaskResult.reason = (outcome.status # "completed")
    BY DEF TaskResult
  <2> QED BY <1>4, <2>1, Zenon
<1>6. TaskResult.validation = Summary({v.status : v \in evidence.checks})
  BY DEF TaskResult
<1>7. TaskResult.patch = evidence.patch /\ TaskResult.checks = evidence.checks
  BY DEF TaskResult
<1>8. TaskResult.report = IF Findings THEN {} ELSE report
  BY DEF TaskResult, Findings
<1>9. TaskResult.artifacts = SentArtifacts
  BY DEF TaskResult, SentArtifacts
<1>10. TaskResult.failure = IF Diagnosis
                     THEN {[upstream |-> job.upstream,
                            claim |-> IF server = "claimed" THEN {"claimed"} ELSE {}]}
                     ELSE {}
  BY DEF TaskResult
<1>11. TaskResult.native = IF conf.mode = "single_call" THEN {usage} ELSE {}
  BY DEF TaskResult
<1>12. TaskResult.runner = IF conf.mode = "opencode" THEN {RunnerUsage} ELSE {}
  BY DEF TaskResult
<1> QED BY <1>1, <1>2, <1>3, <1>4, <1>5, <1>6, <1>7, <1>8, <1>9, <1>10, <1>11, <1>12, Zenon

\* A patch comes from a profile that may write, and the tree has its changes.
LEMMA PatchFacts ==
  ASSUME Sending, NEW p \in evidence.patch
  PROVE  /\ Whole /\ ~Findings /\ p.files = tree /\ p.sha = tree /\ p.artifact = "changes"
         /\ tree # {} /\ tree \subseteq conf.writes
         /\ PROFILES[KeyOf(conf)].kinds \in {{"patch"}, {"report", "patch"}}
<1>1. Whole
  BY SentFacts DEF NoEvidence
<1>2. Validated /\ Capturable /\ Started
  BY <1>1, SentFacts DEF Validated
<1>3. tree # {} /\ p = Patch(tree)
  BY <1>2 DEF Validated
<1>4. tree \subseteq conf.writes
  BY <1>2 DEF Capturable
<1>5. PROFILES[KeyOf(conf)].writable # FALSE
  <2>1. conf.writes # {}
    BY <1>3, <1>4
  <2>2. PROFILES[KeyOf(conf)].writable
    BY <1>2, <2>1, Bounds, Zenon
  <2> QED BY <2>2, Zenon
<1>6. conf.mode = "opencode"
  BY <1>1 DEF Whole, UsesEditor
<1>7. ~Findings
  <2>1. conf.task \in {"ci_review", "security_analysis"} => PROFILES[KeyOf(conf)].writable = FALSE
    BY <1>2, Kinds, Zenon
  <2> QED BY <1>5, <2>1, Zenon DEF Findings
<1>8. PROFILES[KeyOf(conf)].kinds \in {{"patch"}, {"report", "patch"}}
  <2>1. Named => PROFILES[KeyOf(conf)].kinds = {"patch"}
    BY <1>2, Kinds, Zenon
  <2>2. Diagnosis => PROFILES[KeyOf(conf)].kinds = {"report", "patch"}
    BY <1>2, <1>5, Kinds, Zenon
  <2>3. conf.task = "other" => PROFILES[KeyOf(conf)].kinds = {"report", "patch"}
    BY <1>2, <1>6, Kinds, Zenon
  <2>4. Named \/ Diagnosis \/ conf.task = "other"
    BY <1>2, <1>7, Keys DEF Findings, Named, Diagnosis
  <2> QED BY <2>1, <2>2, <2>3, <2>4
<1> QED BY <1>1, <1>3, <1>4, <1>7, <1>8, ArtifactFields

LEMMA KindOK ==
  ASSUME Sending
  PROVE  /\ KeyOf(conf) \in DOMAIN PROFILES
         /\ SentKind \in PROFILES[KeyOf(conf)].kinds
<1>1. Started
  BY SentFacts
<1>2. KeyOf(conf) \in DOMAIN PROFILES
  BY <1>1, Kinds, Zenon
<1> DEFINE kinds == PROFILES[KeyOf(conf)].kinds
<1>3. CASE Findings
  <2>1. kinds = {"findings"}
    BY <1>1, <1>3, Kinds, Zenon DEF Findings
  <2> QED BY <1>2, <1>3, <2>1 DEF SentKind
<1>4. CASE ~Findings /\ evidence.patch # {}
  <2>1. kinds \in {{"patch"}, {"report", "patch"}}
    BY <1>4, PatchFacts
  <2> QED BY <1>2, <1>4, <2>1 DEF SentKind
<1>5. CASE ~Findings /\ evidence.patch = {}
  <2>1. Named => kinds = {"patch"}
    BY <1>1, Kinds, Zenon
  <2>2. Diagnosis => kinds = {"report", "patch"} \/ kinds = {"report"}
    BY <1>1, Kinds, Zenon
  <2>3. conf.task = "other" => kinds = {"report", "patch"} \/ kinds = {"report"}
    <3>1. conf.mode = "opencode" \/ conf.mode = "single_call"
      BY <1>1, Keys
    <3> QED BY <1>1, <3>1, Kinds, Zenon
  <2>4. Named \/ Diagnosis \/ conf.task = "other"
    BY <1>1, <1>5, Keys DEF Findings, Named, Diagnosis
  <2>5. SentKind = IF Named THEN "patch" ELSE "report"
    BY <1>5 DEF SentKind
  <2> HIDE DEF kinds
  <2>6. (Named => "patch" \in kinds) /\ (~Named => "report" \in kinds)
    BY <2>1, <2>2, <2>3, <2>4
  <2>7. SentKind \in kinds
    BY <2>5, <2>6
  <2> QED BY <1>2, <2>7 DEF kinds
<1> QED BY <1>3, <1>4, <1>5


\* The usage a result reports is consistent, and one number of tokens.
LEMMA NativeOK == ASSUME Sending PROVE \A u \in TaskResult.native : ProviderUsageOK(u)
BY ResultFields DEF Sending, EmptyInv

LEMMA RunnerOK == ASSUME Sending PROVE \A u \in TaskResult.runner : RunnerUsageOK(u)
BY ResultFields DEF Sending

\* The answer of a completed diagnosis has the log as its evidence.
LEMMA ReportFacts ==
  ASSUME Sending, NEW t \in report
  PROVE  /\ outcome.status = "completed"
         /\ Diagnosis => t.cause # "" /\ t.evidence = {"failure-log"}
         /\ ~Diagnosis => t.evidence = {}
<1>1. outcome.status = "completed" /\ Reported
  BY SentFacts
<1>2. t \in Answers
  BY <1>1 DEF Reported
<1>3. /\ t.cause \in IF Diagnosis THEN {"repository", "external"} ELSE {""}
      /\ t.evidence \in IF Diagnosis THEN {{"failure-log"}} ELSE {{}}
  BY <1>2 DEF Answers
<1> QED BY <1>1, <1>3

LEMMA DiagnosisIsWhole ==
  ASSUME Sending, Diagnosis, outcome.status = "completed"
  PROVE  /\ Whole /\ FailureLog \subseteq evidence.artifacts
         /\ FailureLog = {[id |-> "failure-log", kind |-> "other", sha |-> {}]}
         /\ SentArtifacts = evidence.artifacts
<1>1. Started
  BY SentFacts
<1>2. Whole
  BY <1>1, Keys DEF Whole, UsesEditor, Diagnosis
<1>3. FailureLog \subseteq evidence.artifacts
  BY <1>1, <1>2, SentFacts, ArtifactsOK
<1>4. FailureLog = {[id |-> "failure-log", kind |-> "other", sha |-> {}]}
  BY DEF FailureLog
<1> QED BY <1>2, <1>3, <1>4 DEF SentArtifacts

LEMMA WellFormedResult == ASSUME Sending PROVE WellFormed(TaskResult)
<1> DEFINE r == TaskResult
<1>f. /\ r.status = outcome.status /\ r.kind = SentKind /\ KeyOf(r) = KeyOf(conf)
      /\ r.patch = evidence.patch /\ r.checks = evidence.checks
      /\ r.report = IF Findings THEN {} ELSE report
      /\ r.artifacts = SentArtifacts
      /\ r.validation = Summary({v.status : v \in evidence.checks})
  BY ResultFields, Zenon
<1>r. r.status # "completed" => r.reason
  BY ResultFields, Zenon
<1>1. r.native = {} \/ r.runner = {}
  BY ResultFields
<1>u. (\A u \in r.native : ProviderUsageOK(u)) /\ \A u \in r.runner : RunnerUsageOK(u)
  BY NativeOK, RunnerOK
<1> HIDE DEF r
<1>s. Started
  BY SentFacts
<1>2. KeyOf(r) \in DOMAIN PROFILES /\ r.kind \in PROFILES[KeyOf(r)].kinds
  BY <1>f, KindOK
<1>3. \A a, b \in r.artifacts : a.id = b.id => a = b
  <2>1. CASE Whole
    <3>1. FailureLog # {} => evidence.artifacts # {}
      BY <1>s, <2>1, SentFacts, ArtifactsOK
    <3>2. Diagnosis => FailureLog # {}
      BY DEF FailureLog
    <3>3. SentArtifacts = evidence.artifacts
      BY <3>1, <3>2 DEF SentArtifacts
    <3> QED BY <1>f, <1>s, <2>1, <3>3, SentFacts, ArtifactsOK
  <2>2. CASE ~Whole
    <3>1. evidence.artifacts = {}
      BY <2>2, SentFacts DEF NoEvidence
    <3>2. \A a, b \in SentArtifacts : a = b
      BY <3>1 DEF SentArtifacts, FailureLog
    <3> QED BY <1>f, <3>2
  <2> QED BY <2>1, <2>2
<1>4. r.status = "completed" => /\ r.kind = "patch" => r.patch # {}
                                /\ r.kind # "findings" => r.report # {}
  <2> SUFFICES ASSUME outcome.status = "completed"
               PROVE  /\ SentKind = "patch" => evidence.patch # {}
                      /\ SentKind # "findings" => ~Findings /\ report # {}
    BY <1>f
  <2>1. report # {}
    BY SentFacts DEF Reported
  <2>2. Named => evidence.patch # {}
    <3> SUFFICES ASSUME Named PROVE evidence.patch # {}
      OBVIOUS
    <3>1. Whole
      BY <1>s, Keys DEF Named, Whole, UsesEditor
    <3>2. Validated /\ tree # {}
      BY <3>1, SentFacts DEF Validated, Capturable, TestPatchOK, TestPathsOK
    <3> QED BY <3>2 DEF Validated
  <2> QED BY <2>1, <2>2 DEF SentKind
<1>5. \A p \in r.patch : /\ r.kind = "patch"
                         /\ [id |-> p.artifact, kind |-> "patch", sha |-> p.sha] \in r.artifacts
  <2> SUFFICES ASSUME NEW p \in evidence.patch
               PROVE  /\ SentKind = "patch"
                      /\ [id |-> p.artifact, kind |-> "patch", sha |-> p.sha] \in SentArtifacts
    BY <1>f
  <2>1. Whole /\ ~Findings
    BY PatchFacts
  <2>2. [id |-> p.artifact, kind |-> "patch", sha |-> p.sha] \in evidence.artifacts
    BY <1>s, <2>1, SentFacts, ArtifactsOK
  <2>3. evidence.artifacts # {}
    BY <2>2
  <2> QED BY <2>1, <2>2, <2>3 DEF SentKind, SentArtifacts
<1>6. \A a \in r.artifacts : a.kind = "patch" => \E p \in r.patch : a.id = p.artifact
  <2> SUFFICES ASSUME NEW a \in SentArtifacts, a.kind = "patch"
               PROVE  \E p \in evidence.patch : a.id = p.artifact
    BY <1>f
  <2>1. \A b \in FailureLog : b.kind = "other"
    BY DEF FailureLog
  <2>2. a \in evidence.artifacts
    BY <2>1 DEF SentArtifacts
  <2>3. Whole
    BY <2>2, SentFacts DEF NoEvidence
  <2> QED BY <1>s, <2>2, <2>3, SentFacts, ArtifactsOK
<1>7. \A t \in r.report : t.evidence \subseteq {a.id : a \in r.artifacts}
  <2> SUFFICES ASSUME NEW t \in report PROVE t.evidence \subseteq {a.id : a \in SentArtifacts}
    BY <1>f
  <2>1. CASE ~Diagnosis
    BY <2>1, ReportFacts
  <2>2. CASE Diagnosis
    <3>1. t.evidence = {"failure-log"} /\ outcome.status = "completed"
      BY <2>2, ReportFacts
    <3>2. [id |-> "failure-log", kind |-> "other", sha |-> {}] \in SentArtifacts
      BY <2>2, <3>1, DiagnosisIsWhole
    <3> QED BY <3>1, <3>2
  <2> QED BY <2>1, <2>2
<1>8. ASSUME NEW v \in r.checks
      PROVE  /\ CheckOK(v) /\ v.patch = {p.sha : p \in r.patch}
             /\ \A l \in v.log : \E a \in r.artifacts : a.id = l /\ a.kind = "validation_log"
             /\ \A w \in r.checks : v.command = w.command => v = w
  <2>1. v \in evidence.checks
    BY <1>f
  <2>2. Whole
    BY <2>1, SentFacts DEF NoEvidence
  <2>3. Validated /\ AboutTheTree(conf.commands)
    BY <2>2, SentFacts
  <2>4. CheckOK(v) /\ v.patch = {p.sha : p \in r.patch}
    BY <1>f, <2>1, <2>3, CheckFacts
  <2>5. \A w \in r.checks : v.command = w.command => v = w
    BY <1>f, <2>1, <2>3 DEF Validated
  <2>6. \A l \in v.log : \E a \in evidence.artifacts : a.id = l /\ a.kind = "validation_log"
    BY <1>s, <2>1, <2>3, ArtifactsOK
  <2>7. \A a \in evidence.artifacts : a \in r.artifacts
    BY <1>f DEF SentArtifacts
  <2> QED BY <2>4, <2>5, <2>6, <2>7
<1>9. r.validation = Summary({v.status : v \in r.checks})
  BY <1>f
<1> QED BY <1>1, <1>2, <1>3, <1>4, <1>5, <1>6, <1>7, <1>8, <1>9, <1>r, <1>u, Zenon DEF WellFormed, r


LEMMA FailureBoundResult == ASSUME Sending PROVE FailureBound(TaskResult, conf, Gate)
<1> DEFINE r == TaskResult
           f == [upstream |-> job.upstream, claim |-> IF server = "claimed" THEN {"claimed"} ELSE {}]
<1>f. /\ r.task = conf.task /\ r.status = outcome.status
      /\ r.patch = evidence.patch /\ r.artifacts = SentArtifacts
      /\ r.report = IF Findings THEN {} ELSE report
  BY ResultFields, Zenon
<1>1. r.failure = IF Diagnosis THEN {f} ELSE {}
  BY ResultFields
<1>2. r.runner = IF conf.mode = "opencode" THEN {RunnerUsage} ELSE {}
  BY ResultFields, Zenon
<1>3. f.upstream = job.upstream /\ f.claim = IF server = "claimed" THEN {"claimed"} ELSE {}
  OBVIOUS
<1> HIDE DEF r, f
<1>4. CASE ~Diagnosis
  <2>1. r.failure = {} /\ r.task # "ci_failure_diagnosis"
    BY <1>f, <1>1, <1>4 DEF Diagnosis
  <2>2. \A g : g \notin r.failure
    BY <2>1
  <2> QED BY <2>1, <2>2, Zenon DEF FailureBound, r
<1>5. CASE Diagnosis
  <2>1. ClaimInv /\ FinishInv /\ pc = "result"
    BY DEF Sending, MeterInv
  <2>2. conf.diagnosis
    BY <1>5, <2>1 DEF ClaimInv
  <2>3. Gate = "fail"
    BY <1>5 DEF Gate
  <2>4. Started /\ ~Findings /\ conf.mode = "opencode"
    BY <1>5, SentFacts, Keys DEF Diagnosis, Findings
  <2>5. ASSUME outcome.status = "completed"
        PROVE  /\ f.claim # {} /\ f.upstream = "failure"
               /\ \E t \in r.report :
                    /\ t.cause # "" /\ t.evidence = {"failure-log"}
                    /\ r.patch = {} => t.explained
                    /\ r.patch # {} => t.cause = "repository"
               /\ \E a \in r.artifacts : a.id = "failure-log" /\ a.kind = "other"
               /\ \E u \in r.runner : u.attempts = 1 /\ u.steps >= 1
    <3>1. f.claim # {} /\ f.upstream = "failure"
      BY <1>3, <1>5, <2>1, <2>5 DEF ClaimInv
    <3>2. Whole
      BY <1>5, <2>5, DiagnosisIsWhole
    <3>3. PICK t \in Answers : report = {t}
      BY <2>5, SentFacts DEF Reported
    <3>4. IF evidence.patch # {} THEN t.cause = "repository" ELSE t.explained
      BY <1>5, <3>2, <3>3, SentFacts DEF ReportFits
    <3>5. t.cause # "" /\ t.evidence = {"failure-log"}
      BY <1>5, <3>3, ReportFacts
    <3>6. \E a \in r.artifacts : a.id = "failure-log" /\ a.kind = "other"
      <4>1. [id |-> "failure-log", kind |-> "other", sha |-> {}] \in r.artifacts
        BY <1>5, <1>f, <2>5, DiagnosisIsWhole
      <4> QED BY <4>1
    <3>7. RunnerUsage.attempts = attempts /\ RunnerUsage.steps = stream.steps
      BY DEF RunnerUsage
    <3>8. attempts = 1 /\ stream.steps > 0
      BY <2>1, <2>4, <2>5 DEF FinishInv, Finished
    <3>9. stream.steps \in Nat
      BY Fields DEF Sending, MeterInv, SoundStream, Sound
    <3>10. \E u \in r.runner : u.attempts = 1 /\ u.steps >= 1
      BY <1>2, <2>4, <3>7, <3>8, <3>9
    <3>11. t \in r.report
      BY <1>f, <2>4, <3>3
    <3>12. (r.patch = {} => t.explained) /\ (r.patch # {} => t.cause = "repository")
      BY <1>f, <3>4, Zenon
    <3>13. \E x \in r.report :
             /\ x.cause # "" /\ x.evidence = {"failure-log"}
             /\ r.patch = {} => x.explained
             /\ r.patch # {} => x.cause = "repository"
      BY <3>5, <3>11, <3>12, Zenon
    <3> QED BY <3>1, <3>6, <3>10, <3>13
  <2>6. ASSUME NEW p \in r.patch PROVE FixPathsOK(p.files)
    <3>1. p.files = tree /\ Whole /\ tree # {}
      BY <1>f, <2>6, PatchFacts
    <3> QED BY <1>5, <3>1, SentFacts DEF Validated, Capturable, RepairOK
  <2>7. r.task = "ci_failure_diagnosis" /\ r.failure = {f}
    BY <1>f, <1>1, <1>5 DEF Diagnosis
  <2>8. r.failure # {} /\ \A g \in r.failure : g = f
    BY <2>7
  <2>9. ASSUME NEW g \in r.failure, r.status = "completed"
        PROVE  /\ g.claim # {} /\ g.upstream = "failure"
               /\ \E t \in r.report :
                    /\ t.cause # "" /\ t.evidence = {"failure-log"}
                    /\ r.patch = {} => t.explained
                    /\ r.patch # {} => t.cause = "repository"
               /\ \E a \in r.artifacts : a.id = "failure-log" /\ a.kind = "other"
               /\ \E u \in r.runner : u.attempts = 1 /\ u.steps >= 1
    <3>1. g = f /\ outcome.status = "completed"
      BY <1>f, <2>8, <2>9, Zenon
    <3> QED BY <2>5, <3>1, Zenon
  <2> QED BY <2>2, <2>3, <2>6, <2>7, <2>8, <2>9, Zenon DEF FailureBound, r
<1> QED BY <1>4, <1>5 DEF r

LEMMA UsageBoundResult == ASSUME Sending PROVE UsageBound(TaskResult, conf, Gate)
<1> DEFINE r == TaskResult
<1>f. /\ r.task = conf.task /\ r.mode = conf.mode /\ r.status = outcome.status
      /\ r.native = IF conf.mode = "single_call" THEN {usage} ELSE {}
      /\ r.runner = IF conf.mode = "opencode" THEN {RunnerUsage} ELSE {}
  BY ResultFields, Zenon
<1> HIDE DEF r
<1>1. FinishInv /\ SoundStream /\ pc = "result" /\ Started
  BY SentFacts DEF Sending, MeterInv
<1>2. Limit \in Limits
  BY <1>1, LimitTyped
<1>3. Limit.tokens = conf.tokens
  BY DEF Limit
<1>4. Gate = "pass" => outcome.status = "completed"
  BY DEF Gate
<1>5. ASSUME NEW u \in r.native
      PROVE  /\ r.task \in {"ci_review", "other"} /\ r.mode = "single_call"
             /\ r.status = "completed" => TotalTokens(u) # {} /\ u.requests = 1
             /\ Gate = "pass" => Larger(CapturedTokens(u), Known(u.reported)) <= conf.tokens
  <2>1. conf.mode = "single_call" /\ u = usage
    BY <1>f, <1>5
  <2>2. conf.task \in {"ci_review", "other"}
    BY <1>1, <2>1, Keys
  <2>3. outcome.status = "completed" => Metered(u)
    BY <1>1, <2>1 DEF FinishInv
  <2>4. Metered(u) => u.requests = 1
    BY DEF Metered, Usages
  <2>5. Metered(u) => /\ TotalTokens(u) # {}
                      /\ Larger(CapturedTokens(u), Known(u.reported)) <= conf.tokens
    BY <1>2, <1>3, MeteredWithin
  <2> QED BY <1>f, <1>4, <2>1, <2>2, <2>3, <2>4, <2>5
<1>6. ASSUME NEW u \in r.runner
      PROVE  /\ r.task # "ci_review" /\ r.mode = "opencode"
             /\ r.status = "completed" => RunnerComplete(u)
             /\ r.status = "completed" =>
                  /\ Larger(u.captured, Known(u.total)) <= conf.tokens
                  /\ u.steps <= conf.steps /\ u.tools <= conf.steps /\ u.attempts <= 1
  <2>1. conf.mode = "opencode" /\ u = RunnerUsage
    BY <1>f, <1>6
  <2>2. conf.task # "ci_review"
    BY <1>1, <2>1, Keys
  <2>3. ASSUME outcome.status = "completed"
        PROVE  /\ RunnerComplete(u) /\ Larger(u.captured, Known(u.total)) <= conf.tokens
               /\ u.steps <= conf.steps /\ u.tools <= conf.steps /\ u.attempts <= 1
    <3>1. Finished /\ attempts = 1
      BY <1>1, <2>1, <2>3 DEF FinishInv
    <3>2. Sound(stream, Limit) /\ stream \in Streams
      BY <1>1 DEF SoundStream, Sound
    <3>3. stream.total # {} /\ stream.steps > 0
      BY <3>1, <3>2 DEF Sound, Finished
    <3>4. u.attempts = 1 /\ u.steps = stream.steps /\ u.total = stream.total
      BY <2>1, <3>1 DEF RunnerUsage, Finished, Published
    <3>5. u.known = stream.known
      BY <2>1 DEF RunnerUsage
    <3>6. u.known
      BY <3>1, <3>5, Zenon DEF Finished
    <3>7. u.attempts > 0 /\ u.steps > 0 /\ u.total # {}
      BY <3>3, <3>4
    <3>8. RunnerComplete(u)
      BY <3>6, <3>7, Zenon DEF RunnerComplete
    <3>9. Within(TaskResult)
      BY TaskResultWithin DEF Sending
    <3>10. /\ Larger(u.captured, Known(u.total)) <= Limit.tokens
           /\ u.steps <= Limit.steps /\ u.tools <= Limit.steps
      BY <1>f, <1>6, <2>3, <3>9 DEF Within, r
    <3>11. Limit.steps = conf.steps
      BY <2>1 DEF Limit, Authority
    <3>12. u.attempts <= 1
      BY <3>4
    <3> QED BY <1>3, <3>8, <3>10, <3>11, <3>12
  <2> QED BY <1>f, <2>1, <2>2, <2>3
<1> QED BY <1>f, <1>4, <1>5, <1>6 DEF UsageBound, r

LEMMA EvidenceBoundResult == ASSUME Sending PROVE EvidenceBound(TaskResult, conf)
<1> DEFINE r == TaskResult
<1>f. /\ r.task = conf.task
      /\ r.patch = evidence.patch /\ r.checks = evidence.checks
      /\ r.validation = Summary({v.status : v \in evidence.checks})
  BY ResultFields, Zenon
<1> HIDE DEF r
<1>1. ClaimInv /\ pc = "result"
  BY DEF Sending
<1>2. CASE ~Whole
  <2>1. evidence.patch = {} /\ evidence.checks = {}
    BY <1>2, SentFacts DEF NoEvidence
  <2>2. {v.status : v \in evidence.checks} = {} /\ {v.command : v \in evidence.checks} = {}
    BY <2>1
  <2>3. Summary({}) = "not_run"
    BY SummaryFacts
  <2>4. r.validation # "passed"
    BY <1>f, <2>2, <2>3
  <2> QED BY <1>f, <2>1, <2>2, <2>4 DEF EvidenceBound, r
<1>3. CASE Whole
  <2>1. Validated /\ AboutTheTree(conf.commands)
    BY <1>3, SentFacts
  <2>2. {v.command : v \in r.checks} = conf.commands
    BY <1>f, <2>1 DEF AboutTheTree
  <2>3. ASSUME NEW p \in r.patch
        PROVE  p.files \subseteq conf.writes /\ (r.task = "test_generation" => TestPathsOK(p.files))
    <3>1. p.files = tree /\ tree \subseteq conf.writes
      BY <1>f, <2>3, PatchFacts
    <3>2. Named => TestPathsOK(tree)
      BY <2>1 DEF Validated, Capturable, TestPatchOK
    <3> QED BY <1>f, <3>1, <3>2 DEF Named
  <2>4. ASSUME NEW v \in r.checks, NEW e \in v.tests
        PROVE  /\ r.task = "test_generation" /\ conf.environment
               /\ \E p \in r.patch : e.paths = p.files
               /\ e.existing = "kept" /\ e.generated > 0
    <3>1. Named /\ e.paths = tree /\ e.existing = "kept" /\ e.generated > 0
      BY <1>f, <2>1, <2>4, CheckFacts
    <3>2. conf.environment
      BY <1>1, <1>3, <3>1 DEF ClaimInv, Whole
    <3>3. tree # {}
      BY <2>1, <3>1 DEF Validated, Capturable, TestPatchOK, TestPathsOK
    <3>4. Patch(tree) \in r.patch
      BY <1>f, <2>1, <3>3 DEF Validated
    <3>5. \E p \in r.patch : e.paths = p.files
      BY <3>1, <3>4, ArtifactFields
    <3> QED BY <1>f, <3>1, <3>2, <3>5 DEF Named
  <2> QED BY <2>2, <2>3, <2>4 DEF EvidenceBound, r
<1> QED BY <1>2, <1>3

\* A passing gate is earned: every required command passed.
LEMMA PassEarnedResult == ASSUME Sending, Gate = "pass" PROVE PassEarned(TaskResult, conf)
<1> DEFINE r == TaskResult
           statuses == {v.status : v \in evidence.checks}
<1>f. /\ r.task = conf.task /\ r.status = outcome.status
      /\ r.patch = evidence.patch /\ r.checks = evidence.checks
      /\ r.validation = Summary(statuses)
  BY ResultFields, Zenon
<1> HIDE DEF r
<1>1. ~Diagnosis /\ outcome.status = "completed" /\ outcome.code = 0
  BY DEF Gate
<1>2. Started /\ CheckedInv /\ pc = "result"
  BY SentFacts DEF Sending
<1>3. CASE UsesEditor
  <2>1. Whole /\ Validated /\ AboutTheTree(conf.commands)
    BY <1>1, <1>3, SentFacts DEF Whole
  <2>2. Summary(statuses) \notin {"failed", "unavailable"}
    BY <1>1, <1>2, <1>3 DEF CheckedInv
  <2>3. statuses \subseteq {"passed", "failed", "unavailable"}
    BY <2>1, CheckFacts
  <2>4. statuses \subseteq {"passed"}
    BY <2>2, <2>3, SummaryFacts
  <2>5. \A v \in evidence.checks : v.status = "passed"
    BY <2>4
  <2>6. {v.command : v \in {w \in r.checks : w.status = "passed"}} = conf.commands
    BY <1>f, <2>1, <2>5 DEF AboutTheTree
  <2>7. conf.required \subseteq conf.commands
    BY <1>2, Bounds
  <2>8. ASSUME Named PROVE r.patch # {} /\ \E v \in r.checks : v.status = "passed" /\ v.tests # {}
    <3>1. tree # {}
      BY <2>1, <2>8 DEF Validated, Capturable, TestPatchOK, TestPathsOK
    <3>2. r.patch # {}
      BY <1>f, <2>1, <3>1 DEF Validated
    <3>3. conf.commands # {}
      BY <1>2, <2>7, <2>8, Bounds
    <3>4. PICK v \in evidence.checks : TRUE
      BY <2>1, <3>3 DEF AboutTheTree
    <3>5. v.status = "passed" /\ v.tests # {}
      BY <2>1, <2>5, <2>8, CheckFacts
    <3> QED BY <1>f, <3>2, <3>5
  <2> QED BY <1>f, <1>1, <2>2, <2>6, <2>7, <2>8 DEF PassEarned, Diagnosis, Named, r
<1>4. CASE ~UsesEditor
  <2>1. evidence.checks = {}
    BY <1>4, SentFacts DEF Whole, NoEvidence
  <2>2. r.validation = "not_run"
    <3>1. statuses = {}
      BY <2>1
    <3>2. Summary({}) = "not_run"
      BY SummaryFacts
    <3> QED BY <1>f, <3>1, <3>2
  <2>3. ~Named
    BY <1>2, <1>4, Keys DEF UsesEditor, Named
  <2>4. PROFILES[KeyOf(conf)].writable = FALSE
    <3>1. \/ conf.task \in {"ci_review", "security_analysis"}
          \/ conf.task = "other" /\ conf.mode = "single_call"
      BY <1>1, <1>2, <1>4, Keys DEF UsesEditor, Diagnosis
    <3>2. CASE conf.task \in {"ci_review", "security_analysis"}
      BY <1>2, <3>2, Kinds, Zenon
    <3>3. CASE conf.task = "other" /\ conf.mode = "single_call"
      BY <1>2, <3>3, Kinds, Zenon
    <3> QED BY <3>1, <3>2, <3>3
  <2>5. conf.commands = {}
    BY <1>2, <2>4, Bounds, Zenon
  <2>6. conf.required = {}
    BY <1>2, <2>5, Bounds
  <2> QED BY <1>f, <1>1, <2>2, <2>3, <2>6 DEF PassEarned, Diagnosis, Named, r
<1> QED BY <1>3, <1>4

LEMMA ResultAccepted == ASSUME Sending PROVE Accepts(TaskResult, conf, Gate)
<1>1. KeyOf(TaskResult) = KeyOf(conf)
  BY ResultFields, Zenon
<1> QED BY <1>1, WellFormedResult, FailureBoundResult, UsageBoundResult, EvidenceBoundResult,
           PassEarnedResult DEF Accepts

AcceptInv == MeterInv /\ ClaimInv /\ EmptyInv /\ CheckedInv /\ AcceptedByTheServer

LEMMA ResultKept ==
  [Next]_vars =>
    \/ UNCHANGED <<conf, result>>
    \/ /\ pc = "result" /\ UNCHANGED conf /\ result' = {[result |-> TaskResult, gate |-> Gate]}
       /\ conf.mode = "opencode" => RunnerUsageOK(RunnerUsage)
<1> SUFFICES ASSUME [Next]_vars
             PROVE  \/ UNCHANGED <<conf, result>>
                    \/ /\ pc = "result" /\ UNCHANGED conf
                       /\ result' = {[result |-> TaskResult, gate |-> Gate]}
                       /\ conf.mode = "opencode" => RunnerUsageOK(RunnerUsage)
  OBVIOUS
<1>1. CASE UNCHANGED vars
  BY <1>1 DEF vars
<1>2. CASE Fetch BY <1>2 DEF Fetch, Leave
<1>3. CASE Resolve BY <1>3 DEF Resolve, Leave
<1>4. CASE ReadInput BY <1>4 DEF ReadInput, Leave
<1>5. CASE Claim BY <1>5 DEF Claim, Leave
<1>6. CASE Call BY <1>6 DEF Call, Unasked, OverBound, NotAssembled, Unreadable, Unanswered, Unfinished,
           Parses, Completes, NoFindings, NoDiagnosis, Fails
<1>7. CASE Launch BY <1>7 DEF Launch, Misplaced, Leave, Fails, NotCheckedOut, NoBaseline, TreeRefused, Unprepared, NotAssembled, Unreadable,
           OverBound, EditorRefused, ScanRefused, BoundaryOpen, CheckoutRefused
<1>8. CASE Tick BY <1>8 DEF Tick, Live
<1>9. CASE Capture BY <1>9 DEF Capture, Rejected, Fails
<1>10. CASE Check BY <1>10 DEF Check
<1>11. CASE CheckUnnamed BY <1>11 DEF CheckUnnamed, Rejected, Fails
<1>12. CASE Settle BY <1>12 DEF Settle, Rejected, Fails
<1>13. CASE EndStream BY <1>13 DEF EndStream, Closes
<1>14. CASE AfterStream BY <1>14 DEF AfterStream, Fails, Parses, Completes, NoFindings, NoDiagnosis
<1>15. CASE BuildResult BY <1>15 DEF BuildResult, Leave
<1>16. CASE Deliver BY <1>16 DEF Deliver
<1>17. CASE Edit BY <1>17 DEF Edit
<1>18. CASE Request BY <1>18 DEF Request
<1>19. CASE Answered BY <1>19 DEF Answered
<1>20. CASE ReadEvent BY <1>20 DEF ReadEvent
<1>21. CASE Exited BY <1>21 DEF Exited, Closes, Live
<1>22. CASE Expire BY <1>22 DEF Expire
<1> QED
  BY <1>1, <1>2, <1>3, <1>4, <1>5, <1>6, <1>7, <1>8, <1>9, <1>10, <1>11, <1>12, <1>13, <1>14,
     <1>15, <1>16, <1>17, <1>18, <1>19, <1>20, <1>21, <1>22 DEF Next, Agent, Editor, Done


LEMMA AcceptStep == AcceptInv /\ [Next]_vars => AcceptedByTheServer'
<1> SUFFICES ASSUME AcceptInv, [Next]_vars PROVE AcceptedByTheServer'
  OBVIOUS
<1>1. CASE UNCHANGED <<conf, result>>
  BY <1>1 DEF AcceptInv, AcceptedByTheServer
<1>2. CASE /\ pc = "result" /\ UNCHANGED conf /\ result' = {[result |-> TaskResult, gate |-> Gate]}
           /\ conf.mode = "opencode" => RunnerUsageOK(RunnerUsage)
  <2>1. Sending
    BY <1>2 DEF AcceptInv, Sending
  <2>2. Accepts(TaskResult, conf, Gate)
    BY <2>1, ResultAccepted
  <2> DEFINE x == [result |-> TaskResult, gate |-> Gate]
  <2>3. x.result = TaskResult /\ x.gate = Gate
    OBVIOUS
  <2> HIDE DEF x
  <2>4. Accepts(x.result, conf, x.gate) /\ result' = {x} /\ conf' = conf
    BY <1>2, <2>2, <2>3, Zenon DEF x
  <2> QED BY <2>4 DEF AcceptedByTheServer
<1> QED BY <1>1, <1>2, ResultKept

LEMMA AcceptInit == Init => AcceptInv
<1> SUFFICES ASSUME Init PROVE AcceptInv
  OBVIOUS
<1>1. MeterInv
  BY MeterInit
<1>2. /\ pc = "start" /\ evidence = NoEvidence /\ report = {} /\ result = {} /\ editor = "off"
      /\ outcome = [status |-> "completed", code |-> 0]
      /\ \E p : usage = NoUsage(p, 0)
  BY DEF Init, Fresh
<1>3. ClaimInv /\ CheckedInv /\ AcceptedByTheServer
  BY <1>2 DEF ClaimInv, CheckedInv, AcceptedByTheServer, Running
<1>4. EmptyInv
  BY <1>2, NoUsageOK DEF EmptyInv, Early
<1> QED BY <1>1, <1>3, <1>4 DEF AcceptInv

LEMMA AcceptKept == AcceptInv /\ [Next]_vars => AcceptInv'
<1> SUFFICES ASSUME AcceptInv, [Next]_vars PROVE AcceptInv'
  OBVIOUS
<1>1. MeterInv'
  BY MeterStep DEF AcceptInv
<1>2. ClaimInv' /\ EmptyInv' /\ CheckedInv' /\ AcceptedByTheServer'
  BY ClaimStep, EmptyStep, CheckedStep, AcceptStep DEF AcceptInv
<1> QED BY <1>1, <1>2 DEF AcceptInv

\* Everything that makes a result acceptable.
THEOREM AcceptIsInvariant == Spec => []AcceptInv
BY AcceptKept, AcceptInit, PTL DEF Spec

\* The API accepts every result that the agent builds (agent/execution.py against
\* app/task_contracts.py): for every configuration, every CI job, every tree the editor
\* leaves and whatever its commands and the steps of the model end with.
THEOREM ResultsAreAccepted == Spec => []AcceptedByTheServer
<1>1. AcceptInv => AcceptedByTheServer
  BY DEF AcceptInv
<1> QED BY <1>1, AcceptIsInvariant, PTL


-----------------------------------------------------------------------------
(* The exit code. *)

\* What is delivered: a result with its gate, that no failed execution has a
\* code of 0 for, and no execution in a runner without a final answer.
Deliverable ==
  /\ \E x \in result : x.gate = Gate
  /\ outcome.status # "completed" => outcome.code # 0
  /\ outcome.status = "completed" /\ conf.mode = "opencode" =>
       stream.text = "answer" /\ stream.final = "stop"

ExitInv ==
  /\ exit # {} => pc = "done"
  /\ server = "duplicate" => Diagnosis
  /\ pc = "deliver" => Deliverable
  /\ ZeroIsADeliveredPass

\* A process that ends early does not end with 0.
Red == pc' = "done" /\ server' = server /\ \A e \in exit' : e.code # 0

LEMMA RedOK == ASSUME Red, conf' = conf, ExitInv PROVE ExitInv'
BY DEF Red, ExitInv, Diagnosis, ZeroIsADeliveredPass

\* Before the end there is no exit code.
LEMMA NotYet ==
  ASSUME ExitInv, pc # "done", exit' = exit, pc' # "deliver", conf' = conf,
         server' = "duplicate" => Diagnosis
  PROVE  ExitInv'
<1>1. exit' = {}
  BY DEF ExitInv
<1> QED BY <1>1 DEF ExitInv, Diagnosis, ZeroIsADeliveredPass

LEMMA BuildStep ==
  ASSUME AcceptInv, ExitInv, BuildResult
  PROVE  ExitInv'
<1>1. CASE Leave(4, "contract") /\ UNCHANGED <<fixed, expired>>
  <2>1. Red
    BY <1>1 DEF Leave, Red
  <2> QED BY <1>1, <2>1, RedOK
<1>2. CASE pc' = "deliver" /\ result' = {[result |-> TaskResult, gate |-> Gate]}
  <2>1. /\ pc = "result"
        /\ UNCHANGED <<fixed, stream, usage, work, evidence, report, expired, attempts, outcome,
                       exit, server>>
    BY <1>2 DEF BuildResult, Leave
  <2>2. EmptyInv /\ FinishInv
    BY DEF AcceptInv, MeterInv
  <2>3. Gate' = Gate
    BY <2>1 DEF Gate, Diagnosis
  <2>4. \E x \in result' : x.gate = Gate
    BY <1>2
  <2>5. outcome.status # "completed" => outcome.code # 0
    BY <2>1, <2>2 DEF EmptyInv
  <2>6. outcome.status = "completed" /\ conf.mode = "opencode" =>
          stream.text = "answer" /\ stream.final = "stop"
    BY <2>1, <2>2 DEF FinishInv, Finished
  <2>7. Deliverable'
    BY <2>1, <2>3, <2>4, <2>5, <2>6 DEF Deliverable
  <2>8. exit' = {}
    BY <2>1 DEF ExitInv
  <2> QED BY <1>2, <2>1, <2>7, <2>8 DEF ExitInv, Diagnosis, ZeroIsADeliveredPass
<1> QED BY <1>1, <1>2 DEF BuildResult

LEMMA DeliverStep ==
  ASSUME AcceptInv, ExitInv, Deliver
  PROVE  ExitInv'
<1>1. /\ pc = "deliver" /\ pc' = "done" /\ Deliverable
      /\ UNCHANGED <<fixed, stream, outcome, result>>
  BY DEF Deliver, ExitInv
<1>2. server' = "duplicate" => Diagnosis
  <2>1. \A accepts \in BOOLEAN : \A reply \in Replies(accepts) : reply.server # "duplicate"
    BY DEF Replies
  <2>2. \A r, c, g : Accepts(r, c, g) \in BOOLEAN
    BY DEF Accepts
  <2> QED BY <2>1, <2>2 DEF Deliver, ExitInv
<1>3. ASSUME NEW e \in exit', e.code = 0
      PROVE  e.code = ExitCode /\ (job.post => server' = "accepted" \/ server = "duplicate")
  <2>1. CASE /\ ~job.post \/ server = "duplicate"
             /\ exit' = {[code |-> ExitCode, why |-> "reported"]}
    BY <1>3, <2>1
  <2>2. CASE \E x \in result : \E reply \in Replies(Accepts(x.result, conf, x.gate)) :
               /\ server' = reply.server
               /\ exit' = {IF reply = [server |-> "accepted", heard |-> TRUE]
                             THEN [code |-> ExitCode, why |-> "reported"]
                             ELSE [code |-> 4, why |-> "delivery"]}
    <3> PICK x \in result : \E reply \in Replies(Accepts(x.result, conf, x.gate)) :
               /\ server' = reply.server
               /\ exit' = {IF reply = [server |-> "accepted", heard |-> TRUE]
                             THEN [code |-> ExitCode, why |-> "reported"]
                             ELSE [code |-> 4, why |-> "delivery"]}
      BY <2>2
    <3> PICK reply \in Replies(Accepts(x.result, conf, x.gate)) :
               /\ server' = reply.server
               /\ exit' = {IF reply = [server |-> "accepted", heard |-> TRUE]
                             THEN [code |-> ExitCode, why |-> "reported"]
                             ELSE [code |-> 4, why |-> "delivery"]}
      OBVIOUS
    <3>1. CASE reply = [server |-> "accepted", heard |-> TRUE]
      BY <1>3, <3>1
    <3>2. CASE reply # [server |-> "accepted", heard |-> TRUE]
      BY <1>3, <3>2
    <3> QED BY <3>1, <3>2
  <2> QED BY <2>1, <2>2 DEF Deliver
<1>4. ASSUME NEW e \in exit', e.code = 0
      PROVE  /\ job.post => server' = "accepted"
             /\ \E x \in result : /\ x.gate = "pass" /\ PassEarned(x.result, conf)
                                  /\ conf.mode = "opencode" =>
                                       stream.text = "answer" /\ stream.final = "stop"
  <2>1. e.code = ExitCode /\ (job.post => server' = "accepted" \/ server = "duplicate")
    BY <1>3, <1>4
  <2>2. outcome.code = 0 /\ ~Diagnosis
    BY <1>4, <2>1 DEF ExitCode
  <2>3. outcome.status = "completed" /\ Gate = "pass"
    BY <1>1, <2>2 DEF Deliverable, Gate
  <2>4. PICK x \in result : x.gate = "pass"
    BY <1>1, <2>3 DEF Deliverable
  <2>5. PassEarned(x.result, conf)
    BY <2>4 DEF AcceptInv, AcceptedByTheServer, Accepts
  <2>6. conf.mode = "opencode" => stream.text = "answer" /\ stream.final = "stop"
    BY <1>1, <2>3 DEF Deliverable
  <2>7. job.post => server' = "accepted"
    BY <2>1, <2>2 DEF ExitInv
  <2> QED BY <2>4, <2>5, <2>6, <2>7
<1>5. ZeroIsADeliveredPass'
  BY <1>1, <1>4 DEF ZeroIsADeliveredPass
<1> QED BY <1>1, <1>2, <1>5 DEF ExitInv, Diagnosis

LEMMA ExitStep == AcceptInv /\ ExitInv /\ [Next]_vars => ExitInv'
<1> SUFFICES ASSUME AcceptInv, ExitInv, [Next]_vars PROVE ExitInv'
  OBVIOUS
<1>0. EditorInv /\ PathInv /\ conf' = conf
  BY ResultKept DEF AcceptInv, MeterInv, RunInv
<1>d. server = "duplicate" => Diagnosis
  BY DEF ExitInv
<1>1. CASE UNCHANGED vars
  BY <1>1 DEF ExitInv, Deliverable, Gate, Diagnosis, ZeroIsADeliveredPass
<1>2. CASE Fetch
  <2>1. \/ Red
        \/ pc # "done" /\ exit' = exit /\ pc' # "deliver" /\ (server' = "duplicate" => server = "duplicate" \/ Diagnosis)
    BY <1>0, <1>2 DEF Fetch, Leave, Red
  <2> QED BY <1>0, <1>d, <2>1, RedOK, NotYet
<1>3. CASE Resolve
  <2>1. \/ Red
        \/ pc # "done" /\ exit' = exit /\ pc' # "deliver" /\ (server' = "duplicate" => server = "duplicate" \/ Diagnosis)
    BY <1>0, <1>3 DEF Resolve, Leave, Red
  <2> QED BY <1>0, <1>d, <2>1, RedOK, NotYet
<1>4. CASE ReadInput
  <2>1. \/ Red
        \/ pc # "done" /\ exit' = exit /\ pc' # "deliver" /\ (server' = "duplicate" => server = "duplicate" \/ Diagnosis)
    BY <1>0, <1>4 DEF ReadInput, Leave, Red
  <2> QED BY <1>0, <1>d, <2>1, RedOK, NotYet
<1>5. CASE Claim
  <2>1. \/ Red
        \/ pc # "done" /\ exit' = exit /\ pc' # "deliver" /\ (server' = "duplicate" => server = "duplicate" \/ Diagnosis)
    BY <1>0, <1>5 DEF Claim, Leave, Red, PathInv
  <2> QED BY <1>0, <1>d, <2>1, RedOK, NotYet
<1>6. CASE Call
  <2>1. pc # "done" /\ exit' = exit /\ pc' # "deliver" /\ server' = server
    BY <1>0, <1>6 DEF Call, Unasked, OverBound, NotAssembled, Unreadable, Unanswered, Unfinished,
           Parses, Completes, NoFindings, NoDiagnosis, Fails
  <2> QED BY <1>0, <1>d, <2>1, NotYet
<1>7. CASE Launch
  <2>1. \/ Red
        \/ pc # "done" /\ exit' = exit /\ pc' # "deliver" /\ (server' = "duplicate" => server = "duplicate" \/ Diagnosis)
    BY <1>0, <1>7 DEF Launch, Misplaced, Leave, Fails, NotCheckedOut, NoBaseline, TreeRefused, Unprepared, NotAssembled, Unreadable,
           OverBound, EditorRefused, ScanRefused, BoundaryOpen, CheckoutRefused, Red
  <2> QED BY <1>0, <1>d, <2>1, RedOK, NotYet
<1>8. CASE Tick
  <2>1. pc # "done" /\ exit' = exit /\ pc' # "deliver" /\ server' = server
    BY <1>0, <1>8 DEF Tick, Live, EditorInv
  <2> QED BY <1>0, <1>d, <2>1, NotYet
<1>9. CASE Capture
  <2>1. pc # "done" /\ exit' = exit /\ pc' # "deliver" /\ server' = server
    BY <1>0, <1>9 DEF Capture, Rejected, Fails
  <2> QED BY <1>0, <1>d, <2>1, NotYet
<1>10. CASE Check
  <2>1. pc # "done" /\ exit' = exit /\ pc' # "deliver" /\ server' = server
    BY <1>0, <1>10 DEF Check
  <2> QED BY <1>0, <1>d, <2>1, NotYet
<1>11. CASE CheckUnnamed
  <2>1. pc # "done" /\ exit' = exit /\ pc' # "deliver" /\ server' = server
    BY <1>0, <1>11 DEF CheckUnnamed, Rejected, Fails
  <2> QED BY <1>0, <1>d, <2>1, NotYet
<1>12. CASE Settle
  <2>1. pc # "done" /\ exit' = exit /\ pc' # "deliver" /\ server' = server
    BY <1>0, <1>12 DEF Settle, Rejected, Fails
  <2> QED BY <1>0, <1>d, <2>1, NotYet
<1>13. CASE EndStream
  <2>1. pc # "done" /\ exit' = exit /\ pc' # "deliver" /\ server' = server
    BY <1>0, <1>13 DEF EndStream, Closes
  <2> QED BY <1>0, <1>d, <2>1, NotYet
<1>14. CASE AfterStream
  <2>1. pc # "done" /\ exit' = exit /\ pc' # "deliver" /\ server' = server
    BY <1>0, <1>14 DEF AfterStream, Fails, Parses, Completes, NoFindings, NoDiagnosis
  <2> QED BY <1>0, <1>d, <2>1, NotYet
<1>15. CASE BuildResult
  BY <1>15, BuildStep
<1>16. CASE Deliver
  BY <1>16, DeliverStep
<1>17. CASE Edit
  <2>1. pc # "done" /\ exit' = exit /\ pc' # "deliver" /\ server' = server
    BY <1>0, <1>17 DEF Edit, EditorInv
  <2> QED BY <1>0, <1>d, <2>1, NotYet
<1>18. CASE Request
  <2>1. pc # "done" /\ exit' = exit /\ pc' # "deliver" /\ server' = server
    BY <1>0, <1>18 DEF Request, EditorInv
  <2> QED BY <1>0, <1>d, <2>1, NotYet
<1>19. CASE Answered
  <2>1. pc # "done" /\ exit' = exit /\ pc' # "deliver" /\ server' = server
    BY <1>0, <1>19 DEF Answered, EditorInv
  <2> QED BY <1>0, <1>d, <2>1, NotYet
<1>20. CASE ReadEvent
  <2>1. pc # "done" /\ exit' = exit /\ pc' # "deliver" /\ server' = server
    BY <1>0, <1>20 DEF ReadEvent, EditorInv, Live
  <2> QED BY <1>0, <1>d, <2>1, NotYet
<1>21. CASE Exited
  <2>1. pc # "done" /\ exit' = exit /\ pc' # "deliver" /\ server' = server
    BY <1>0, <1>21 DEF Exited, Closes, Live, EditorInv
  <2> QED BY <1>0, <1>d, <2>1, NotYet
<1>22. CASE Expire
  <2>1. pc # "done" /\ exit' = exit /\ pc' # "deliver" /\ server' = server
    BY <1>0, <1>22 DEF Expire
  <2> QED BY <1>0, <1>d, <2>1, NotYet
<1> QED
  BY <1>1, <1>2, <1>3, <1>4, <1>5, <1>6, <1>7, <1>8, <1>9, <1>10, <1>11, <1>12, <1>13, <1>14,
     <1>15, <1>16, <1>17, <1>18, <1>19, <1>20, <1>21, <1>22 DEF Next, Agent, Editor, Done


\* Exit code 0 is a delivered pass, for every configuration and job: of an
\* execution that completed with every required command passed, accepted by the
\* API where the job posts; whatever the model, the commands and the network do.
THEOREM ZeroIsEarned == Spec => []ZeroIsADeliveredPass
<1>1. Init => ExitInv
  BY DEF Init, Fresh, ExitInv, ZeroIsADeliveredPass
<1>2. AcceptInv /\ ExitInv /\ [Next]_vars => ExitInv'
  BY ExitStep
<1>3. ExitInv => ZeroIsADeliveredPass
  BY DEF ExitInv
<1> QED BY <1>1, <1>2, <1>3, AcceptIsInvariant, PTL DEF Spec

-----------------------------------------------------------------------------
(* The whole command. *)

HIDE DEF vars, work, fixed

\* What a path that was not taken would have to show for itself.
NoExecution == result = {} /\ exit = {} /\ mail.response = {}
NoScanRun == verdict = {} /\ left = {}

MainInv ==
  /\ executionConfig \in BOOLEAN
  /\ executionConfig = TRUE => AcceptInv /\ ExitInv /\ NoScanRun
  /\ executionConfig = FALSE => LegacyInv /\ NoExecution

AgentIsSafe ==
  /\ AcceptedByTheServer /\ CompletedNamesTheFinalTree /\ AnswersAreAboutOneTree
  /\ ZeroIsADeliveredPass /\ CompletedWithinCeilings
  /\ CleanMeansScanned /\ ReportedIsPaid

LEMMA MainStart == MainInit => MainInv
<1> SUFFICES ASSUME MainInit PROVE MainInv
  OBVIOUS
<1>1. CASE executionConfig = TRUE
  <2>1. Init /\ LegacyFresh(CHOOSE s \in Setups : TRUE, "over")
    BY <1>1 DEF MainInit
  <2>2. NoScanRun
    BY <2>1 DEF LegacyFresh, NoScanRun
  <2>3. ExitInv
    BY <2>1 DEF Init, Fresh, ExitInv, ZeroIsADeliveredPass
  <2> QED BY <1>1, <2>1, <2>2, <2>3, AcceptInit DEF MainInv
<1>2. CASE executionConfig = FALSE
  <2>1. LegacyInit /\ Fresh(CHOOSE s \in Starts : TRUE, "done")
    BY <1>2 DEF MainInit
  <2>2. LegacyInv
    BY <2>1, FreshOK DEF LegacyInit
  <2>3. NoExecution
    BY <2>1 DEF Fresh, NoExecution
  <2> QED BY <1>2, <2>2, <2>3 DEF MainInv
<1> QED BY <1>1, <1>2 DEF MainInit

LEMMA MainStep == MainInv /\ [MainNext]_mainVars => MainInv'
<1> SUFFICES ASSUME MainInv, [MainNext]_mainVars PROVE MainInv'
  OBVIOUS
<1>1. /\ executionConfig' = executionConfig /\ executionConfig \in BOOLEAN
      /\ \/ executionConfig = TRUE /\ [Next]_vars /\ UNCHANGED legacy
         \/ executionConfig = FALSE /\ [LegacyNext]_legacy /\ UNCHANGED vars
  BY DEF MainNext, mainVars, MainInv
<1>2. CASE executionConfig = TRUE /\ [Next]_vars /\ UNCHANGED legacy
  <2>1. AcceptInv /\ ExitInv /\ NoScanRun
    BY <1>2 DEF MainInv
  <2>2. AcceptInv'
    BY <1>2, <2>1, AcceptKept
  <2>3. ExitInv'
    BY <1>2, <2>1, ExitStep
  <2>4. NoScanRun'
    BY <1>2, <2>1 DEF NoScanRun, legacy
  <2> QED BY <1>1, <1>2, <2>2, <2>3, <2>4 DEF MainInv
<1>3. CASE executionConfig = FALSE /\ [LegacyNext]_legacy /\ UNCHANGED vars
  <2>1. LegacyInv /\ NoExecution
    BY <1>3 DEF MainInv
  <2>2. LegacyInv'
    BY <1>3, <2>1, LegacyInductive
  <2>3. NoExecution'
    BY <1>3, <2>1 DEF NoExecution, vars
  <2> QED BY <1>1, <1>3, <2>2, <2>3 DEF MainInv
<1> QED BY <1>1, <1>2, <1>3

\* Whichever path the command takes, the agent keeps what both promise: the
\* path that is not taken has nothing to show and changes nothing.
THEOREM MainIsSafe ==
  MainSpec =>
    [](/\ AcceptedByTheServer /\ CompletedNamesTheFinalTree /\ AnswersAreAboutOneTree
       /\ ZeroIsADeliveredPass /\ CompletedWithinCeilings
       /\ CleanMeansScanned /\ ReportedIsPaid)
<1>1. MainInv => AgentIsSafe
  <2> SUFFICES ASSUME MainInv PROVE AgentIsSafe
    OBVIOUS
  <2>1. CASE executionConfig = TRUE
    <3>1. AcceptInv /\ ExitInv /\ NoScanRun
      BY <2>1 DEF MainInv
    <3>2. MeterInv /\ RunInv /\ AcceptedByTheServer
      BY <3>1 DEF AcceptInv, MeterInv
    <3>3. CleanMeansScanned /\ ReportedIsPaid
      BY <3>1 DEF NoScanRun, CleanMeansScanned, ReportedIsPaid
    <3> QED BY <3>1, <3>2, <3>3 DEF AgentIsSafe, MeterInv, RunInv, ExitInv
  <2>2. CASE executionConfig = FALSE
    <3>1. LegacyInv /\ NoExecution
      BY <2>2 DEF MainInv
    <3>2. CleanMeansScanned /\ ReportedIsPaid
      BY <3>1, LegacyMeans
    <3>3. /\ AcceptedByTheServer /\ CompletedNamesTheFinalTree /\ AnswersAreAboutOneTree
          /\ ZeroIsADeliveredPass /\ CompletedWithinCeilings
      BY <3>1 DEF NoExecution, AcceptedByTheServer, CompletedNamesTheFinalTree,
                  AnswersAreAboutOneTree, ZeroIsADeliveredPass, CompletedWithinCeilings
    <3> QED BY <3>2, <3>3 DEF AgentIsSafe
  <2> QED BY <2>1, <2>2 DEF MainInv
<1>2. MainSpec => []AgentIsSafe
  BY <1>1, MainStart, MainStep, PTL DEF MainSpec
<1> QED BY <1>2, PTL DEF AgentIsSafe

=============================================================================
