----------------------------- MODULE LegacyAgent -----------------------------
(***************************************************************************)
(* One run of the CI agent without an execution configuration, the path    *)
(* main takes unless it is told otherwise (agent/__main__.py): a review is *)
(* one call on a diff (agent/review.py), a security scan is a loop of      *)
(* OpenCode attempts that share their ceilings (agent/security.py).        *)
(*                                                                         *)
(* What the model says is one of a few kinds of text.  An answer is clean, *)
(* or blocking, or unusable: its only blocking rows are ones the ingest    *)
(* would reject.  Junk is text with a stray quote or brace, or an answer   *)
(* that does not parse.  A step reports its billable tokens, input plus    *)
(* output.                                                                 *)
(***************************************************************************)
EXTENDS Integers, FiniteSets

CONSTANTS
  Setups,           \* what the environment and the API tell the agent
  TokenCeiling, StepCeiling, MaxAttempts,
  StepTokens        \* what one step, or one call, may use

LegacySetups ==
  [ remote : BOOLEAN,                   \* URL, project and token are all set
    task : {"review", "security"}, image : {"", "review", "security"},
    runnable : BOOLEAN,                 \* the provider has a client for the task
    key : BOOLEAN,                      \* its credential is in the environment
    profile : BOOLEAN,                  \* a model of an explicit profile
    post : BOOLEAN, build : BOOLEAN ]

ASSUME SetupsAreSetups == Setups \subseteq LegacySetups
ASSUME CeilingsArePositive ==
  TokenCeiling \in Nat \ {0} /\ StepCeiling \in Nat \ {0} /\ MaxAttempts \in Nat \ {0}
ASSUME StepTokensAreCounts == StepTokens \subseteq Nat

VARIABLES
  setup,      \* the environment of this run
  phase,      \* where main is
  scan,       \* the attempt in progress, as its reader sees it
  totals,     \* attempts made, and what those that ended used
  paid,       \* tokens the provider was paid for, in all attempts
  verdict,    \* the result, once there is one
  left,       \* the exit code, once known
  posted      \* what became of the POST

legacy == <<setup, phase, scan, totals, paid, verdict, left, posted>>

NoScan == [tokens |-> 0, steps |-> 0, said |-> {}, answer |-> "", earlier |-> {},
           late |-> FALSE, rc |-> {}]

LegacyFresh(s, at) ==
  /\ setup = s /\ phase = at /\ scan = NoScan
  /\ totals = [attempts |-> 0, tokens |-> 0, steps |-> 0]
  /\ paid = 0 /\ verdict = {} /\ left = {} /\ posted = "none"

LegacyInit == \E s \in Setups : LegacyFresh(s, "start")

Quits(code) ==
  /\ phase' = "over" /\ left' = {code}
  /\ UNCHANGED <<setup, verdict, posted>>

Goes(next) == phase' = next /\ UNCHANGED <<setup, verdict, left, posted>>

\* The severities of an answer; a row the ingest would reject is dropped.
ToFindings(answer) == IF answer = "blocking" THEN {"critical"} ELSE {}

\* The gate fails a result with a blocking finding.
Concludes(answer, tokens) ==
  /\ phase' = "report"
  /\ verdict' = {[gate |-> IF "critical" \in ToFindings(answer) THEN "fail" ELSE "pass",
                  tokens |-> tokens]}
  /\ UNCHANGED <<setup, left, posted>>

\* The model's provider has a client for the task.
Runnable == setup.runnable

\* A client and a credential for the model, the image of the task, and a
\* model that is not reserved to the explicit profiles.
Configured ==
  /\ Runnable /\ (setup.remote => setup.key)
  /\ setup.image \in {"", setup.task} /\ ~setup.profile

\* The API gives no configuration of a task the agent knows.
Unreached == setup.remote /\ Quits(4)

\* The API's configuration wins over the environment when it is reachable.
LegacyResolve ==
  /\ phase = "start"
  /\ \/ Unreached
     \/ ~Configured /\ Quits(4)
     \/ /\ Configured
        /\ Goes(IF setup.task = "review" THEN "diff" ELSE "workspace")
  /\ UNCHANGED <<scan, totals, paid>>

\* A diff that cannot be read, one too large to be paid for, or a call.
ReviewDiff ==
  /\ phase = "diff"
  /\ Quits(4) \/ Quits(124) \/ Goes("review")
  /\ UNCHANGED <<scan, totals, paid>>

\* A text that is no findings object is a refusal, or output nobody can use.
ParseFindings(text, tokens) ==
  CASE text = "refusal" -> Quits(3)
    [] text = "junk"    -> Quits(2)
    [] OTHER            -> Concludes(text, tokens)

ReviewCall ==
  /\ phase = "review"
  /\ \/ Quits(4) /\ UNCHANGED <<scan, paid>>
     \/ \E tokens \in StepTokens, text \in {"refusal", "clean", "blocking", "junk"} :
          /\ paid' = tokens
          /\ scan' = [scan EXCEPT !.tokens = tokens, !.said = {text}]
          /\ IF tokens > TokenCeiling THEN Quits(124)
             ELSE ParseFindings(text, tokens)
  /\ UNCHANGED totals

\* No OpenCode, no auditor prompt or nothing to audit: not a clean scan.
ScanPrepares ==
  /\ phase = "workspace"
  /\ Quits(4) \/ Goes("attempt")
  /\ UNCHANGED <<scan, totals, paid>>

RemainingUnshared(ceiling, used) == ceiling

\* What is left of a ceiling, and never nothing.
Remaining(ceiling, used) == IF ceiling - used > 1 THEN ceiling - used ELSE 1

RemainingTokens == Remaining(TokenCeiling, totals.tokens)
RemainingSteps == Remaining(StepCeiling, totals.steps)

StartAttempt ==
  /\ phase = "attempt"
  /\ totals' = [totals EXCEPT !.attempts = @ + 1]
  /\ scan' = NoScan /\ UNCHANGED paid
  /\ Goes("streaming") \/ Quits(4)

FindingsObjects == {"clean", "blocking", "unusable"}

\* What an answer leaves of those before it: where a stray quote or brace came
\* first, the answer may be lost, and one before it, or none, be what is left.
EarlierThan(text) ==
  IF text \in FindingsObjects /\ "junk" \in scan.said
  THEN scan.earlier \cup {scan.answer} ELSE scan.earlier

Seen(tokens, step, text) ==
  [scan EXCEPT !.tokens = @ + tokens, !.steps = @ + step,
     !.said = @ \cup ({text} \ {""}), !.earlier = EarlierThan(text),
     !.answer = IF text \in FindingsObjects THEN text ELSE @]

\* The ceilings are looked at after a line, and at no other time.
OverCeiling(seen) == seen.tokens > RemainingTokens \/ seen.steps > RemainingSteps \/ scan.late

\* A line of the process that is an event, or a garbled one.
ScanEvent ==
  /\ phase = "streaming" /\ scan.rc = {}
  /\ \/ Quits(4) /\ UNCHANGED <<scan, paid>>
     \/ \E tokens \in StepTokens, step \in {0, 1}, text \in {"", "refusal", "clean", "blocking", "unusable", "junk"} :
          LET seen == Seen(tokens, step, text)
          IN /\ step = 0 => tokens = 0
             /\ step = 1 => text = ""
             /\ paid' = paid + tokens
             /\ scan' = [seen EXCEPT !.rc = IF OverCeiling(seen) THEN {124} ELSE {}]
             /\ UNCHANGED <<setup, phase, verdict, left, posted>>
  /\ UNCHANGED totals

\* The seconds of this attempt run out.
ScanLate ==
  /\ phase = "streaming" /\ scan.rc = {} /\ ~scan.late
  /\ scan' = [scan EXCEPT !.late = TRUE]
  /\ UNCHANGED <<setup, phase, totals, paid, verdict, left, posted>>

\* Its output is closed: it exits, or is waited for in vain and killed.
ScanExits ==
  /\ phase = "streaming" /\ scan.rc = {}
  /\ \E rc \in {0, 1, 124} : scan' = [scan EXCEPT !.rc = {rc}]
  /\ UNCHANGED <<setup, phase, totals, paid, verdict, left, posted>>

\* Answers that may be found in the text, the last one that parses.
Found == {scan.answer} \cup scan.earlier

HeardAnswerFirst ==
  IF scan.answer # "" THEN {scan.answer}
  ELSE IF "refusal" \in scan.said THEN {"refusal"} ELSE {"junk"}

\* What an attempt's text is taken for: a refusal anywhere in it is looked for
\* first, then an answer from the last candidate back to the first.
Heard ==
  IF "refusal" \in scan.said THEN {"refusal"}
  ELSE (Found \ {""}) \cup (IF "" \in Found THEN {"junk"} ELSE {})

\* The attempt is over: a ceiling ends the loop, a process that died without
\* a word ends it, a refusal and unparseable output are tried again.
Again(code) == IF totals.attempts < MaxAttempts THEN Goes("attempt") ELSE Quits(code)

Judge ==
  /\ phase = "streaming" /\ scan.rc # {}
  /\ totals' = [totals EXCEPT !.tokens = @ + scan.tokens, !.steps = @ + scan.steps]
  /\ \/ scan.rc = {124} /\ Quits(124)
     \/ scan.rc = {1} /\ scan.said = {} /\ Quits(4)
     \/ /\ scan.rc = {0} \/ (scan.rc = {1} /\ scan.said # {})
        /\ \E heard \in Heard :
             CASE heard = "refusal" -> Again(3)
               [] heard = "junk" -> Again(2)
               [] OTHER -> Concludes(heard, totals'.tokens)
  /\ UNCHANGED <<scan, paid>>

\* The result is printed; where the job asks for it, the agent also posts it,
\* and a run that did not reach the API is not a pass.
Report ==
  /\ phase = "report" /\ phase' = "over"
  /\ \E v \in verdict :
       LET code == IF v.gate = "pass" THEN 0 ELSE 1
       IN \/ ~setup.post /\ left' = {code} /\ UNCHANGED posted
          \/ setup.post /\ ~(setup.remote /\ setup.build) /\ left' = {4} /\ UNCHANGED posted
          \/ setup.post /\ setup.remote /\ setup.build /\ posted' = "accepted" /\ left' = {code}
          \/ /\ setup.post /\ setup.remote /\ setup.build /\ left' = {4}
             /\ posted' \in {"lost", "accepted"}         \* the answer did not arrive
  /\ UNCHANGED <<setup, scan, totals, paid, verdict>>

LegacyAgentSteps ==
  LegacyResolve \/ ReviewDiff \/ ReviewCall \/ ScanPrepares \/ StartAttempt \/ Judge \/ Report
LegacyNext == LegacyAgentSteps \/ ScanEvent \/ ScanExits \/ ScanLate

-----------------------------------------------------------------------------

\* Exit code 0 means that the code was looked at and found clean: no refusal
\* was part of what the last attempt said, it gave an answer without a usable
\* blocking finding, its last one where no stray text came between (extract_results
\* falls back to an earlier candidate), and the API has the result where it was
\* to be posted ("a refusal is prose, never JSON; it is exit 3, never clean",
\* agent/security.py).
CleanMeansScanned ==
  0 \in left =>
    /\ "refusal" \notin scan.said /\ scan.said \cap {"clean", "unusable"} # {}
    /\ "junk" \notin scan.said => scan.answer # "blocking"
    /\ setup.post => posted = "accepted"

\* The findings object is the model's final word, "last candidate first", and
\* "anything unparseable is rejected, never guessed at" (extract_results): no
\* run passes whose last answer had a usable blocking finding.
LastAnswerCounts == 0 \in left => scan.answer # "blocking"

\* The tokens of a result are all the tokens that were paid for, those of
\* refused and unparseable attempts included, and the attempts together stay
\* within the shared ceilings but for one token and one step per retry, what
\* the floors of agent/security.py let each further attempt spend.
ReportedIsPaid ==
  \A v \in verdict :
    /\ v.tokens = paid
    /\ paid <= TokenCeiling + MaxAttempts - 1
    /\ totals.steps <= StepCeiling + MaxAttempts - 1

\* The ceilings are shared: no result was paid for beyond them.
CeilingsAreShared == verdict # {} => paid <= TokenCeiling

\* Any critical finding fails the stage.
CriticalFails == 0 \in left => scan.answer # "unusable"

\* A ceiling on seconds ends a scan, whatever OpenCode does.
ScanEnds == (phase = "streaming") ~> (phase # "streaming")
=============================================================================
