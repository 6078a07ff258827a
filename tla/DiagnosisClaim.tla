--------------------------- MODULE DiagnosisClaim ---------------------------
(***************************************************************************)
(* The diagnosis of failed CI stages of one project: agents that Jenkins   *)
(* starts, possibly several for one failure (agent/execution.py,           *)
(* agent/diagnosis.py), the claim endpoint (app/selections/diagnosis.py),  *)
(* the report endpoint (app/ci/service.py), and the owner and operator who *)
(* re-pick the selection and disable runtimes meanwhile                    *)
(* (app/selections/service.py).                                            *)
(*                                                                         *)
(* Requests run on the server whether or not the agent still waits for the *)
(* answer.  A transaction that locks the project row first and commits     *)
(* once is one step.  An agent stands for one launch, hence also for the   *)
(* random id of the one claim it can ask for.                              *)
(***************************************************************************)
EXTENDS Naturals, Sequences, FiniteSets

CONSTANTS
  Agent,     \* launches of the agent
  Build,     \* Jenkins builds
  Stage,     \* upstream stages
  Runtime,   \* execution_runtime rows fit for the task
  MaxRev,    \* bound: execution revisions of the project
  None

ClaimRow == [by : Agent, rev : Nat]

ASSUME DiagnosisAssumption == None \notin Agent \cup ClaimRow /\ MaxRev \in Nat

VARIABLES
  revisions,   \* execution_revision rows; the project points to the last one
  enabled,     \* runtimes that are enabled and verified
  claims,      \* diagnosis_claim rows, by their unique (build, stage)
  runs,        \* ci_run rows, by their unique build
  failure,     \* the failure every agent was launched for
  pc,          \* what every agent is doing
  config,      \* the revision it fetched
  server,      \* its claim request on the server
  invoked      \* history: agents that called the model

vars == <<revisions, enabled, claims, runs, failure, pc, config, server, invoked>>
project == <<revisions, enabled>>

Failure == [build : Build, stage : Stage]
Revision == [stage : Stage, runtime : Runtime]
Current == Len(revisions)

Status == {"skipped", "completed", "failed"}
Report == [claim : Agent \cup {None}, failure : Failure, rev : Nat, status : Status]

AgentPhase == {"start", "configured", "claiming", "granted", "invoked",
               "skipped", "completed", "failed", "done"}
RequestPhase == {"none", "sent", "checked", "granted", "duplicate", "denied"}

TypeOK ==
  /\ revisions \in Seq(Revision) /\ revisions # <<>>
  /\ enabled \subseteq Runtime
  /\ claims \in [Failure -> ClaimRow \cup {None}]
  /\ runs \in [Build -> Report \cup {None}]
  /\ failure \in [Agent -> Failure]
  /\ pc \in [Agent -> AgentPhase]
  /\ config \in [Agent -> 0 .. Current]
  /\ server \in [Agent -> RequestPhase]
  /\ invoked \subseteq Agent

Init ==
  /\ revisions \in {<<r>> : r \in Revision}
  /\ enabled = Runtime
  /\ claims = [f \in Failure |-> None]
  /\ runs = [b \in Build |-> None]
  /\ failure \in [Agent -> Failure]
  /\ pc = [a \in Agent |-> "start"]
  /\ config = [a \in Agent |-> 0]
  /\ server = [a \in Agent |-> "none"]
  /\ invoked = {}

-----------------------------------------------------------------------------
(* Faulty variants of the operators below, for testing the properties.     *)

ClaimFreeOrStale(a) ==                      \* a re-pick makes room for a takeover
  claims[failure[a]] = None \/ claims[failure[a]].rev # config[a]
AfterAnswerOptimistic(a) ==                 \* an unanswered request counts as granted
  IF server[a] = "duplicate" THEN "done" ELSE "granted"
BindsClaimOfAnyRevision(rep) ==             \* the revision is not compared
  IF rep.claim = None THEN rep.status = "skipped"
  ELSE claims[rep.failure] # None /\ claims[rep.failure].by = rep.claim
BindsCurrentRevision(rep) ==                \* compared with current state
  /\ rep.rev = Current
  /\ IF rep.claim = None THEN rep.status = "skipped"
     ELSE claims[rep.failure] = [by |-> rep.claim, rev |-> rep.rev]

-----------------------------------------------------------------------------
(* Helpers                                                                 *)

Goto(a, phase) == pc' = [pc EXCEPT ![a] = phase]

CurrentRuntimeEnabled == revisions[Current].runtime \in enabled

(* claim(): config is current, runnable and about the stage that failed.   *)
Eligible(a) ==
  /\ config[a] = Current /\ CurrentRuntimeEnabled
  /\ failure[a].stage = revisions[Current].stage

(* INSERT ... ON CONFLICT DO NOTHING on (project_id, build_id, stage).     *)
ClaimFree(a) == claims[failure[a]] = None
NewClaim(a) == [by |-> a, rev |-> config[a]]

(* run_diagnosis after the claim request, answered or not: only the winner *)
(* goes on, a duplicate ends silently, anything else reports a skip.       *)
AfterAnswer(a) == CASE server[a] = "granted"   -> "granted"
                    [] server[a] = "duplicate" -> "done"
                    [] OTHER                   -> "skipped"

(* validate_claim                                                          *)
BindsClaim(rep) ==
  IF rep.claim = None THEN rep.status = "skipped"
  ELSE claims[rep.failure] = [by |-> rep.claim, rev |-> rep.rev]

(* A completed diagnosis is about the stage its revision configures        *)
(* (validate_result_configuration).                                        *)
FitsRevision(rep) ==
  /\ rep.rev \in 1 .. Current
  /\ rep.status = "completed" => rep.claim # None /\ rep.failure.stage = revisions[rep.rev].stage

ReportOf(a) ==
  [claim |-> IF pc[a] = "skipped" THEN None ELSE a,
   failure |-> failure[a], rev |-> config[a], status |-> pc[a]]

-----------------------------------------------------------------------------
(* The agent                                                               *)

(* GET agent-config: the pointer and the runtime are read under their row  *)
(* locks; a disabled runtime is a 422 and the agent exits.                 *)
Fetch(a) ==
  /\ pc[a] = "start"
  /\ IF CurrentRuntimeEnabled
     THEN config' = [config EXCEPT ![a] = Current] /\ Goto(a, "configured")
     ELSE Goto(a, "done") /\ UNCHANGED config
  /\ UNCHANGED <<project, claims, runs, failure, server, invoked>>

(* Another stage, or no usable log: a skip without a claim.                *)
Skip(a) ==
  /\ pc[a] = "configured"
  /\ Goto(a, "skipped")
  /\ UNCHANGED <<project, claims, runs, failure, config, server, invoked>>

RequestClaim(a) ==
  /\ pc[a] = "configured" /\ failure[a].stage = revisions[config[a]].stage
  /\ Goto(a, "claiming")
  /\ server' = [server EXCEPT ![a] = "sent"]
  /\ UNCHANGED <<project, claims, runs, failure, config, invoked>>

(* The answer, or a timeout while the request is still under way or lost.  *)
EndClaim(a) ==
  /\ pc[a] = "claiming"
  /\ Goto(a, AfterAnswer(a)) \/ Goto(a, "skipped")
  /\ UNCHANGED <<project, claims, runs, failure, config, server, invoked>>

(* run_opencode: it may fail before or after the model is called.          *)
Invoke(a) ==
  /\ pc[a] = "granted"
  /\ invoked' = invoked \cup {a}
  /\ Goto(a, "invoked")
  /\ UNCHANGED <<project, claims, runs, failure, config, server>>

Conclude(a) ==
  /\ \/ pc[a] = "granted" /\ Goto(a, "failed")
     \/ pc[a] = "invoked" /\ (Goto(a, "completed") \/ Goto(a, "failed"))
  /\ UNCHANGED <<project, claims, runs, failure, config, server, invoked>>

(* The launcher dies, or its report is lost.                               *)
Stop(a) ==
  /\ pc[a] # "done"
  /\ Goto(a, "done")
  /\ UNCHANGED <<project, claims, runs, failure, config, server, invoked>>

-----------------------------------------------------------------------------
(* The server                                                              *)

(* claim() first calls agent_config, which commits: the row locks are gone *)
(* when the claim is inserted.                                             *)
CheckClaim(a) ==
  /\ server[a] = "sent"
  /\ server' = [server EXCEPT ![a] = IF Eligible(a) THEN "checked" ELSE "denied"]
  /\ UNCHANGED <<project, claims, runs, failure, pc, config, invoked>>

InsertClaim(a) ==
  /\ server[a] = "checked"
  /\ IF ClaimFree(a)
     THEN /\ claims' = [claims EXCEPT ![failure[a]] = NewClaim(a)]
          /\ server' = [server EXCEPT ![a] = "granted"]
     ELSE /\ server' = [server EXCEPT ![a] = "duplicate"]
          /\ UNCHANGED claims
  /\ UNCHANGED <<project, runs, failure, pc, config, invoked>>

(* ingest_run, under the project lock: any report that fits is stored,     *)
(* unless the build has a run.                                             *)
Store(rep) ==
  runs' = IF runs[rep.failure.build] = None /\ FitsRevision(rep) /\ BindsClaim(rep)
          THEN [runs EXCEPT ![rep.failure.build] = rep] ELSE runs

Deliver(a) ==
  /\ pc[a] \in Status
  /\ Store(ReportOf(a))
  /\ Goto(a, "done")
  /\ UNCHANGED <<project, claims, failure, config, server, invoked>>

(* Any other report of the project's pipelines, such as an archived result *)
(* that is posted again by hand.                                           *)
DeliverOther(rep) ==
  /\ Store(rep)
  /\ UNCHANGED <<project, claims, failure, pc, config, server, invoked>>

-----------------------------------------------------------------------------
(* The owner re-picks or edits (update_project); the operator switches a   *)
(* runtime.                                                                *)

NewRevision(rev) ==
  /\ Current < MaxRev /\ rev.runtime \in enabled
  /\ revisions' = Append(revisions, rev)
  /\ UNCHANGED <<enabled, claims, runs, failure, pc, config, server, invoked>>

SwitchRuntime(rt) ==
  /\ enabled' = IF rt \in enabled THEN enabled \ {rt} ELSE enabled \cup {rt}
  /\ UNCHANGED <<revisions, claims, runs, failure, pc, config, server, invoked>>

Launch(a) == \/ Fetch(a) \/ Skip(a) \/ RequestClaim(a) \/ EndClaim(a)
             \/ Invoke(a) \/ Conclude(a) \/ Stop(a) \/ Deliver(a)

Serve(a) == CheckClaim(a) \/ InsertClaim(a)

OtherReport == [claim : Agent \cup {None}, failure : Failure, rev : 1 .. Current, status : Status]

Next == \/ \E a \in Agent : Launch(a) \/ Serve(a)
        \/ \E rep \in OtherReport : DeliverOther(rep)
        \/ \E rev \in Revision : NewRevision(rev)
        \/ \E rt \in Runtime : SwitchRuntime(rt)

Spec == Init /\ [][Next]_vars

-----------------------------------------------------------------------------
(* Properties                                                              *)

(* A failure causes at most one model invocation, whatever is delivered    *)
(* twice, lost, killed, re-picked or disabled (run_diagnosis, claim).      *)
OneInvocation ==
  \A a, b \in invoked : failure[a] = failure[b] => a = b

(* Whoever may still call the model, or did, holds the durable claim of    *)
(* its failure, for the very revision that it executes: the commit comes   *)
(* before the authority.                                                   *)
AuthorityIsClaimed ==
  \A a \in Agent : pc[a] = "granted" \/ a \in invoked => claims[failure[a]] = NewClaim(a)

(* A stored run that names a claim is about the failure and the revision   *)
(* that were claimed, and one that names none says it was skipped; so a    *)
(* build's usage is never booked on a revision that did not run            *)
(* (ingest_run, validate_claim).                                           *)
RunsBindTheirClaim ==
  \A b \in Build : runs[b] # None =>
     /\ runs[b].failure.build = b
     /\ IF runs[b].claim = None THEN runs[b].status = "skipped"
        ELSE /\ claims[runs[b].failure] = [by |-> runs[b].claim, rev |-> runs[b].rev]
             /\ failure[runs[b].claim] = runs[b].failure

(* Whatever an agent has to report stays acceptable until it is delivered: *)
(* an edit, re-pick or disabled runtime never voids a finished diagnosis.  *)
ReportsStayValid ==
  \A a \in Agent : pc[a] \in Status => FitsRevision(ReportOf(a)) /\ BindsClaim(ReportOf(a))

(* A claim is granted only for the revision that is current and runnable   *)
(* when it is granted, as the refusal of claim() words it.                 *)
ClaimIsCurrent ==
  [][ \A f \in Failure : claims'[f] # claims[f] =>
        claims'[f].rev = Current /\ CurrentRuntimeEnabled ]_vars

(* Claims and invocations are those of AtMostOnce.                         *)
Claimed == {f \in Failure : claims[f] # None}
Invokers == [f \in Failure |-> {a \in invoked : failure[a] = f}]

Promise == INSTANCE AtMostOnce WITH claimed <- Claimed, invokers <- Invokers

ImplementsPromise == Promise!AbsSpec

=============================================================================
