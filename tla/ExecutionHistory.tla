-------------------------- MODULE ExecutionHistory --------------------------
(***************************************************************************)
(* One project, its selections, revisions and runs, and the verdicts on    *)
(* their findings: app/projects/service.py, app/selections/service.py,     *)
(* app/quality/service.py and the constraints of app/models/execution.py.  *)
(*                                                                         *)
(* An edit or a fetch locks the project row, then the runtime row, and     *)
(* commits; the operator switches runtimes at any time.  Feedback locks    *)
(* the row of the run, reads the verdicts, and commits its own.  The       *)
(* steps of a session are separate, so that sessions meet between them.    *)
(***************************************************************************)
EXTENDS Integers, Sequences, FiniteSets

CONSTANTS
  Session,       \* database sessions on all replicas
  Runtime,       \* rows of execution_runtime
  Profile,       \* capabilities of the task registry
  ProfileOf,     \* the capability of every runtime
  TaskOf,        \* the task of every capability
  NeedsConfig,   \* capabilities that refuse the default task configuration
  Config,        \* task configurations that an owner may send
  Fits,          \* which configuration is valid for which capability
  Option,        \* options of the legacy recommender
  OptionTask,    \* the task an option was ranked on
  Finding,       \* findings of a run
  None, Default, \* absent, and the default configuration, which an explicit null asks for
  Threshold,     \* quality_threshold, in hundredths
  MaxRevisions, MaxServed, MaxRuns  \* bounds

ASSUME HistoryAssumption ==
  /\ ProfileOf \in [Runtime -> Profile] /\ NeedsConfig \subseteq Profile
  /\ Fits \subseteq Config \X Profile /\ DOMAIN TaskOf = Profile /\ DOMAIN OptionTask = Option
  /\ None \notin Session \cup Runtime \cup Config \cup Option
  /\ Default \notin Config \cup {None}
  /\ Threshold \in 0 .. 100
  /\ MaxRevisions \in Nat /\ MaxServed \in Nat /\ MaxRuns \in Nat

VARIABLES
  project,      \* the row of table project
  selections,   \* table model_selection
  revisions,    \* table execution_revision
  runnable,     \* runtimes that are enabled and verified
  served,       \* history: the revisions handed to agents
  runs,         \* table ci_run with the verdicts on its findings
  projectLock,  \* who has the project row
  runtimeLock,  \* who has every runtime row
  runLock,      \* who has the row of every run
  session       \* what every session is doing

history == <<project, selections, revisions>>
locks == <<projectLock, runtimeLock, runLock>>
vars == <<history, runnable, served, runs, locks, session>>

RunId == 1 .. MaxRuns
Sendable == Config \cup {Default, None}     \* a configuration, null, or nothing
Verdict == {"none", "accept", "reject"}
Quality == {"unrated", "ok", "risk"}

Idle == [phase |-> "idle", op |-> "none", runtime |-> None, config |-> None, option |-> None,
         base |-> 0, run |-> 0, finding |-> None, verdict |-> "none", quality |-> "unrated"]

TypeOK ==
  /\ project \in [state : {"unborn", "alive", "deleted"}, revision : 0 .. MaxRevisions,
                  option : Option \cup {None}, task : STRING]
  /\ \A i \in DOMAIN selections :
       selections[i] \in [runtime : Runtime, option : Option \cup {None}]
  /\ \A i \in DOMAIN revisions :
       revisions[i] \in [selection : DOMAIN selections, profile : Profile,
                         config : Config \cup {Default}, given : Sendable]
  /\ runnable \in [Runtime -> BOOLEAN]
  /\ \A i \in DOMAIN served : served[i] \in 1 .. MaxRevisions
  /\ \A i \in DOMAIN runs :
       runs[i] \in [revision : 0 .. MaxRevisions, verdict : [Finding -> Verdict], quality : Quality]
  /\ projectLock \in Session \cup {None}
  /\ runtimeLock \in [Runtime -> Session \cup {None}]
  /\ runLock \in [RunId -> Session \cup {None}]
  /\ DOMAIN session = Session

Init ==
  /\ project = [state |-> "unborn", revision |-> 0, option |-> None, task |-> "none"]
  /\ selections = <<>> /\ revisions = <<>> /\ served = <<>> /\ runs = <<>>
  /\ runnable = [r \in Runtime |-> TRUE]
  /\ projectLock = None
  /\ runtimeLock = [r \in Runtime |-> None]
  /\ runLock = [i \in RunId |-> None]
  /\ session = [s \in Session |-> Idle]

-----------------------------------------------------------------------------
(* Faulty variants of the operators below, for testing the properties.     *)

RuntimeUnlocked(s, r) == runtimeLock
EffectiveNullKeeps(c) ==            \* null is taken for left out
  IF c.config \in Config THEN c.config
  ELSE IF c.base # 0 /\ revisions[c.base].profile = ProfileOf[c.runtime]
       THEN revisions[c.base].config ELSE Default
LegacyAlways(c) == TRUE
RunShared(i) == TRUE

-----------------------------------------------------------------------------
(* Rules                                                                   *)

(* configure: the default suits read-only named tasks only.                *)
Valid(k, p) == IF k = Default THEN p \notin NeedsConfig ELSE <<k, p>> \in Fits

(* update_project: instructions survive a re-pick of the same capability,  *)
(* or an edit, that leaves them out (model_fields_set).                    *)
Carries(c) ==
  c.config = None /\ c.base # 0 /\ revisions[c.base].profile = ProfileOf[c.runtime]

(* What is sent counts, and a null resets to the default.                  *)
Effective(c) ==
  IF c.config # None THEN c.config
  ELSE IF Carries(c) THEN revisions[c.base].config ELSE Default

(* acceptance_rate and recompute_quality: of the rated findings only.      *)
QualityOf(verdict) ==
  LET rated == {f \in Finding : verdict[f] # "none"}
      accepted == {f \in Finding : verdict[f] = "accept"}
  IN  IF rated = {} THEN "unrated"
      ELSE IF 100 * Cardinality(accepted) >= Threshold * Cardinality(rated) THEN "ok" ELSE "risk"

LegacyOpen(c) == c.base = 0
RunFree(i) == runLock[i] = None
RuntimeLocked(s, r) == [runtimeLock EXCEPT ![r] = s]

EndSession(s) ==
  /\ session' = [session EXCEPT ![s] = Idle]
  /\ projectLock' = IF projectLock = s THEN None ELSE projectLock
  /\ runtimeLock' = [r \in Runtime |-> IF runtimeLock[r] = s THEN None ELSE runtimeLock[r]]
  /\ runLock' = [i \in RunId |-> IF runLock[i] = s THEN None ELSE runLock[i]]

CurrentRuntime == selections[revisions[project.revision].selection].runtime

-----------------------------------------------------------------------------
(* Projects                                                                *)

(* create_project of the legacy service: one insert.                       *)
CreateLegacy(o) ==
  /\ project.state = "unborn" /\ \A s \in Session : session[s].op # "create"
  /\ project' = [state |-> "alive", revision |-> 0, option |-> o, task |-> OptionTask[o]]
  /\ UNCHANGED <<selections, revisions, runnable, served, runs, locks, session>>

(* create_project of the explicit service: nobody sees the row yet, and a  *)
(* configuration that is null or left out is the default.                  *)
BeginCreate(s, r, k) ==
  /\ project.state = "unborn" /\ \A q \in Session : session[q].op # "create"
  /\ session[s] = Idle
  /\ session' = [session EXCEPT ![s] =
       [Idle EXCEPT !.phase = "locked", !.op = "create", !.runtime = r, !.config = k]]
  /\ UNCHANGED <<history, runnable, served, runs, locks>>

LockProject(s, c) ==
  /\ session[s] = Idle /\ project.state = "alive" /\ projectLock = None
  /\ projectLock' = s
  /\ session' = [session EXCEPT ![s] = [c EXCEPT !.phase = "locked", !.base = project.revision]]
  /\ UNCHANGED <<history, runnable, served, runs, runtimeLock, runLock>>

(* owned_project, and what an edit or a fetch asks of the loaded row.      *)
BeginPick(s, r, k) ==
  /\ Len(revisions) < MaxRevisions
  /\ LockProject(s, [Idle EXCEPT !.op = "pick", !.runtime = r, !.config = k])

BeginEdit(s, op, k) ==
  /\ project.revision # 0 /\ (op = "configure" <=> k # None)
  /\ op = "rename" \/ Len(revisions) < MaxRevisions
  /\ LockProject(s, [Idle EXCEPT !.op = op, !.runtime = CurrentRuntime, !.config = k])

BeginFetch(s) ==
  /\ project.revision # 0 /\ Len(served) < MaxServed
  /\ LockProject(s, [Idle EXCEPT !.op = "fetch", !.runtime = CurrentRuntime])

BeginLegacy(s, o) == LockProject(s, [Idle EXCEPT !.op = "legacy", !.option = o])

(* update_project of the legacy service; an explicit project is a 422.     *)
SaveLegacy(s) ==
  LET c == session[s]
  IN  /\ c.phase = "locked" /\ c.op = "legacy"
      /\ project' = IF LegacyOpen(c)
                    THEN [project EXCEPT !.option = c.option, !.task = OptionTask[c.option]]
                    ELSE project
      /\ EndSession(s)
      /\ UNCHANGED <<selections, revisions, runnable, served, runs>>

(* require_runtime: FOR UPDATE of the runtime, or a 422.                   *)
RequireRuntime(s) ==
  LET r == session[s].runtime
  IN  /\ session[s].phase = "locked" /\ session[s].op # "legacy"
      /\ runtimeLock[r] = None
      /\ IF runnable[r]
         THEN /\ runtimeLock' = RuntimeLocked(s, r)
              /\ session' = [session EXCEPT ![s].phase = "armed"]
              /\ UNCHANGED <<projectLock, runLock>>
         ELSE EndSession(s)
      /\ UNCHANGED <<history, runnable, served, runs>>

(* save_selection and new_revision, to the commit.                         *)
Save(s) ==
  LET c == session[s]
      picks == c.op \in {"create", "pick"}
      revises == c.op # "rename"
      profile == ProfileOf[c.runtime]
      selection == IF picks THEN Len(selections) + 1 ELSE revisions[c.base].selection
  IN  /\ c.phase = "armed" /\ c.op # "fetch"
      /\ IF revises /\ Valid(Effective(c), profile)
         THEN /\ selections' = IF picks
                   THEN Append(selections, [runtime |-> c.runtime, option |-> project.option])
                   ELSE selections
              /\ revisions' = Append(revisions,
                   [selection |-> selection, profile |-> profile,
                    config |-> Effective(c), given |-> c.config])
              /\ project' = [state |-> "alive", revision |-> Len(revisions) + 1,
                             option |-> None, task |-> TaskOf[profile]]
         ELSE UNCHANGED history
      /\ EndSession(s)
      /\ UNCHANGED <<runnable, served, runs>>

(* agent_config: the answer leaves with the commit.                        *)
Serve(s) ==
  /\ session[s].phase = "armed" /\ session[s].op = "fetch"
  /\ served' = Append(served, session[s].base)
  /\ EndSession(s)
  /\ UNCHANGED <<history, runnable, runs>>

(* delete_project: the foreign keys cascade, waiting for rows in use.      *)
DeleteProject ==
  /\ project.state = "alive" /\ projectLock = None /\ \A s \in Session : session[s].run = 0
  /\ project' = [project EXCEPT !.state = "deleted", !.revision = 0, !.option = None]
  /\ selections' = <<>> /\ revisions' = <<>> /\ runs' = <<>>
  /\ UNCHANGED <<runnable, served, locks, session>>

(* The operator enables, disables or retires a runtime.                    *)
SwitchRuntime(r) ==
  /\ runtimeLock[r] = None
  /\ runnable' = [runnable EXCEPT ![r] = ~@]
  /\ UNCHANGED <<history, served, runs, locks, session>>

-----------------------------------------------------------------------------
(* Runs and feedback                                                       *)

(* ingest_run: an old revision is accepted, none only in a legacy project. *)
IngestRun(rev) ==
  /\ project.state = "alive" /\ projectLock = None /\ Len(runs) < MaxRuns
  /\ rev = 0 => project.revision = 0
  /\ runs' = Append(runs, [revision |-> rev, quality |-> "unrated",
                           verdict |-> [f \in Finding |-> "none"]])
  /\ UNCHANGED <<history, runnable, served, locks, session>>

(* submit_feedback: the row of the run first.                              *)
BeginFeedback(s, i, f, v) ==
  /\ session[s] = Idle /\ RunFree(i)
  /\ runLock' = [runLock EXCEPT ![i] = s]
  /\ session' = [session EXCEPT ![s] =
       [Idle EXCEPT !.phase = "rating", !.run = i, !.finding = f, !.verdict = v]]
  /\ UNCHANGED <<history, runnable, served, runs, projectLock, runtimeLock>>

(* The upsert, visible to its own session, and the verdicts it then reads. *)
Recompute(s) ==
  LET c == session[s]
      read == [runs[c.run].verdict EXCEPT ![c.finding] = c.verdict]
  IN  /\ c.phase = "rating"
      /\ session' = [session EXCEPT ![s].phase = "rated", ![s].quality = QualityOf(read)]
      /\ UNCHANGED <<history, runnable, served, runs, locks>>

CommitFeedback(s) ==
  LET c == session[s]
  IN  /\ c.phase = "rated"
      /\ runs' = [runs EXCEPT ![c.run].verdict[c.finding] = c.verdict,
                              ![c.run].quality = c.quality]
      /\ EndSession(s)
      /\ UNCHANGED <<history, runnable, served>>

(* A lost connection or a killed replica.                                  *)
Abort(s) ==
  /\ session[s] # Idle
  /\ EndSession(s)
  /\ UNCHANGED <<history, runnable, served, runs>>

-----------------------------------------------------------------------------
Next ==
  \/ DeleteProject
  \/ \E o \in Option : CreateLegacy(o)
  \/ \E r \in Runtime : SwitchRuntime(r)
  \/ \E rev \in 0 .. Len(revisions) : IngestRun(rev)
  \/ \E s \in Session :
       \/ SaveLegacy(s) \/ RequireRuntime(s) \/ Save(s) \/ Serve(s) \/ BeginFetch(s)
       \/ Recompute(s) \/ CommitFeedback(s) \/ Abort(s)
       \/ \E o \in Option : BeginLegacy(s, o)
       \/ \E r \in Runtime, k \in Config \cup {None} : BeginCreate(s, r, k)
       \/ \E r \in Runtime, k \in Sendable : BeginPick(s, r, k)
       \/ \E op \in {"configure", "prefs", "rename"}, k \in Sendable : BeginEdit(s, op, k)
       \/ \E i \in DOMAIN runs, f \in Finding, v \in Verdict \ {"none"} : BeginFeedback(s, i, f, v)

Spec == Init /\ [][Next]_vars

-----------------------------------------------------------------------------
(* Properties                                                              *)

(* Nothing is saved or handed out for a runtime that is not enabled and    *)
(* verified at the commit, whenever the operator switches it               *)
(* (agent_config: the runtime lock serializes concurrent disabling).       *)
CommitsWhileRunnable ==
  [][/\ Len(revisions') > Len(revisions) =>
          runnable[selections'[revisions'[Len(revisions')].selection].runtime]
     /\ Len(served') > Len(served) =>
          runnable[selections[revisions[served'[Len(served')]].selection].runtime]]_vars

(* The task configuration of a revision is the one sent with it, the       *)
(* default where a null was sent, and with nothing sent the one in force   *)
(* just before for the same capability or else the default: what was       *)
(* written for one capability never reaches another unasked, and what was  *)
(* reset never comes back (update_project).                                *)
ConfigIsChosen ==
  \A i \in DOMAIN revisions :
    \/ revisions[i].config = revisions[i].given
    \/ /\ revisions[i].given = None
       /\ revisions[i].config =
            IF i > 1 /\ revisions[i - 1].profile = revisions[i].profile
            THEN revisions[i - 1].config ELSE Default

(* Whatever legacy and explicit edits meet, a project follows one of the   *)
(* two contracts, its newest pick, and has the task of that pick.          *)
ProjectIsItsPick ==
  project.state = "alive" =>
    IF project.revision = 0
    THEN /\ selections = <<>> /\ project.option # None
         /\ project.task = OptionTask[project.option]
    ELSE /\ project.option = None /\ project.revision = Len(revisions)
         /\ revisions[project.revision].selection = Len(selections)
         /\ project.task = TaskOf[revisions[project.revision].profile]

(* The quality gate of a run is the one of all verdicts on its findings,   *)
(* also after feedback on several findings at once (submit_feedback).      *)
QualityIsRecomputed ==
  \A i \in DOMAIN runs : runs[i].quality = QualityOf(runs[i].verdict)

=============================================================================
