------------------------------ MODULE CiToken ------------------------------
(***************************************************************************)
(* The CI token of one project, and what it lets in: the requests that     *)
(* mint, rotate and present it (app/ci/service.py, app/api/execution.py,   *)
(* app/projects/jenkins_service.py, app/auth/deps.py) while the project    *)
(* moves from the legacy to the explicit execution contract.               *)
(*                                                                         *)
(* A request is one HTTP request with its database session: a row it has   *)
(* loaded stays as loaded until it is refreshed or the session commits,    *)
(* and SELECT ... FOR UPDATE on the project row is the only lock.  A hash  *)
(* is represented by the token it is the hash of.                          *)
(***************************************************************************)
EXTENDS Naturals, FiniteSets

CONSTANTS
  Request,   \* concurrent requests
  Token,     \* bound: tokens that can be minted
  Build,     \* Jenkins build ids that report
  None       \* SQL NULL, and no holder of the lock

ASSUME TokenAssumption == None \notin Request \cup Token

VARIABLES
  explicit,    \* project.execution_revision_id is set
  runtimeOn,   \* the legacy option's agent_runtime_config row is enabled
  connected,   \* there is a jenkins_connection row
  hash,        \* its ci_token_hash
  runs,        \* the ci_run row of every build
  lock,        \* holder of the project row lock
  pc, op,      \* per request: where it is, and which endpoint it serves
  seen,        \* ... the connection as its session loaded it
  held,        \* ... the token it minted, or presented
  report,      \* ... the run it reports
  minted,      \* history: every token ever generated
  shown        \* history: the tokens some owner got in a response

vars == <<explicit, runtimeOn, connected, hash, runs, lock,
          pc, op, seen, held, report, minted, shown>>
session == <<pc, op, seen, held, report>>

TokenOrNull == Token \cup {None}

(* What a session knows of the connection row.                             *)
Loaded == [found : BOOLEAN, hash : TokenOrNull]
Unloaded == [found |-> FALSE, hash |-> None]

(* A reported run: its build, and whether it names an execution revision.  *)
RunReport == [build : Build, revision : BOOLEAN]

Op == {"none", "connect", "setup", "rotate", "issue", "reissue", "ingest"}
Phase == {"idle", "loaded", "locked", "minted", "unminted", "authenticated", "inserting"}

TypeOK ==
  /\ explicit \in BOOLEAN /\ runtimeOn \in BOOLEAN /\ connected \in BOOLEAN
  /\ hash \in TokenOrNull
  /\ runs \in [Build -> {"none", "legacy", "revision"}]
  /\ lock \in Request \cup {None}
  /\ pc \in [Request -> Phase]
  /\ op \in [Request -> Op]
  /\ seen \in [Request -> Loaded]
  /\ held \in [Request -> TokenOrNull]
  /\ report \in [Request -> RunReport \cup {None}]
  /\ minted \subseteq Token /\ shown \subseteq Token

Init ==
  /\ explicit \in BOOLEAN /\ runtimeOn \in BOOLEAN
  /\ connected = FALSE /\ hash = None
  /\ runs = [b \in Build |-> "none"]
  /\ lock = None
  /\ pc = [r \in Request |-> "idle"]
  /\ op = [r \in Request |-> "none"]
  /\ seen = [r \in Request |-> Unloaded]
  /\ held = [r \in Request |-> None]
  /\ report = [r \in Request |-> None]
  /\ minted = {} /\ shown = {}

-----------------------------------------------------------------------------
(* Faulty variants of the operators below, for testing the properties.     *)

LocksNothing(r) == UNCHANGED lock           \* FOR UPDATE forgotten
ConnectedHashAsLoaded(r) == seen[r].hash    \* the whole row is written back
LegacyOpenAlways == TRUE                    \* contract of the project not checked

-----------------------------------------------------------------------------
(* Helpers                                                                 *)

LockFree(r) == lock = None
Locks(r) == LockFree(r) /\ lock' = r
Unlock(r) == lock' = IF lock = r THEN None ELSE lock

(* Legacy token endpoints and runs without a revision are for projects     *)
(* that have no execution revision.                                        *)
LegacyOpen == ~explicit

Connection == [found |-> connected, hash |-> hash]

(* Mint once, unless the endpoint rotates: as the session loaded the row.  *)
Mints(r) == op[r] \in {"rotate", "reissue"} \/ seen[r].hash = None

(* connect_jenkins assigns base_url, job_name and status only.             *)
ConnectedHash(r) == hash

EndRequest(r) ==
  /\ pc' = [pc EXCEPT ![r] = "idle"]
  /\ op' = [op EXCEPT ![r] = "none"]
  /\ seen' = [seen EXCEPT ![r] = Unloaded]
  /\ held' = [held EXCEPT ![r] = None]
  /\ report' = [report EXCEPT ![r] = None]

-----------------------------------------------------------------------------
(* connect_jenkins: no lock, the row is looked up and then written         *)

BeginConnect(r) ==
  /\ pc[r] = "idle"
  /\ pc' = [pc EXCEPT ![r] = "loaded"]
  /\ op' = [op EXCEPT ![r] = "connect"]
  /\ seen' = [seen EXCEPT ![r] = Connection]
  /\ UNCHANGED <<explicit, runtimeOn, connected, hash, runs, lock,
                 held, report, minted, shown>>

(* A second INSERT for the project fails on its unique constraint.         *)
Connect(r) ==
  /\ pc[r] = "loaded" /\ op[r] = "connect"
  /\ IF ~seen[r].found /\ connected
     THEN UNCHANGED <<connected, hash>>
     ELSE connected' = TRUE /\ hash' = ConnectedHash(r)
  /\ EndRequest(r)
  /\ UNCHANGED <<explicit, runtimeOn, runs, lock, minted, shown>>

-----------------------------------------------------------------------------
(* ci_setup and rotate_ci_token: the connection is loaded before the       *)
(* project row is locked and refreshed                                     *)

BeginLegacy(r, o) ==
  /\ pc[r] = "idle" /\ o \in {"setup", "rotate"} /\ connected
  /\ pc' = [pc EXCEPT ![r] = "loaded"]
  /\ op' = [op EXCEPT ![r] = o]
  /\ seen' = [seen EXCEPT ![r] = Connection]
  /\ UNCHANGED <<explicit, runtimeOn, connected, hash, runs, lock,
                 held, report, minted, shown>>

LockLegacy(r) ==
  /\ pc[r] = "loaded" /\ op[r] \in {"setup", "rotate"}
  /\ \/ /\ LegacyOpen /\ Locks(r)
        /\ pc' = [pc EXCEPT ![r] = "locked"]
        /\ UNCHANGED <<op, seen, held, report>>
     \/ /\ ~LegacyOpen /\ LockFree(r)      \* 422
        /\ EndRequest(r) /\ UNCHANGED lock
  /\ UNCHANGED <<explicit, runtimeOn, connected, hash, runs, minted, shown>>

-----------------------------------------------------------------------------
(* _issue_token of the explicit contract: the lock comes first             *)

LockExplicit(r, o) ==
  /\ pc[r] = "idle" /\ o \in {"issue", "reissue"} /\ explicit
  /\ Locks(r)
  /\ pc' = [pc EXCEPT ![r] = "locked"]
  /\ op' = [op EXCEPT ![r] = o]
  /\ seen' = [seen EXCEPT ![r] = Connection]
  /\ UNCHANGED <<explicit, runtimeOn, connected, hash, runs,
                 held, report, minted, shown>>

(* A missing connection is created with the token; the INSERT fails when   *)
(* connect_jenkins was faster.                                             *)
MintToken(r) ==
  /\ pc[r] = "locked" /\ Mints(r)
  /\ \/ /\ seen[r].found \/ ~connected
        /\ \E t \in Token \ minted :
             /\ hash' = t
             /\ minted' = minted \cup {t}
             /\ held' = [held EXCEPT ![r] = t]
        /\ connected' = TRUE
        /\ pc' = [pc EXCEPT ![r] = "minted"]
        /\ UNCHANGED <<op, seen, report>>
     \/ /\ ~seen[r].found /\ connected
        /\ EndRequest(r)
        /\ UNCHANGED <<hash, minted, connected>>
  /\ Unlock(r)
  /\ UNCHANGED <<explicit, runtimeOn, runs, shown>>

KeepToken(r) ==
  /\ pc[r] = "locked" /\ ~Mints(r)
  /\ pc' = [pc EXCEPT ![r] = "unminted"]
  /\ IF op[r] = "setup" THEN UNCHANGED lock ELSE Unlock(r)   \* only _issue_token commits
  /\ UNCHANGED <<explicit, runtimeOn, connected, hash, runs,
                 op, seen, held, report, minted, shown>>

(* The legacy endpoints build the whole setup answer after the commit:     *)
(* it needs an enabled runtime and a project that is still legacy.         *)
Answerable(r) == op[r] \in {"issue", "reissue"} \/ (runtimeOn /\ LegacyOpen)

Answer(r) ==
  /\ pc[r] \in {"minted", "unminted"}
  /\ shown' = IF pc[r] = "minted" /\ Answerable(r) THEN shown \cup {held[r]} ELSE shown
  /\ EndRequest(r) /\ Unlock(r)
  /\ UNCHANGED <<explicit, runtimeOn, connected, hash, runs, minted>>

-----------------------------------------------------------------------------
(* Agents: require_project_token, then ingest_run under the project lock   *)

Authenticate(r, t, rep) ==
  /\ pc[r] = "idle" /\ t \in shown /\ t = hash
  /\ rep.revision => explicit
  /\ pc' = [pc EXCEPT ![r] = "authenticated"]
  /\ op' = [op EXCEPT ![r] = "ingest"]
  /\ held' = [held EXCEPT ![r] = t]
  /\ report' = [report EXCEPT ![r] = rep]
  /\ UNCHANGED <<explicit, runtimeOn, connected, hash, runs, lock, seen, minted, shown>>

(* A known build is a 409, a legacy report to an explicit project a 422.   *)
Accepts(rep) == runs[rep.build] = "none" /\ (rep.revision \/ LegacyOpen)

CheckReport(r) ==
  /\ pc[r] = "authenticated"
  /\ \/ /\ Accepts(report[r]) /\ Locks(r)
        /\ pc' = [pc EXCEPT ![r] = "inserting"]
        /\ UNCHANGED <<op, seen, held, report>>
     \/ /\ ~Accepts(report[r]) /\ LockFree(r)
        /\ EndRequest(r) /\ UNCHANGED lock
  /\ UNCHANGED <<explicit, runtimeOn, connected, hash, runs, minted, shown>>

InsertRun(r) ==
  /\ pc[r] = "inserting"
  /\ runs' = [runs EXCEPT ![report[r].build] =
                IF @ # "none" THEN @
                ELSE IF report[r].revision THEN "revision" ELSE "legacy"]
  /\ EndRequest(r) /\ Unlock(r)
  /\ UNCHANGED <<explicit, runtimeOn, connected, hash, minted, shown>>

-----------------------------------------------------------------------------
(* Around the token: update_project with a first explicit selection, and   *)
(* the operator who enables or disables the legacy runtime                 *)

AdoptExplicit ==
  /\ ~explicit /\ lock = None
  /\ explicit' = TRUE
  /\ UNCHANGED <<runtimeOn, connected, hash, runs, lock, session, minted, shown>>

SwitchRuntime ==
  /\ runtimeOn' = ~runtimeOn
  /\ UNCHANGED <<explicit, connected, hash, runs, lock, session, minted, shown>>

Serve(r) ==
  \/ BeginConnect(r) \/ Connect(r)
  \/ \E o \in Op : BeginLegacy(r, o) \/ LockExplicit(r, o)
  \/ LockLegacy(r) \/ MintToken(r) \/ KeepToken(r) \/ Answer(r)
  \/ \E t \in Token, rep \in RunReport : Authenticate(r, t, rep)
  \/ CheckReport(r) \/ InsertRun(r)

Next == (\E r \in Request : Serve(r)) \/ AdoptExplicit \/ SwitchRuntime

Spec == Init /\ [][Next]_vars

-----------------------------------------------------------------------------
(* Properties                                                              *)

(* What ingest_run checked still holds when it inserts: the build has no   *)
(* run yet, so a duplicate report is a 409 and never an integrity error,   *)
(* and a run without a revision enters only while the project is legacy,   *)
(* although tokens are checked, and contracts change, without the lock.    *)
ChecksHoldAtInsert ==
  \A r \in Request : pc[r] = "inserting" => Accepts(report[r])

(* Once the project is explicit, a token in use is replaced only by the    *)
(* explicit rotate: neither POST ci-token, nor a legacy setup or rotation  *)
(* that was under way during the transition, voids it.                     *)
ExplicitTokenIsStable ==
  [][ explicit /\ hash # None /\ hash' # hash =>
        \E r \in Request : pc[r] = "locked" /\ op[r] = "reissue" ]_vars

(* Reconfiguring Jenkins never takes the token away, also when the PUT     *)
(* read the row before the token was minted (connect_jenkins).             *)
TokenSurvivesReconnect == [][hash # None => hash' # None]_vars

(* ci_setup issues a token only if none exists yet: a token that exists is *)
(* replaced by rotation alone.                                             *)
MintOnce ==
  [][ hash # None /\ hash' # hash =>
        \E r \in Request : pc[r] = "locked" /\ op[r] \in {"rotate", "reissue"} ]_vars

(* The plaintext is returned on the fetch that mints it: a token in force  *)
(* was shown, or its request is still about to answer.                     *)
MintedTokenIsShown ==
  hash # None => hash \in shown \/ \E r \in Request : pc[r] = "minted" /\ held[r] = hash

=============================================================================
