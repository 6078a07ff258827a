-------------------------- MODULE CatalogImport --------------------------
(***************************************************************************)
(* The import of one catalog source: app/catalog/imports/pipeline.py and   *)
(* refresh.py.  Processes (scheduled refreshes, manual imports, operator   *)
(* commands, on any host) contend for the source's PostgreSQL advisory     *)
(* lock; the holder loads the state row, talks to the upstream server,     *)
(* and commits a promotion, an unchanged check or a recorded failure.      *)
(*                                                                         *)
(* A snapshot is identified by its content hash, so a snapshot is a member *)
(* of Content.  NULL timestamps are Never = 0; hosts' clocks are positive. *)
(* A validator (ETag or Last-Modified) is represented by the body it names.*)
(***************************************************************************)
EXTENDS Integers, FiniteSets

CONSTANTS
  Worker,        \* processes that run checks or operator commands
  Content,       \* artifacts and manifests that can be presented for import
  Invalid,       \* the ones that validation refuses
  Holdable,      \* bound: the snapshots that selections pin
  Report,        \* bodies of the upstream report page
  IsReport,      \* the source is a reviewed report, not a structured feed
  StrictServer,  \* the server answers 304 only to a matching validator
  MaxTime,       \* bound: the clock stops here
  Skew,          \* a host's clock differs from the true one by at most this
  MissedCheck,   \* MISSED_CHECK_SECONDS
  None           \* SQL NULL

ASSUME ImportAssumption ==
  /\ Invalid \subseteq Content /\ Holdable \subseteq Content
  /\ IsReport \in BOOLEAN /\ StrictServer \in BOOLEAN
  /\ MaxTime \in Nat /\ Skew \in Nat /\ MissedCheck \in Nat
  /\ None \notin Worker \cup Content \cup Report

Never == 0
Body == IF IsReport THEN Report ELSE Content

VARIABLES
  clock,      \* true time
  upstream,   \* the body the upstream server serves now
  lock,       \* holder of the source's session advisory lock, or None
  pc,         \* what each process is doing
  kind,       \* the call it runs: import_bytes, import_source, refresh_source
  now,        \* the check time it read from its host
  view,       \* the state row as its database session loaded it
  resp,       \* the upstream response it holds
  state,      \* the catalog_import_state row
  lifecycle,  \* catalog_source_snapshot with its catalog_snapshot_lifecycle
  artifacts,  \* catalog_report_artifact
  audit,      \* latest review_report row of catalog_operator_action
  servedAt    \* history: when the last committed refresh got its response

vars == <<clock, upstream, lock, pc, kind, now, view, resp,
          state, lifecycle, artifacts, audit, servedAt>>
jobVars == <<pc, kind, now, view, resp>>
evidence == <<lifecycle, artifacts, audit>>

Time == Nat
ContentOrNull == Content \cup {None}
ReportOrNull == Report \cup {None}

(* failing and rFailing stand for failure_count > 0 and                    *)
(* refresh_failure_count > 0: only zero is ever told apart.                *)
StateRow ==
  [active : ContentOrNull, reviewed : ReportOrNull, report : ReportOrNull,
   content : ContentOrNull, etag : ContentOrNull, reportEtag : ReportOrNull,
   checked : Time, success : Time, failing : BOOLEAN,
   rChecked : Time, rSuccess : Time, rFailing : BOOLEAN]

NullState ==
  [active |-> None, reviewed |-> None, report |-> None,
   content |-> None, etag |-> None, reportEtag |-> None,
   checked |-> Never, success |-> Never, failing |-> FALSE,
   rChecked |-> Never, rSuccess |-> Never, rFailing |-> FALSE]

(* activated = Never: there is no such snapshot, and no lifecycle row.     *)
LifecycleRow == [activated : Time, superseded : Time, held : BOOLEAN]
NoLifecycle == [activated |-> Never, superseded |-> Never, held |-> FALSE]

Response == [status : {"none", "200", "304"}, body : Content \cup ReportOrNull,
             etag : Content \cup ReportOrNull, at : Time]
NoResponse == [status |-> "none", body |-> None, etag |-> None, at |-> Never]

ReviewRow == [snapshot : Content, report : Report]

Phase == {"idle", "fetching", "responded", "failing", "operating", "releasing"}
Kind == {"none", "bytes", "fetch", "refresh", "operator"}

TypeOK ==
  /\ clock \in Time /\ servedAt \in Time
  /\ upstream \in Body
  /\ lock \in Worker \cup {None}
  /\ pc \in [Worker -> Phase]
  /\ kind \in [Worker -> Kind]
  /\ now \in [Worker -> Time]
  /\ view \in [Worker -> StateRow]
  /\ resp \in [Worker -> Response]
  /\ state \in StateRow
  /\ lifecycle \in [Content -> LifecycleRow]
  /\ artifacts \subseteq Report
  /\ audit \in ReviewRow \cup {None}

Init ==
  /\ clock = 1 /\ servedAt = Never
  /\ upstream \in Body
  /\ lock = None
  /\ pc = [w \in Worker |-> "idle"]
  /\ kind = [w \in Worker |-> "none"]
  /\ now = [w \in Worker |-> Never]
  /\ view = [w \in Worker |-> NullState]
  /\ resp = [w \in Worker |-> NoResponse]
  /\ state = NullState
  /\ lifecycle = [c \in Content |-> NoLifecycle]
  /\ artifacts = {}
  /\ audit = None

-----------------------------------------------------------------------------

Later(s, t) == IF s < t THEN t ELSE s
Known(c) == c \in Content /\ lifecycle[c].activated # Never
ReportCheck(w) == IsReport /\ kind[w] = "refresh"

HostClock == {t \in 1 .. clock + Skew : clock - Skew <= t}

(* The validator a check sends: a manual import sends none.                *)
Sent(w) == CASE kind[w] = "bytes" -> None
             [] ReportCheck(w)    -> view[w].reportEtag
             [] OTHER             -> view[w].etag

-----------------------------------------------------------------------------
(* Faulty variants of the operators below, one plausible slip each: the    *)
(* properties are tested against them.                                     *)

TryLockUnchecked(w) == lock' = w            \* result of the try ignored

AcceptContentKeepsReview(s, r) ==           \* promotion keeps the attestation
  [s EXCEPT !.active = IF Known(r.body) THEN @ ELSE r.body, !.content = r.body]

AcceptReportSkipsKnown(s, r) ==             \* an archived body is not news
  [s EXCEPT !.report = IF r.status = "200" /\ r.body \notin artifacts THEN r.body ELSE @,
            !.reportEtag = r.etag]

SupersedeReplacesRow(lc, old, new, t) ==    \* the old row is rewritten whole
  [c \in Content |->
     CASE c = new -> [activated |-> t, superseded |-> Never, held |-> FALSE]
       [] c = old /\ c # new ->
            [activated |-> lc[c].activated, superseded |-> t, held |-> FALSE]
       [] OTHER   -> lc[c]]

ReinstateLeavesOldLive(lc, old, new, t) ==  \* the old row is not superseded
  [c \in Content |-> IF c = new THEN [lc[c] EXCEPT !.superseded = Never] ELSE lc[c]]

ReselectedKeepsReview(s, c) == [s EXCEPT !.active = c]

NextValidatorKept(w) ==                     \* a manual import keeps the ETag
  IF kind[w] = "bytes" THEN view[w].etag ELSE resp[w].etag

UnlocksChecksOnly(w) == pc[w] = "releasing" /\ kind[w] # "operator"

MissedByAnyCheck(t) ==                      \* a failed refresh counts as well
  state.rSuccess = Never \/ t - state.rChecked > MissedCheck

-----------------------------------------------------------------------------
(* Helpers of the handlers                                                 *)

TryLock(w) == lock = None /\ lock' = w

(* The time of a check may not precede the last recorded one.              *)
InOrder(s, t) == s.checked <= t

MayStart(k) == \/ k \in {"bytes", "refresh"}
               \/ k = "fetch" /\ ~IsReport

(* What the success path makes of the response.                            *)
Acceptable(w) ==
  LET r == resp[w]
  IN  IF ReportCheck(w)
      THEN r.status = "200" \/ view[w].report # None
      ELSE \/ r.status = "304" /\ view[w].active # None /\ view[w].content # None
           \/ r.status = "200" /\ r.body \notin Invalid

(* Every distinct report body is archived.                                 *)
Archive(w) == IF resp[w].status = "200" THEN artifacts \cup {resp[w].body} ELSE artifacts

(* The validator of the next request comes with the accepted bytes.        *)
NextValidator(w) == resp[w].etag

Unlocks(w) == pc[w] = "releasing"

(* missed_check of _health, read on a host whose clock says t.             *)
Missed(t) == state.rSuccess = Never \/ t - state.rSuccess > MissedCheck

Promotes(w) == ~ReportCheck(w) /\ resp[w].status = "200" /\ ~Known(resp[w].body)

(* catalog_import_state after an accepted artifact or report.              *)
AcceptContent(s, r) ==
  [s EXCEPT !.active   = IF Known(r.body) THEN @ ELSE r.body,
            !.reviewed = IF Known(r.body) THEN @ ELSE None,
            !.content  = r.body]

AcceptReport(s, r) ==
  [s EXCEPT !.report = IF r.status = "200" THEN r.body ELSE @,
            !.reportEtag = r.etag]

(* The columns every successful check writes.                              *)
Succeeded(s, k, t) ==
  [s EXCEPT !.checked = t, !.success = t, !.failing = FALSE,
            !.rChecked = IF k = "refresh" THEN t ELSE @,
            !.rSuccess = IF k = "refresh" THEN t ELSE @,
            !.rFailing = IF k = "refresh" THEN FALSE ELSE @]

(* ... and the ones the failure bookkeeping writes.                        *)
FailedCheck(s, k, t) ==
  [s EXCEPT !.checked = Later(@, t), !.failing = TRUE,
            !.rChecked = IF k = "refresh" THEN Later(@, t) ELSE @,
            !.rFailing = IF k = "refresh" THEN TRUE ELSE @]

(* The new snapshot's lifecycle starts and the old one's is superseded;    *)
(* a concurrent hold is in another column and stays.                       *)
Supersede(lc, old, new, t) ==
  [c \in Content |->
     CASE c = new -> [activated |-> t, superseded |-> Never, held |-> FALSE]
       [] c = old /\ c # new -> [lc[c] EXCEPT !.superseded = t]
       [] OTHER   -> lc[c]]

Reinstate(lc, old, new, t) ==
  [c \in Content |->
     CASE c = new -> [lc[c] EXCEPT !.superseded = Never]
       [] c = old /\ c # new -> [lc[c] EXCEPT !.superseded = t]
       [] OTHER   -> lc[c]]

-----------------------------------------------------------------------------
(* One check: _run of pipeline.py                                          *)

(* The lock is taken, then the host clock is read, then the state row.     *)
(* A refresh that finds the lock taken returns "overlap" and changes       *)
(* nothing; a manual import waits: in both cases no step is taken.         *)
BeginCheck(w, k) ==
  /\ pc[w] = "idle" /\ MayStart(k) /\ TryLock(w)
  /\ \E t \in HostClock :
       /\ now' = [now EXCEPT ![w] = t]
       /\ pc' = [pc EXCEPT ![w] = IF InOrder(state, t) THEN "fetching" ELSE "failing"]
  /\ kind' = [kind EXCEPT ![w] = k]
  /\ view' = [view EXCEPT ![w] = state]
  /\ UNCHANGED <<clock, upstream, resp, state, evidence, servedAt>>

(* The response: the caller's bytes, the served body, or Not Modified.     *)
Respond(w) ==
  /\ pc[w] = "fetching"
  /\ \/ /\ kind[w] = "bytes"
        /\ \E c \in Content :
             resp' = [resp EXCEPT ![w] = [status |-> "200", body |-> c,
                                          etag |-> None, at |-> clock]]
     \/ /\ kind[w] # "bytes"
        /\ \E tag \in {upstream, None} :
             resp' = [resp EXCEPT ![w] = [status |-> "200", body |-> upstream,
                                          etag |-> tag, at |-> clock]]
     \/ /\ kind[w] # "bytes"
        /\ StrictServer => Sent(w) = upstream
        /\ \E tag \in {upstream, Sent(w)} :
             resp' = [resp EXCEPT ![w] = [status |-> "304", body |-> None,
                                          etag |-> tag, at |-> clock]]
  /\ pc' = [pc EXCEPT ![w] = "responded"]
  /\ UNCHANGED <<clock, upstream, lock, kind, now, view, state, evidence, servedAt>>

(* Validation, transport, deadline or database error before the commit.    *)
Rollback(w) ==
  /\ pc[w] \in {"fetching", "responded"}
  /\ pc' = [pc EXCEPT ![w] = "failing"]
  /\ UNCHANGED <<clock, upstream, lock, kind, now, view, resp, state, evidence, servedAt>>

(* The state row the success path commits, from the row the session loaded.*)
CommittedState(w) ==
  LET s == Succeeded(view[w], kind[w], now[w])
      r == resp[w]
  IN  IF ReportCheck(w) THEN AcceptReport(s, r)
      ELSE [(IF r.status = "200" THEN AcceptContent(s, r) ELSE s)
              EXCEPT !.etag = NextValidator(w)]

Commit(w) ==
  /\ pc[w] = "responded" /\ Acceptable(w)
  /\ state' = CommittedState(w)
  /\ lifecycle' = IF Promotes(w)
                  THEN Supersede(lifecycle, view[w].active, resp[w].body, now[w])
                  ELSE lifecycle
  /\ artifacts' = IF ReportCheck(w) THEN Archive(w) ELSE artifacts
  /\ servedAt' = IF kind[w] = "refresh" THEN resp[w].at ELSE servedAt
  /\ pc' = [pc EXCEPT ![w] = "releasing"]
  /\ UNCHANGED <<clock, upstream, lock, kind, now, view, resp, audit>>

(* A transaction of its own, after the rollback: it reloads the row.       *)
RecordFailure(w) ==
  /\ pc[w] = "failing"
  /\ state' = FailedCheck(state, kind[w], now[w])
  /\ pc' = [pc EXCEPT ![w] = "releasing"]
  /\ UNCHANGED <<clock, upstream, lock, kind, now, view, resp, evidence, servedAt>>

EndSession(w) ==
  /\ lock' = None
  /\ pc' = [pc EXCEPT ![w] = "idle"]
  /\ kind' = [kind EXCEPT ![w] = "none"]
  /\ now' = [now EXCEPT ![w] = Never]
  /\ view' = [view EXCEPT ![w] = NullState]
  /\ resp' = [resp EXCEPT ![w] = NoResponse]
  /\ UNCHANGED <<clock, upstream, state, evidence, servedAt>>

Release(w) == Unlocks(w) /\ EndSession(w)

(* The process dies or its connection breaks: PostgreSQL rolls back and    *)
(* drops the session lock, and no bookkeeping happens.                     *)
Crash(w) == pc[w] \notin {"idle", "releasing"} /\ EndSession(w)

-----------------------------------------------------------------------------
(* Operator commands: operator_session, review_report, select_snapshot     *)

(* select_snapshot reads the clock before it asks for the lock, possibly   *)
(* long before.                                                            *)
BeginCommand(w) ==
  /\ pc[w] = "idle" /\ TryLock(w)
  /\ \E t \in 1 .. clock + Skew : now' = [now EXCEPT ![w] = t]
  /\ pc' = [pc EXCEPT ![w] = "operating"]
  /\ kind' = [kind EXCEPT ![w] = "operator"]
  /\ view' = [view EXCEPT ![w] = state]
  /\ UNCHANGED <<clock, upstream, resp, state, evidence, servedAt>>

(* _audit accepts only evidence with a lifecycle, at a time in order.      *)
Auditable(w, c) == InOrder(view[w], now[w]) /\ Known(c)

(* The attestation binds the latest acquired report and the active snapshot. *)
BindsLatest(s, c, r) == r = s.report /\ c = s.active

ReviewReport(w, c, r) ==
  /\ pc[w] = "operating" /\ IsReport
  /\ BindsLatest(view[w], c, r) /\ Auditable(w, c)
  /\ state' = [view[w] EXCEPT !.reviewed = r]
  /\ audit' = [snapshot |-> c, report |-> r]
  /\ pc' = [pc EXCEPT ![w] = "releasing"]
  /\ UNCHANGED <<clock, upstream, lock, kind, now, view, resp,
                 lifecycle, artifacts, servedAt>>

(* The state row after selecting a snapshot other than the active one.     *)
Reselected(s, c) == [s EXCEPT !.active = c, !.reviewed = None]

SelectSnapshot(w, c) ==
  /\ pc[w] = "operating" /\ Auditable(w, c)
  /\ IF c = view[w].active
     THEN UNCHANGED <<state, lifecycle>>
     ELSE /\ state' = Reselected(view[w], c)
          /\ lifecycle' = Reinstate(lifecycle, view[w].active, c, now[w])
  /\ pc' = [pc EXCEPT ![w] = "releasing"]
  /\ UNCHANGED <<clock, upstream, lock, kind, now, view, resp, artifacts, audit, servedAt>>

(* A ValueError in the command: nothing is written.                        *)
RejectCommand(w) ==
  /\ pc[w] = "operating"
  /\ pc' = [pc EXCEPT ![w] = "releasing"]
  /\ UNCHANGED <<clock, upstream, lock, kind, now, view, resp, state, evidence, servedAt>>

-----------------------------------------------------------------------------
(* The environment                                                         *)

(* save_selection of app/selections/service.py pins evidence it refers to. *)
Hold(c) ==
  /\ c \in Holdable /\ Known(c) /\ ~lifecycle[c].held
  /\ lifecycle' = [lifecycle EXCEPT ![c].held = TRUE]
  /\ UNCHANGED <<clock, upstream, lock, jobVars, state, artifacts, audit, servedAt>>

PublishUpstream ==
  /\ upstream' \in Body \ {upstream}
  /\ UNCHANGED <<clock, lock, jobVars, state, evidence, servedAt>>

Tick ==
  /\ clock < MaxTime
  /\ clock' = clock + 1
  /\ UNCHANGED <<upstream, lock, jobVars, state, evidence, servedAt>>

Check(w) == \/ \E k \in Kind : BeginCheck(w, k)
            \/ Respond(w) \/ Rollback(w) \/ Commit(w) \/ RecordFailure(w)
            \/ Release(w) \/ Crash(w)

Operate(w) == \/ BeginCommand(w) \/ RejectCommand(w)
              \/ \E c \in Content, r \in Report : ReviewReport(w, c, r)
              \/ \E c \in Content : SelectSnapshot(w, c)

Next == \/ \E w \in Worker : Check(w) \/ Operate(w)
        \/ \E c \in Content : Hold(c)
        \/ PublishUpstream
        \/ Tick

Spec == Init /\ [][Next]_vars

(* Requests, statements and the process are bounded by timeouts, so a      *)
(* process that holds the lock goes on until it answers, fails or dies.    *)
Proceed(w) == Respond(w) \/ Rollback(w) \/ Commit(w) \/ RecordFailure(w)
                \/ RejectCommand(w) \/ Release(w)

FairSpec == Spec /\ \A w \in Worker : WF_vars(Proceed(w))

(* The scheduler goes on starting refreshes, and the upstream server, the  *)
(* database and the process are not all of the time failing during one.    *)
Refresh(w, Step) == kind[w] = "refresh" /\ Step

Scheduled ==
  \A w \in Worker : /\ SF_vars(BeginCheck(w, "refresh"))
                    /\ SF_vars(Refresh(w, Respond(w)))
                    /\ SF_vars(Refresh(w, Commit(w)))

-----------------------------------------------------------------------------
(* Properties                                                              *)

Working(w) == pc[w] \in {"fetching", "responded", "operating"}

(* The state row a session loaded before its network round trip is still   *)
(* the committed row when the session writes it back: the lock, and        *)
(* nothing in the transaction, keeps the columns it read from going stale  *)
(* (_run holds pg_advisory_lock from before import_state to after commit). *)
SessionNotStale == \A w \in Worker : Working(w) => lock = w /\ view[w] = state

(* Exactly the active snapshot is live: it has a lifecycle that is not     *)
(* superseded, and every other accepted snapshot is superseded, no earlier *)
(* than it was activated.  Promotion and selection each rewrite two        *)
(* lifecycles and the pointer (_promote, select_snapshot).                 *)
ActiveIsTheLiveSnapshot ==
  /\ state.active = None => \A c \in Content : ~Known(c)
  /\ state.active # None => Known(state.active)
  /\ \A c \in Content : Known(c) => (lifecycle[c].superseded = Never <=> c = state.active)

(* No lifecycle row ends before it began, whatever the hosts' clocks say:  *)
(* a supersession recorded too early would make evidence expire too early  *)
(* (retention.py counts from superseded_at).                               *)
SupersededAfterActivated ==
  \A c \in Content : lifecycle[c].superseded # Never =>
     lifecycle[c].activated # Never /\ lifecycle[c].activated <= lifecycle[c].superseded

(* Health reports no pending review only if an operator attested exactly   *)
(* the latest acquired report for exactly the snapshot that is active now: *)
(* a new report, a promotion or a selection voids the attestation          *)
(* (review_report, select_snapshot, _promote, pending_review of _health).  *)
AttestationCoversActive ==
  state.report # None /\ state.report = state.reviewed =>
     /\ audit = [snapshot |-> state.active, report |-> state.report]
     /\ state.report \in artifacts

(* Not Modified is believed only about the bytes that were last accepted:  *)
(* when a server that honours validators answers 304, what it serves is    *)
(* what checked_content_hash (or report_content_hash) names, although      *)
(* manual imports replace that hash in between.                            *)
NotModifiedMeansAccepted ==
  StrictServer => \A w \in Worker :
    pc[w] = "responded" /\ resp[w].status = "304" =>
      resp[w].etag = IF ReportCheck(w) THEN state.report ELSE state.content

(* The check columns agree with each other: a successful check is a check, *)
(* a refresh is a check, and with no failure counted the last check is the *)
(* last successful one (_run writes them on separate success and failure   *)
(* paths, with possibly skewed clocks).                                    *)
ChecksAgree ==
  /\ state.rSuccess <= state.rChecked /\ state.rChecked <= state.checked
  /\ state.rSuccess <= state.success /\ state.success <= state.checked
  /\ ~state.failing => state.success = state.checked
  /\ ~state.rFailing => state.rSuccess = state.rChecked

(* A source that some host does not report as missed was really answered   *)
(* by the upstream server within MissedCheck and the skew of two hosts,    *)
(* the one that checked and the one that reads health: neither a manual    *)
(* import nor a failed or overlapping refresh makes old data look fresh.   *)
HealthyMeansServed ==
  \A t \in HostClock :
    ~Missed(t) => servedAt # Never /\ clock - servedAt <= MissedCheck + 2 * Skew

(* Recorded check times never go back, even between hosts whose clocks     *)
(* disagree and after failures (the order test of _run, max() in its       *)
(* failure path).                                                          *)
CheckTimesAdvance ==
  [][ /\ state.checked <= state'.checked /\ state.success <= state'.success
      /\ state.rChecked <= state'.rChecked /\ state.rSuccess <= state'.rSuccess ]_vars

(* The active pointer and the supersessions change in two ways only: a     *)
(* valid body that was never accepted before is promoted, or an operator   *)
(* who holds the lock selects accepted evidence.  Failures, Not Modified   *)
(* answers and known historical bytes retain the last good snapshot        *)
(* (_promote's early return, the rollback of _run, select_snapshot).       *)
PointerMovesExplained ==
  [][ (\/ state'.active # state.active
       \/ \E c \in Content : lifecycle'[c].superseded # lifecycle[c].superseded) =>
      \/ /\ ~Known(state'.active) /\ state'.active \notin Invalid
         /\ state'.content = state'.active
      \/ /\ Known(state'.active)
         /\ \E w \in Worker : lock = w /\ pc[w] = "operating" ]_vars

(* Evidence is append-only: snapshots, holds and report artifacts that     *)
(* exist go on existing, with their first activation time, through every   *)
(* promotion and selection that runs beside a selection's hold.            *)
EvidenceIsKept ==
  [][ /\ artifacts \subseteq artifacts'
      /\ \A c \in Content : Known(c) =>
           /\ lifecycle'[c].activated = lifecycle[c].activated
           /\ lifecycle[c].held => lifecycle'[c].held ]_vars

(* The source lock is always given back: no failure leaves later refreshes *)
(* answering "overlap" for ever.                                           *)
LockIsReleased == \A w \in Worker : lock = w ~> lock # w

(* A report page that stays up is eventually the acquired one, hence       *)
(* reviewed or pending, even if it reverts to a page seen before: the      *)
(* validators sent never make the server hide it (record_report).          *)
PageIsNoticed ==
  Scheduled => \A r \in Report : <>[](IsReport /\ upstream = r) => <>[](state.report = r)

(* Readers see the abstract pointer of EvidencePointer.                    *)
Pointer == INSTANCE EvidencePointer WITH
  accepted <- {c \in Content : Known(c)},
  active   <- state.active,
  attested <- state.reviewed # None

ImplementsPointer == Pointer!Spec

=============================================================================
