----------------------- MODULE CatalogImport_proofs -----------------------
(***************************************************************************)
(* Proofs about CatalogImport, for every set of processes, contents and    *)
(* reports, every clock bound and every skew.                              *)
(***************************************************************************)
EXTENDS CatalogImport, TLAPS

CheckKind == {"bytes", "refresh"} \cup (IF IsReport THEN {} ELSE {"fetch"})

(* The lock's holder is the one process that is not idle.                  *)
HolderIsBusy == \A w \in Worker : lock = w <=> pc[w] # "idle"

(* What a process carries in each phase.                                   *)
JobShape ==
  \A w \in Worker :
    /\ pc[w] \in {"fetching", "responded", "failing", "operating"} => now[w] >= 1
    /\ pc[w] \in {"fetching", "responded", "failing"} => kind[w] \in CheckKind
    /\ pc[w] \in {"fetching", "responded"} => state.checked <= now[w]

(* A response carries report bodies to report checks, contents to others.  *)
ResponseShape ==
  \A w \in Worker : pc[w] = "responded" =>
    /\ resp[w].status \in {"200", "304"}
    /\ IF ReportCheck(w)
       THEN /\ resp[w].etag \in ReportOrNull
            /\ resp[w].status = "200" => resp[w].body \in Report
       ELSE /\ resp[w].etag \in ContentOrNull
            /\ resp[w].status = "200" => resp[w].body \in Content

SessionInv == HolderIsBusy /\ SessionNotStale /\ JobShape /\ ResponseShape

-----------------------------------------------------------------------------
(* Typing and the session invariant                                        *)

LEMMA StateRowExcept ==
  ASSUME NEW s \in StateRow, NEW k, NEW t \in Time
  PROVE  /\ Succeeded(s, k, t) \in StateRow
         /\ FailedCheck(s, k, t) \in StateRow
  BY DEF StateRow, Succeeded, FailedCheck, Later, Time

LEMMA InitOK == Init => TypeOK /\ SessionInv
<1> SUFFICES ASSUME Init PROVE TypeOK /\ SessionInv
  OBVIOUS
<1> USE ImportAssumption DEF Init
<1>1. NullState \in StateRow /\ NoResponse \in Response /\ NoLifecycle \in LifecycleRow
  BY DEF NullState, StateRow, NoResponse, Response, NoLifecycle, LifecycleRow,
         ContentOrNull, ReportOrNull, Time, Never
<1>2. TypeOK
  BY <1>1 DEF TypeOK, Time, Never, Phase, Kind
<1>3. SessionInv
  BY DEF SessionInv, HolderIsBusy, SessionNotStale, JobShape, ResponseShape, Working
<1>4. QED
  BY <1>2, <1>3

LEMMA BeginOK ==
  ASSUME TypeOK, SessionInv, NEW w \in Worker, NEW k \in Kind, BeginCheck(w, k)
  PROVE  TypeOK' /\ SessionInv'
<1> USE ImportAssumption
<1>1. PICK t \in HostClock :
        /\ now' = [now EXCEPT ![w] = t]
        /\ pc' = [pc EXCEPT ![w] = IF InOrder(state, t) THEN "fetching" ELSE "failing"]
  BY DEF BeginCheck
<1>2. t \in Time /\ t >= 1
  BY DEF HostClock, TypeOK, Time
<1>3. TypeOK'
  BY <1>1, <1>2 DEF TypeOK, BeginCheck, TryLock, Phase, evidence, Body
<1>4. lock = None /\ lock' = w
  BY DEF BeginCheck, TryLock
<1>5. \A v \in Worker : v # w => pc'[v] = "idle" /\ pc[v] = "idle"
  BY <1>1, <1>4 DEF SessionInv, HolderIsBusy, TypeOK
<1>6. SessionInv'
  <2>1. HolderIsBusy'
    BY <1>1, <1>4, <1>5 DEF HolderIsBusy, TypeOK
  <2>2. SessionNotStale'
    BY <1>1, <1>4, <1>5 DEF SessionNotStale, Working, TypeOK, BeginCheck
  <2>3. JobShape'
    BY <1>1, <1>2, <1>5 DEF JobShape, TypeOK, BeginCheck, MayStart, CheckKind, InOrder
  <2>4. ResponseShape'
    BY <1>1, <1>5 DEF ResponseShape, TypeOK
  <2>5. QED
    BY <2>1, <2>2, <2>3, <2>4 DEF SessionInv
<1>7. QED
  BY <1>3, <1>6

LEMMA RespondOK ==
  ASSUME TypeOK, SessionInv, NEW w \in Worker, Respond(w)
  PROVE  TypeOK' /\ SessionInv'
<1> USE ImportAssumption DEF evidence
<1>1. /\ pc[w] = "fetching" /\ lock = w /\ view[w] = state
      /\ kind[w] \in CheckKind
      /\ pc' = [pc EXCEPT ![w] = "responded"]
      /\ UNCHANGED <<clock, upstream, lock, kind, now, view, state, evidence, servedAt>>
  BY DEF Respond, SessionInv, SessionNotStale, Working, JobShape
<1> DEFINE Fits(r) == /\ resp' = [resp EXCEPT ![w] = r]
                      /\ r \in Response
                      /\ r.status \in {"200", "304"}
                      /\ IF ReportCheck(w)
                         THEN /\ r.etag \in ReportOrNull
                              /\ r.status = "200" => r.body \in Report
                         ELSE /\ r.etag \in ContentOrNull
                              /\ r.status = "200" => r.body \in Content
<1>2. PICK r : Fits(r)
  <2>1. /\ clock \in Time /\ upstream \in Content \cup Report
        /\ kind[w] # "bytes" /\ ~ReportCheck(w) => upstream \in Content
        /\ ReportCheck(w) => upstream \in Report /\ kind[w] # "bytes"
    BY <1>1 DEF CheckKind, Body, TypeOK, ReportCheck
  <2>2. /\ ReportCheck(w) => Sent(w) \in ReportOrNull
        /\ ~ReportCheck(w) => Sent(w) \in ContentOrNull
    BY <1>1 DEF Sent, TypeOK, StateRow, ReportCheck, ReportOrNull, ContentOrNull
  <2>3. ASSUME kind[w] = "bytes", NEW c \in Content,
               resp' = [resp EXCEPT ![w] = [status |-> "200", body |-> c,
                                            etag |-> None, at |-> clock]]
        PROVE  \E r : Fits(r)
    <3>1. Fits([status |-> "200", body |-> c, etag |-> None, at |-> clock])
      BY <2>1, <2>3 DEF Response, ReportOrNull, ContentOrNull
    <3>2. QED
      BY <3>1
  <2>4. ASSUME kind[w] # "bytes", NEW tag \in {upstream, None},
               resp' = [resp EXCEPT ![w] = [status |-> "200", body |-> upstream,
                                            etag |-> tag, at |-> clock]]
        PROVE  \E r : Fits(r)
    <3>1. Fits([status |-> "200", body |-> upstream, etag |-> tag, at |-> clock])
      BY <2>1, <2>4 DEF Response, ReportOrNull, ContentOrNull
    <3>2. QED
      BY <3>1
  <2>5. ASSUME kind[w] # "bytes", NEW tag \in {upstream, Sent(w)},
               resp' = [resp EXCEPT ![w] = [status |-> "304", body |-> None,
                                            etag |-> tag, at |-> clock]]
        PROVE  \E r : Fits(r)
    <3>1. Fits([status |-> "304", body |-> None, etag |-> tag, at |-> clock])
      BY <2>1, <2>2, <2>5 DEF Response, ReportOrNull, ContentOrNull
    <3>2. QED
      BY <3>1
  <2>6. QED
    BY <2>3, <2>4, <2>5 DEF Respond
<1>3. TypeOK'
  BY <1>1, <1>2 DEF TypeOK, Phase
<1>4. SessionInv'
  <2>1. HolderIsBusy'
    BY <1>1 DEF SessionInv, HolderIsBusy, TypeOK
  <2>2. SessionNotStale'
    BY <1>1 DEF SessionInv, SessionNotStale, Working, TypeOK
  <2>3. JobShape'
    BY <1>1 DEF SessionInv, JobShape, TypeOK
  <2>4. ResponseShape'
    BY <1>1, <1>2 DEF SessionInv, ResponseShape, TypeOK, ReportCheck
  <2>5. QED
    BY <2>1, <2>2, <2>3, <2>4 DEF SessionInv
<1>5. QED
  BY <1>3, <1>4

LEMMA PhaseOnlyOK ==
  ASSUME TypeOK, SessionInv, NEW w \in Worker, Rollback(w) \/ RejectCommand(w)
  PROVE  TypeOK' /\ SessionInv'
<1> USE DEF evidence, Rollback, RejectCommand
<1>1. TypeOK'
  BY DEF TypeOK, Phase
<1>2. HolderIsBusy'
  BY DEF SessionInv, HolderIsBusy, TypeOK
<1>3. SessionNotStale'
  BY DEF SessionInv, SessionNotStale, Working, TypeOK
<1>4. JobShape' /\ ResponseShape'
  BY DEF SessionInv, JobShape, ResponseShape, TypeOK, ReportCheck
<1>5. QED
  BY <1>1, <1>2, <1>3, <1>4 DEF SessionInv

(* The lock holder writes the state row; nobody else has a session.        *)
LEMMA HolderWrites ==
  ASSUME TypeOK, SessionInv, NEW w \in Worker, pc[w] # "idle",
         pc' = [pc EXCEPT ![w] = "releasing"], UNCHANGED <<lock, kind, now, view, resp>>
  PROVE  SessionInv'
<1>1. lock = w /\ \A v \in Worker : v # w => pc[v] = "idle" /\ pc'[v] = "idle"
  BY DEF SessionInv, HolderIsBusy, TypeOK
<1>2. pc'[w] = "releasing"
  BY DEF TypeOK
<1>3. HolderIsBusy'
  BY <1>1, <1>2 DEF SessionInv, HolderIsBusy
<1>4. SessionNotStale'
  BY <1>1, <1>2 DEF SessionNotStale, Working
<1>5. JobShape' /\ ResponseShape'
  BY <1>1, <1>2 DEF JobShape, ResponseShape
<1>6. QED
  BY <1>3, <1>4, <1>5 DEF SessionInv

LEMMA CommittedStateType ==
  ASSUME TypeOK, SessionInv, NEW w \in Worker, pc[w] = "responded"
  PROVE  CommittedState(w) \in StateRow
<1> DEFINE s == Succeeded(view[w], kind[w], now[w])
<1> USE ImportAssumption
<1>1. s \in StateRow
  BY StateRowExcept DEF TypeOK
<1>2. CASE ReportCheck(w)
  <2>1. /\ resp[w].etag \in ReportOrNull
        /\ resp[w].status = "200" => resp[w].body \in Report
    BY <1>2 DEF SessionInv, ResponseShape
  <2>2. AcceptReport(s, resp[w]) \in StateRow
    BY <1>1, <2>1 DEF AcceptReport, StateRow, ReportOrNull
  <2>3. QED
    BY <1>2, <2>2 DEF CommittedState
<1>3. CASE ~ReportCheck(w)
  <2>1. /\ resp[w].etag \in ContentOrNull
        /\ resp[w].status = "200" => resp[w].body \in Content
    BY <1>3 DEF SessionInv, ResponseShape
  <2>2. resp[w].status = "200" => AcceptContent(s, resp[w]) \in StateRow
    BY <1>1, <2>1 DEF AcceptContent, StateRow, ContentOrNull, ReportOrNull
  <2> DEFINE q == IF resp[w].status = "200" THEN AcceptContent(s, resp[w]) ELSE s
  <2>3. q \in StateRow
    BY <1>1, <2>2
  <2>4. [q EXCEPT !.etag = NextValidator(w)] \in StateRow
    <3> HIDE DEF q
    <3> QED BY <2>1, <2>3 DEF StateRow, NextValidator
  <2>5. QED
    BY <1>3, <2>4 DEF CommittedState
<1>4. QED
  BY <1>2, <1>3

LEMMA LifecycleType ==
  ASSUME NEW lc \in [Content -> LifecycleRow], NEW old, NEW new, NEW t \in Time
  PROVE  /\ Supersede(lc, old, new, t) \in [Content -> LifecycleRow]
         /\ Reinstate(lc, old, new, t) \in [Content -> LifecycleRow]
  BY DEF Supersede, Reinstate, LifecycleRow, Time, Never

LEMMA CommitOK ==
  ASSUME TypeOK, SessionInv, NEW w \in Worker, Commit(w)
  PROVE  TypeOK' /\ SessionInv'
<1>1. SessionInv'
  BY HolderWrites DEF Commit
<1>2. state' \in StateRow
  BY CommittedStateType DEF Commit
<1>3. lifecycle' \in [Content -> LifecycleRow]
  BY LifecycleType DEF Commit, TypeOK
<1>4. artifacts' \subseteq Report
  BY DEF Commit, Archive, SessionInv, ResponseShape, TypeOK
<1>5. servedAt' \in Time
  BY DEF Commit, TypeOK, Response
<1>6. TypeOK'
  BY <1>2, <1>3, <1>4, <1>5 DEF TypeOK, Commit, Phase
<1>7. QED
  BY <1>1, <1>6

LEMMA RecordFailureOK ==
  ASSUME TypeOK, SessionInv, NEW w \in Worker, RecordFailure(w)
  PROVE  TypeOK' /\ SessionInv'
<1>1. SessionInv'
  BY HolderWrites DEF RecordFailure
<1>2. state' \in StateRow
  BY StateRowExcept DEF RecordFailure, TypeOK
<1>3. TypeOK'
  BY <1>2 DEF TypeOK, RecordFailure, Phase, evidence
<1>4. QED
  BY <1>1, <1>3

LEMMA EndSessionOK ==
  ASSUME TypeOK, SessionInv, NEW w \in Worker, Release(w) \/ Crash(w)
  PROVE  TypeOK' /\ SessionInv'
<1> USE ImportAssumption DEF Release, Crash, Unlocks, EndSession, evidence
<1>1. NullState \in StateRow /\ NoResponse \in Response
  BY DEF NullState, StateRow, NoResponse, Response, ContentOrNull, ReportOrNull, Time, Never
<1>2. TypeOK'
  BY <1>1 DEF TypeOK, Phase, Kind, Time, Never
<1>3. \A v \in Worker : pc'[v] = "idle"
  BY DEF SessionInv, HolderIsBusy, TypeOK
<1>4. SessionInv'
  BY <1>3 DEF SessionInv, HolderIsBusy, SessionNotStale, Working, JobShape, ResponseShape
<1>5. QED
  BY <1>2, <1>4

LEMMA BeginCommandOK ==
  ASSUME TypeOK, SessionInv, NEW w \in Worker, BeginCommand(w)
  PROVE  TypeOK' /\ SessionInv'
<1> USE ImportAssumption
<1>1. PICK t \in 1 .. clock + Skew : now' = [now EXCEPT ![w] = t]
  BY DEF BeginCommand
<1>2. t \in Time /\ t >= 1
  BY DEF TypeOK, Time
<1>3. TypeOK'
  BY <1>1, <1>2 DEF TypeOK, BeginCommand, TryLock, Phase, Kind, evidence, Body
<1>4. lock = None /\ lock' = w
  BY DEF BeginCommand, TryLock
<1>5. \A v \in Worker : v # w => pc'[v] = "idle" /\ pc[v] = "idle"
  BY <1>4 DEF BeginCommand, SessionInv, HolderIsBusy, TypeOK
<1>6. pc'[w] = "operating" /\ view'[w] = state' /\ now'[w] >= 1
  BY <1>1, <1>2 DEF BeginCommand, TypeOK
<1>7. HolderIsBusy' /\ SessionNotStale'
  BY <1>4, <1>5, <1>6 DEF HolderIsBusy, SessionNotStale, Working
<1>8. JobShape' /\ ResponseShape'
  BY <1>5, <1>6 DEF JobShape, ResponseShape
<1>9. QED
  BY <1>3, <1>7, <1>8 DEF SessionInv

LEMMA ReviewOK ==
  ASSUME TypeOK, SessionInv, NEW w \in Worker, NEW c \in Content, NEW r \in Report,
         ReviewReport(w, c, r)
  PROVE  TypeOK' /\ SessionInv'
<1>1. SessionInv'
  BY HolderWrites DEF ReviewReport
<1>2. state' \in StateRow
  <2>1. view[w] \in StateRow
    BY DEF TypeOK
  <2>2. QED
    BY <2>1 DEF ReviewReport, StateRow, ReportOrNull
<1>3. audit' \in ReviewRow
  BY DEF ReviewReport, ReviewRow
<1>4. TypeOK'
  BY <1>2, <1>3 DEF TypeOK, ReviewReport, Phase
<1>5. QED
  BY <1>1, <1>4

LEMMA SelectOK ==
  ASSUME TypeOK, SessionInv, NEW w \in Worker, NEW c \in Content, SelectSnapshot(w, c)
  PROVE  TypeOK' /\ SessionInv'
<1>1. SessionInv'
  BY HolderWrites DEF SelectSnapshot
<1>2. state' \in StateRow
  <2>1. view[w] \in StateRow /\ state \in StateRow
    BY DEF TypeOK
  <2>2. Reselected(view[w], c) \in StateRow
    BY <2>1 DEF Reselected, StateRow, ContentOrNull, ReportOrNull
  <2>3. QED
    BY <2>1, <2>2 DEF SelectSnapshot
<1>3. lifecycle' \in [Content -> LifecycleRow]
  BY LifecycleType DEF SelectSnapshot, TypeOK
<1>4. TypeOK'
  BY <1>2, <1>3 DEF TypeOK, SelectSnapshot, Phase
<1>5. QED
  BY <1>1, <1>4

LEMMA EnvironmentOK ==
  ASSUME TypeOK, SessionInv,
         (\E c \in Content : Hold(c)) \/ PublishUpstream \/ Tick \/ UNCHANGED vars
  PROVE  TypeOK' /\ SessionInv'
<1> USE DEF jobVars, evidence
<1>1. lifecycle' \in [Content -> LifecycleRow]
  BY DEF Hold, PublishUpstream, Tick, vars, TypeOK, LifecycleRow
<1>2. TypeOK'
  BY <1>1 DEF Hold, PublishUpstream, Tick, vars, TypeOK, Time, Body
<1>3. UNCHANGED <<lock, pc, kind, now, view, resp, state>>
  BY DEF Hold, PublishUpstream, Tick, vars
<1>4. SessionInv'
  BY <1>3 DEF SessionInv, HolderIsBusy, SessionNotStale, Working, JobShape, ResponseShape,
              ReportCheck
<1>5. QED
  BY <1>2, <1>4

LEMMA NextOK == TypeOK /\ SessionInv /\ [Next]_vars => TypeOK' /\ SessionInv'
<1> SUFFICES ASSUME TypeOK, SessionInv, [Next]_vars PROVE TypeOK' /\ SessionInv'
  OBVIOUS
<1>1. ASSUME NEW w \in Worker, Check(w) PROVE TypeOK' /\ SessionInv'
  BY <1>1, BeginOK, RespondOK, PhaseOnlyOK, CommitOK, RecordFailureOK, EndSessionOK DEF Check
<1>2. ASSUME NEW w \in Worker, Operate(w) PROVE TypeOK' /\ SessionInv'
  <2>1. CASE BeginCommand(w) \/ RejectCommand(w)
    BY <2>1, BeginCommandOK, PhaseOnlyOK
  <2>2. CASE \E c \in Content, r \in Report : ReviewReport(w, c, r)
    BY <2>2, ReviewOK
  <2>3. ASSUME NEW c \in Content, SelectSnapshot(w, c) PROVE TypeOK' /\ SessionInv'
    BY <2>3, SelectOK
  <2>4. QED
    BY <1>2, <2>1, <2>2, <2>3 DEF Operate
<1>3. QED
  BY <1>1, <1>2, EnvironmentOK DEF Next

(* Every variable stays in its type.                                       *)
THEOREM TypeCorrect == Spec => []TypeOK
  BY InitOK, NextOK, PTL DEF Spec

(* No session ever writes back a state row that changed since it was read, *)
(* however many processes contend and whenever they crash.                 *)
THEOREM SessionsAreNotStale == Spec => []SessionNotStale
<1>1. SessionInv => SessionNotStale
  BY DEF SessionInv
<1>2. QED
  BY <1>1, InitOK, NextOK, PTL DEF Spec

-----------------------------------------------------------------------------
(* What a step can do to what readers see                                  *)

Quiet == UNCHANGED <<state, evidence, servedAt>>

Writes(w) == \/ Commit(w)
             \/ RecordFailure(w)
             \/ \E c \in Content, r \in Report : ReviewReport(w, c, r)
             \/ \E c \in Content : SelectSnapshot(w, c)

LEMMA StepCases ==
  ASSUME TypeOK, SessionInv, [Next]_vars
  PROVE  \/ Quiet
         \/ \E w \in Worker : Writes(w)
         \/ \E c \in Content : Hold(c)
<1>1. UNCHANGED vars \/ PublishUpstream \/ Tick => Quiet
  BY DEF vars, PublishUpstream, Tick, Quiet, evidence
<1>2. ASSUME NEW w \in Worker,
             \/ \E k \in Kind : BeginCheck(w, k)
             \/ Respond(w) \/ Rollback(w) \/ Release(w) \/ Crash(w)
             \/ BeginCommand(w) \/ RejectCommand(w)
      PROVE  Quiet
  BY <1>2 DEF BeginCheck, Respond, Rollback, Release, Crash, EndSession, BeginCommand,
              RejectCommand, Quiet, evidence
<1>3. ASSUME NEW w \in Worker, Check(w) \/ Operate(w)
      PROVE  Quiet \/ Writes(w)
  BY <1>2, <1>3 DEF Check, Operate, Writes
<1>4. QED
  BY <1>1, <1>3 DEF Next

(* A commit in terms of the row that was committed before it.              *)
LEMMA CommitState ==
  ASSUME TypeOK, SessionInv, NEW w \in Worker, Commit(w)
  PROVE  /\ state'.checked = now[w] /\ state'.success = now[w] /\ state'.failing = FALSE
         /\ IF kind[w] = "refresh"
            THEN state'.rChecked = now[w] /\ state'.rSuccess = now[w] /\ ~state'.rFailing
            ELSE /\ state'.rChecked = state.rChecked /\ state'.rSuccess = state.rSuccess
                 /\ state'.rFailing = state.rFailing
         /\ IF Promotes(w)
            THEN state'.active = resp[w].body /\ state'.reviewed = None
            ELSE state'.active = state.active /\ state'.reviewed = state.reviewed
         /\ state'.content = IF ~ReportCheck(w) /\ resp[w].status = "200"
                             THEN resp[w].body ELSE state.content
         /\ state'.etag = IF ReportCheck(w) THEN state.etag ELSE resp[w].etag
         /\ state'.report = IF ReportCheck(w) /\ resp[w].status = "200"
                            THEN resp[w].body ELSE state.report
         /\ state'.reportEtag = IF ReportCheck(w) THEN resp[w].etag ELSE state.reportEtag
<1>1. state \in StateRow /\ view[w] = state /\ state' = CommittedState(w)
  BY DEF Commit, TypeOK, SessionInv, SessionNotStale, Working
<1> DEFINE s == Succeeded(state, kind[w], now[w])
<1>2. /\ s \in StateRow
      /\ s.checked = now[w] /\ s.success = now[w] /\ s.failing = FALSE
      /\ s.rChecked = IF kind[w] = "refresh" THEN now[w] ELSE state.rChecked
      /\ s.rSuccess = IF kind[w] = "refresh" THEN now[w] ELSE state.rSuccess
      /\ s.rFailing = IF kind[w] = "refresh" THEN FALSE ELSE state.rFailing
      /\ s.active = state.active /\ s.reviewed = state.reviewed
      /\ s.content = state.content /\ s.etag = state.etag
      /\ s.report = state.report /\ s.reportEtag = state.reportEtag
  <2>1. now[w] \in Time /\ s \in StateRow
    BY <1>1, StateRowExcept DEF TypeOK
  <2>2. CASE kind[w] = "refresh"
    BY <1>1, <2>1, <2>2 DEF Succeeded, StateRow
  <2>3. CASE kind[w] # "refresh"
    BY <1>1, <2>1, <2>3 DEF Succeeded, StateRow
  <2>4. QED
    BY <2>2, <2>3
<1> HIDE DEF s
<1>3. CASE ReportCheck(w)
  <2>1. state' = AcceptReport(s, resp[w]) /\ ~Promotes(w)
    BY <1>1, <1>3 DEF CommittedState, Promotes, s
  <2>2. QED
    BY <1>2, <1>3, <2>1 DEF AcceptReport, StateRow
<1>4. CASE ~ReportCheck(w) /\ resp[w].status = "200"
  <2>1. state' = [AcceptContent(s, resp[w]) EXCEPT !.etag = resp[w].etag]
    BY <1>1, <1>4 DEF CommittedState, NextValidator, s
  <2>2. Promotes(w) <=> ~Known(resp[w].body)
    BY <1>4 DEF Promotes
  <2>3. QED
    BY <1>2, <1>4, <2>1, <2>2 DEF AcceptContent, StateRow
<1>5. CASE ~ReportCheck(w) /\ resp[w].status # "200"
  <2>1. state' = [s EXCEPT !.etag = resp[w].etag] /\ ~Promotes(w)
    BY <1>1, <1>5 DEF CommittedState, NextValidator, Promotes, s
  <2>2. QED
    BY <1>2, <1>5, <2>1 DEF StateRow
<1>6. QED
  BY <1>3, <1>4, <1>5

(* ... and the lifecycles after it.                                        *)
LEMMA CommitLifecycle ==
  ASSUME TypeOK, SessionInv, NEW w \in Worker, Commit(w)
  PROVE  /\ Promotes(w) =>
              /\ resp[w].body \in Content \ Invalid
              /\ lifecycle[resp[w].body].activated = Never
              /\ lifecycle' = Supersede(lifecycle, state.active, resp[w].body, now[w])
         /\ ~Promotes(w) => lifecycle' = lifecycle
         /\ now[w] >= 1 /\ state.checked <= now[w] /\ now[w] \in Nat
  BY DEF Commit, Promotes, Acceptable, Known, TypeOK, Time, SessionInv, SessionNotStale,
         Working, JobShape, ResponseShape

LEMMA SelectState ==
  ASSUME TypeOK, SessionInv, NEW w \in Worker, NEW c \in Content, SelectSnapshot(w, c)
  PROVE  /\ lock = w /\ pc[w] = "operating" /\ Known(c)
         /\ now[w] >= 1 /\ state.checked <= now[w] /\ now[w] \in Nat
         /\ IF c = state.active
            THEN UNCHANGED <<state, lifecycle>>
            ELSE /\ state' = Reselected(state, c)
                 /\ lifecycle' = Reinstate(lifecycle, state.active, c, now[w])
  BY DEF SelectSnapshot, Auditable, InOrder, TypeOK, Time, SessionInv, SessionNotStale,
         Working, JobShape

LEMMA ReviewState ==
  ASSUME TypeOK, SessionInv, NEW w \in Worker, NEW c \in Content, NEW r \in Report,
         ReviewReport(w, c, r)
  PROVE  /\ r = state.report /\ c = state.active
         /\ state' = [state EXCEPT !.reviewed = r]
         /\ audit' = [snapshot |-> c, report |-> r]
         /\ UNCHANGED <<lifecycle, artifacts, servedAt>>
  BY DEF ReviewReport, BindsLatest, TypeOK, SessionInv, SessionNotStale, Working

LEMMA FailureState ==
  ASSUME TypeOK, SessionInv, NEW w \in Worker, RecordFailure(w)
  PROVE  /\ state' = FailedCheck(state, kind[w], now[w]) /\ now[w] \in Nat /\ now[w] >= 1
         /\ UNCHANGED <<lifecycle, artifacts, audit, servedAt>>
  BY DEF RecordFailure, evidence, TypeOK, Time, SessionInv, JobShape

LEMMA HoldLifecycle ==
  ASSUME TypeOK, NEW c \in Content, Hold(c)
  PROVE  /\ \A d \in Content :
              /\ lifecycle'[d].activated = lifecycle[d].activated
              /\ lifecycle'[d].superseded = lifecycle[d].superseded
              /\ lifecycle[d].held => lifecycle'[d].held
         /\ UNCHANGED <<state, artifacts, audit, servedAt>>
  BY DEF Hold, TypeOK, LifecycleRow

-----------------------------------------------------------------------------
(* The active pointer and the lifecycles                                   *)

LEMMA LiveInductive ==
  ASSUME TypeOK, SessionInv, ActiveIsTheLiveSnapshot, [Next]_vars
  PROVE  ActiveIsTheLiveSnapshot'
<1> USE ImportAssumption
<1>1. CASE Quiet
  BY <1>1 DEF Quiet, evidence, ActiveIsTheLiveSnapshot, Known
<1>2. ASSUME NEW w \in Worker, Commit(w) PROVE ActiveIsTheLiveSnapshot'
  <2>1. CASE ~Promotes(w)
    <3>1. state'.active = state.active
      BY <1>2, <2>1, CommitState
    <3>2. lifecycle' = lifecycle
      BY <1>2, <2>1, CommitLifecycle
    <3>3. QED
      BY <3>1, <3>2 DEF ActiveIsTheLiveSnapshot, Known
  <2>2. CASE Promotes(w)
    <3>1. /\ state'.active = resp[w].body /\ resp[w].body \in Content
          /\ lifecycle[resp[w].body].activated = Never
          /\ lifecycle' = Supersede(lifecycle, state.active, resp[w].body, now[w])
          /\ now[w] # Never
      <4>1. state'.active = resp[w].body
        BY <1>2, <2>2, CommitState
      <4>2. /\ resp[w].body \in Content /\ lifecycle[resp[w].body].activated = Never
            /\ lifecycle' = Supersede(lifecycle, state.active, resp[w].body, now[w])
            /\ now[w] >= 1 /\ now[w] \in Nat
        BY <1>2, <2>2, CommitLifecycle
      <4>3. QED
        BY <4>1, <4>2 DEF Never
    <3>2. state.active \in ContentOrNull
      BY DEF TypeOK, StateRow
    <3>3. ASSUME NEW c \in Content
          PROVE  /\ lifecycle'[c].activated = IF c = resp[w].body THEN now[w]
                                              ELSE lifecycle[c].activated
                 /\ lifecycle'[c].superseded = IF c = resp[w].body THEN Never
                                               ELSE IF c = state.active THEN now[w]
                                               ELSE lifecycle[c].superseded
      BY <3>1 DEF Supersede, TypeOK, LifecycleRow
    <3>4. QED
      BY <3>1, <3>2, <3>3 DEF ActiveIsTheLiveSnapshot, Known, ContentOrNull
  <2>3. QED
    BY <2>1, <2>2
<1>3. ASSUME NEW w \in Worker, RecordFailure(w) PROVE ActiveIsTheLiveSnapshot'
  <2>1. state'.active = state.active /\ lifecycle' = lifecycle
    BY <1>3, FailureState DEF FailedCheck, TypeOK, StateRow
  <2>2. QED
    BY <2>1 DEF ActiveIsTheLiveSnapshot, Known
<1>4. ASSUME NEW w \in Worker, NEW c \in Content, NEW r \in Report, ReviewReport(w, c, r)
      PROVE  ActiveIsTheLiveSnapshot'
  <2>1. state'.active = state.active /\ lifecycle' = lifecycle
    BY <1>4, ReviewState DEF TypeOK, StateRow
  <2>2. QED
    BY <2>1 DEF ActiveIsTheLiveSnapshot, Known
<1>5. ASSUME NEW w \in Worker, NEW c \in Content, SelectSnapshot(w, c)
      PROVE  ActiveIsTheLiveSnapshot'
  <2>1. CASE c = state.active
    <3>1. UNCHANGED <<state, lifecycle>>
      BY <1>5, <2>1, SelectState
    <3>2. QED
      BY <3>1 DEF ActiveIsTheLiveSnapshot, Known
  <2>2. CASE c # state.active
    <3>1. /\ state'.active = c /\ Known(c) /\ now[w] # Never
          /\ lifecycle' = Reinstate(lifecycle, state.active, c, now[w])
      <4>1. /\ state' = Reselected(state, c) /\ Known(c)
            /\ lifecycle' = Reinstate(lifecycle, state.active, c, now[w])
            /\ now[w] >= 1 /\ now[w] \in Nat
        BY <1>5, <2>2, SelectState
      <4>2. state'.active = c
        BY <4>1 DEF Reselected, TypeOK, StateRow
      <4>3. QED
        BY <4>1, <4>2 DEF Never
    <3>2. ASSUME NEW d \in Content
          PROVE  /\ lifecycle'[d].activated = lifecycle[d].activated
                 /\ lifecycle'[d].superseded = IF d = c THEN Never
                                               ELSE IF d = state.active THEN now[w]
                                               ELSE lifecycle[d].superseded
      BY <3>1 DEF Reinstate, TypeOK, LifecycleRow
    <3>3. QED
      BY <3>1, <3>2 DEF ActiveIsTheLiveSnapshot, Known
  <2>3. QED
    BY <2>1, <2>2
<1>6. ASSUME NEW c \in Content, Hold(c) PROVE ActiveIsTheLiveSnapshot'
  BY <1>6, HoldLifecycle DEF ActiveIsTheLiveSnapshot, Known
<1>7. QED
  BY <1>1, <1>2, <1>3, <1>4, <1>5, <1>6, StepCases DEF Writes

(* Readers always see one live snapshot: the one the pointer names.        *)
THEOREM OneLiveSnapshot == Spec => []ActiveIsTheLiveSnapshot
<1>1. Init => ActiveIsTheLiveSnapshot
  BY ImportAssumption DEF Init, ActiveIsTheLiveSnapshot, Known, NullState, NoLifecycle
<1>2. QED
  BY <1>1, InitOK, NextOK, LiveInductive, PTL DEF Spec

-----------------------------------------------------------------------------
(* Times                                                                   *)

(* A snapshot is activated by a check, and later checks are not earlier.   *)
ActivatedByCheck == \A c \in Content : lifecycle[c].activated <= state.checked

CheckTimes == <<state.checked, state.success, state.rChecked, state.rSuccess>>

LEMMA TimesAreNaturals ==
  ASSUME TypeOK
  PROVE  /\ state.checked \in Nat /\ state.success \in Nat
         /\ state.rChecked \in Nat /\ state.rSuccess \in Nat
         /\ state.failing \in BOOLEAN /\ state.rFailing \in BOOLEAN
         /\ \A c \in Content : /\ lifecycle[c].activated \in Nat
                               /\ lifecycle[c].superseded \in Nat
  BY DEF TypeOK, StateRow, LifecycleRow, Time

(* The check columns after each kind of step.                              *)
LEMMA CheckColumns ==
  ASSUME TypeOK, SessionInv, ChecksAgree, [Next]_vars
  PROVE  /\ ChecksAgree'
         /\ state.checked <= state'.checked /\ state.success <= state'.success
         /\ state.rChecked <= state'.rChecked /\ state.rSuccess <= state'.rSuccess
<1> DEFINE Goal == /\ ChecksAgree'
                   /\ state.checked <= state'.checked /\ state.success <= state'.success
                   /\ state.rChecked <= state'.rChecked /\ state.rSuccess <= state'.rSuccess
<1> DEFINE Same == /\ UNCHANGED CheckTimes
                   /\ state'.failing = state.failing /\ state'.rFailing = state.rFailing
<1>1. Same => Goal
  BY TimesAreNaturals DEF ChecksAgree, CheckTimes
<1>2. Quiet \/ (\E c \in Content : Hold(c)) => Same
  BY HoldLifecycle DEF Quiet, CheckTimes
<1>3. ASSUME NEW w \in Worker, NEW c \in Content, NEW r \in Report, ReviewReport(w, c, r)
      PROVE  Same
  BY <1>3, ReviewState DEF CheckTimes, TypeOK, StateRow
<1>4. ASSUME NEW w \in Worker, NEW c \in Content, SelectSnapshot(w, c) PROVE Same
  <2>1. state' = state \/ state' = Reselected(state, c)
    BY <1>4, SelectState
  <2>2. QED
    BY <2>1 DEF Reselected, CheckTimes, TypeOK, StateRow
<1>5. ASSUME NEW w \in Worker, Commit(w) PROVE Goal
  <2>1. /\ state'.checked = now[w] /\ state'.success = now[w] /\ state'.failing = FALSE
        /\ IF kind[w] = "refresh"
           THEN state'.rChecked = now[w] /\ state'.rSuccess = now[w] /\ ~state'.rFailing
           ELSE /\ state'.rChecked = state.rChecked /\ state'.rSuccess = state.rSuccess
                /\ state'.rFailing = state.rFailing
    BY <1>5, CommitState
  <2>2. state.checked <= now[w] /\ now[w] \in Nat
    BY <1>5, CommitLifecycle
  <2>3. QED
    BY <2>1, <2>2, TimesAreNaturals DEF ChecksAgree
<1>6. ASSUME NEW w \in Worker, RecordFailure(w) PROVE Goal
  <2>1. state' = FailedCheck(state, kind[w], now[w]) /\ now[w] \in Nat
    BY <1>6, FailureState
  <2>2. /\ state'.checked = Later(state.checked, now[w]) /\ state'.failing = TRUE
        /\ state'.success = state.success /\ state'.rSuccess = state.rSuccess
    BY <2>1 DEF FailedCheck, TypeOK, StateRow
  <2>3. IF kind[w] = "refresh"
        THEN state'.rChecked = Later(state.rChecked, now[w]) /\ state'.rFailing = TRUE
        ELSE state'.rChecked = state.rChecked /\ state'.rFailing = state.rFailing
    BY <2>1 DEF FailedCheck, TypeOK, StateRow
  <2>4. QED
    BY <2>1, <2>2, <2>3, TimesAreNaturals DEF ChecksAgree, Later
<1>7. QED
  BY <1>1, <1>2, <1>3, <1>4, <1>5, <1>6, StepCases DEF Writes

LEMMA ActiveIsActivated ==
  ASSUME ActiveIsTheLiveSnapshot, NEW c \in Content, c = state.active
  PROVE  lifecycle[c].activated # Never
  BY ImportAssumption DEF ActiveIsTheLiveSnapshot, Known

LEMMA ActivationsInductive ==
  ASSUME TypeOK, SessionInv, ActiveIsTheLiveSnapshot, ChecksAgree, ActivatedByCheck,
         SupersededAfterActivated, [Next]_vars
  PROVE  ActivatedByCheck' /\ SupersededAfterActivated'
<1> USE TimesAreNaturals
<1> DEFINE SameDates == \A c \in Content :
             /\ lifecycle'[c].activated = lifecycle[c].activated
             /\ lifecycle'[c].superseded = lifecycle[c].superseded
<1>1. state.checked <= state'.checked /\ state'.checked \in Nat
  BY CheckColumns, NextOK DEF TypeOK, StateRow, Time
<1>2. SameDates => ActivatedByCheck' /\ SupersededAfterActivated'
  BY <1>1 DEF ActivatedByCheck, SupersededAfterActivated
<1>3. Quiet \/ (\E c \in Content : Hold(c)) => SameDates
  BY HoldLifecycle DEF Quiet, evidence
<1>4. ASSUME NEW w \in Worker, RecordFailure(w) \/ (\E c \in Content, r \in Report : ReviewReport(w, c, r))
      PROVE  SameDates
  BY <1>4, FailureState, ReviewState
<1>5. ASSUME NEW w \in Worker, Commit(w)
      PROVE  ActivatedByCheck' /\ SupersededAfterActivated'
  <2>1. CASE ~Promotes(w)
    BY <1>2, <1>5, <2>1, CommitLifecycle
  <2>2. CASE Promotes(w)
    <3>1. /\ resp[w].body \in Content
          /\ lifecycle' = Supersede(lifecycle, state.active, resp[w].body, now[w])
          /\ state.checked <= now[w] /\ now[w] \in Nat
      BY <1>5, <2>2, CommitLifecycle
    <3>2. state'.checked = now[w]
      BY <1>5, CommitState
    <3>3. ASSUME NEW c \in Content
          PROVE  /\ lifecycle'[c].activated = IF c = resp[w].body THEN now[w]
                                              ELSE lifecycle[c].activated
                 /\ lifecycle'[c].superseded = IF c = resp[w].body THEN Never
                                               ELSE IF c = state.active THEN now[w]
                                               ELSE lifecycle[c].superseded
      BY <3>1 DEF Supersede, TypeOK, LifecycleRow
    <3>4. ActivatedByCheck'
      BY <3>1, <3>2, <3>3 DEF ActivatedByCheck
    <3>5. SupersededAfterActivated'
      <4>1. ASSUME NEW c \in Content, lifecycle'[c].superseded # Never
            PROVE  /\ lifecycle'[c].activated # Never
                   /\ lifecycle'[c].activated <= lifecycle'[c].superseded
        <5>1. CASE c = resp[w].body
          BY <3>3, <4>1, <5>1
        <5>2. CASE c # resp[w].body /\ c = state.active
          BY <3>1, <3>3, <5>2, ActiveIsActivated DEF ActivatedByCheck
        <5>3. CASE c # resp[w].body /\ c # state.active
          BY <3>3, <4>1, <5>3 DEF SupersededAfterActivated
        <5>4. QED
          BY <5>1, <5>2, <5>3
      <4>2. QED
        BY <4>1 DEF SupersededAfterActivated
    <3>6. QED
      BY <3>4, <3>5
  <2>3. QED
    BY <2>1, <2>2
<1>6. ASSUME NEW w \in Worker, NEW c \in Content, SelectSnapshot(w, c)
      PROVE  ActivatedByCheck' /\ SupersededAfterActivated'
  <2>1. CASE c = state.active
    BY <1>2, <1>6, <2>1, SelectState
  <2>2. CASE c # state.active
    <3>1. /\ lifecycle' = Reinstate(lifecycle, state.active, c, now[w])
          /\ state.checked <= now[w] /\ now[w] \in Nat
      BY <1>6, <2>2, SelectState
    <3>2. ASSUME NEW d \in Content
          PROVE  /\ lifecycle'[d].activated = lifecycle[d].activated
                 /\ lifecycle'[d].superseded = IF d = c THEN Never
                                               ELSE IF d = state.active THEN now[w]
                                               ELSE lifecycle[d].superseded
      BY <3>1 DEF Reinstate, TypeOK, LifecycleRow
    <3>3. ActivatedByCheck'
      BY <1>1, <3>2 DEF ActivatedByCheck
    <3>4. SupersededAfterActivated'
      <4>1. ASSUME NEW d \in Content, lifecycle'[d].superseded # Never
            PROVE  /\ lifecycle'[d].activated # Never
                   /\ lifecycle'[d].activated <= lifecycle'[d].superseded
        <5>1. CASE d = c
          BY <3>2, <4>1, <5>1
        <5>2. CASE d # c /\ d = state.active
          BY <3>1, <3>2, <5>2, ActiveIsActivated DEF ActivatedByCheck
        <5>3. CASE d # c /\ d # state.active
          BY <3>2, <4>1, <5>3 DEF SupersededAfterActivated
        <5>4. QED
          BY <5>1, <5>2, <5>3
      <4>2. QED
        BY <4>1 DEF SupersededAfterActivated
    <3>5. QED
      BY <3>3, <3>4
  <2>3. QED
    BY <2>1, <2>2
<1>7. QED
  BY <1>2, <1>3, <1>4, <1>5, <1>6, StepCases DEF Writes

TimesInv == ChecksAgree /\ ActivatedByCheck /\ SupersededAfterActivated

LEMMA InitTimes == Init => ActiveIsTheLiveSnapshot /\ TimesInv
  BY ImportAssumption DEF Init, TimesInv, ActiveIsTheLiveSnapshot, Known, ChecksAgree,
     ActivatedByCheck, SupersededAfterActivated, NullState, NoLifecycle, Never

(* The check columns are consistent whatever the hosts' clocks say.        *)
THEOREM CheckColumnsAgree == Spec => []ChecksAgree
<1>1. TypeOK /\ SessionInv /\ ChecksAgree /\ [Next]_vars => ChecksAgree'
  BY CheckColumns
<1>2. Init => ChecksAgree
  BY InitTimes DEF TimesInv
<1>3. QED
  BY <1>1, <1>2, InitOK, NextOK, PTL DEF Spec

(* Recorded check times never go back.                                     *)
THEOREM CheckTimesNeverGoBack == Spec => CheckTimesAdvance
<1>1. TypeOK /\ SessionInv /\ ChecksAgree /\ [Next]_vars => 
        [ /\ state.checked <= state'.checked /\ state.success <= state'.success
          /\ state.rChecked <= state'.rChecked /\ state.rSuccess <= state'.rSuccess ]_vars
  BY CheckColumns
<1>2. Spec => []ChecksAgree
  BY CheckColumnsAgree
<1>3. QED
  BY <1>1, <1>2, InitOK, NextOK, PTL DEF Spec, CheckTimesAdvance

(* No supersession is dated before the activation it ends.                 *)
THEOREM SupersessionsFollowActivations == Spec => []SupersededAfterActivated
<1>1. Init => TypeOK /\ SessionInv /\ ActiveIsTheLiveSnapshot /\ TimesInv
  BY InitOK, InitTimes
<1>2. TypeOK /\ SessionInv /\ ActiveIsTheLiveSnapshot /\ TimesInv /\ [Next]_vars =>
        TypeOK' /\ SessionInv' /\ ActiveIsTheLiveSnapshot' /\ TimesInv'
  BY NextOK, LiveInductive, CheckColumns, ActivationsInductive DEF TimesInv
<1>3. TimesInv => SupersededAfterActivated
  BY DEF TimesInv
<1>4. QED
  BY <1>1, <1>2, <1>3, PTL DEF Spec

-----------------------------------------------------------------------------
(* What moves the pointer, and what is never lost                          *)

(* Every step as readers see it: the pointer stays, a new valid body is    *)
(* promoted, or a selection moves the pointer.                             *)
PointerStays ==
  /\ state'.active = state.active
  /\ \A c \in Content : /\ lifecycle'[c].activated = lifecycle[c].activated
                        /\ lifecycle'[c].superseded = lifecycle[c].superseded
                        /\ lifecycle[c].held => lifecycle'[c].held

Promoted(c, t) ==
  /\ ~Known(c) /\ c \notin Invalid /\ t # Never
  /\ state'.active = c /\ state'.content = c /\ state'.reviewed = None
  /\ \A d \in Content :
       /\ lifecycle'[d].activated = IF d = c THEN t ELSE lifecycle[d].activated
       /\ d # c /\ lifecycle[d].held => lifecycle'[d].held

Selected(c) ==
  /\ Known(c) /\ c # state.active
  /\ \E w \in Worker : lock = w /\ pc[w] = "operating"
  /\ state'.active = c /\ state'.reviewed = None
  /\ \A d \in Content : /\ lifecycle'[d].activated = lifecycle[d].activated
                        /\ lifecycle[d].held => lifecycle'[d].held

LEMMA ReaderSteps ==
  ASSUME TypeOK, SessionInv, [Next]_vars
  PROVE  \/ /\ PointerStays
            /\ \/ state'.reviewed = state.reviewed
               \/ state.active \in Content /\ state'.reviewed \in Report
         \/ \E c \in Content, t \in Nat : Promoted(c, t)
         \/ \E c \in Content : Selected(c)
<1> DEFINE Unmoved == /\ PointerStays
                      /\ \/ state'.reviewed = state.reviewed
                         \/ state.active \in Content /\ state'.reviewed \in Report
<1>1. CASE Quiet
  BY <1>1 DEF Quiet, evidence, PointerStays
<1>2. ASSUME NEW c \in Content, Hold(c) PROVE Unmoved
  BY <1>2, HoldLifecycle DEF PointerStays
<1>3. ASSUME NEW w \in Worker, RecordFailure(w) PROVE Unmoved
  <2>1. state'.active = state.active /\ state'.reviewed = state.reviewed
    BY <1>3, FailureState DEF FailedCheck, TypeOK, StateRow
  <2>2. lifecycle' = lifecycle
    BY <1>3, FailureState
  <2>3. QED
    BY <2>1, <2>2 DEF PointerStays
<1>4. ASSUME NEW w \in Worker, NEW c \in Content, NEW r \in Report, ReviewReport(w, c, r)
      PROVE  Unmoved
  <2>1. r = state.report /\ c = state.active /\ lifecycle' = lifecycle
    BY <1>4, ReviewState
  <2>2. state'.active = state.active /\ state'.reviewed = r
    BY <1>4, ReviewState DEF TypeOK, StateRow
  <2>3. QED
    BY <2>1, <2>2 DEF PointerStays
<1>5. ASSUME NEW w \in Worker, Commit(w)
      PROVE  Unmoved \/ \E c \in Content, t \in Nat : Promoted(c, t)
  <2>1. CASE ~Promotes(w)
    <3>1. state'.active = state.active /\ state'.reviewed = state.reviewed
      BY <1>5, <2>1, CommitState
    <3>2. lifecycle' = lifecycle
      BY <1>5, <2>1, CommitLifecycle
    <3>3. QED
      BY <3>1, <3>2 DEF PointerStays
  <2>2. CASE Promotes(w)
    <3> DEFINE c == resp[w].body
    <3>1. /\ c \in Content \ Invalid /\ lifecycle[c].activated = Never
          /\ lifecycle' = Supersede(lifecycle, state.active, c, now[w])
          /\ now[w] >= 1 /\ now[w] \in Nat
      BY <1>5, <2>2, CommitLifecycle
    <3>2. state'.active = c /\ state'.reviewed = None
      BY <1>5, <2>2, CommitState
    <3>3. state'.content = c
      BY <1>5, <2>2, CommitState DEF Promotes
    <3>4. \A d \in Content :
            /\ lifecycle'[d].activated = IF d = c THEN now[w] ELSE lifecycle[d].activated
            /\ d # c /\ lifecycle[d].held => lifecycle'[d].held
      BY <3>1 DEF Supersede, TypeOK, LifecycleRow
    <3>5. Promoted(c, now[w])
      BY <3>1, <3>2, <3>3, <3>4 DEF Promoted, Known, Never
    <3>6. QED
      BY <3>1, <3>5
  <2>3. QED
    BY <2>1, <2>2
<1>6. ASSUME NEW w \in Worker, NEW c \in Content, SelectSnapshot(w, c)
      PROVE  Unmoved \/ Selected(c)
  <2>1. CASE c = state.active
    <3>1. UNCHANGED <<state, lifecycle>>
      BY <1>6, <2>1, SelectState
    <3>2. QED
      BY <3>1 DEF PointerStays
  <2>2. CASE c # state.active
    <3>1. /\ lock = w /\ pc[w] = "operating" /\ Known(c)
          /\ state' = Reselected(state, c)
          /\ lifecycle' = Reinstate(lifecycle, state.active, c, now[w])
      BY <1>6, <2>2, SelectState
    <3>2. state'.active = c /\ state'.reviewed = None
      BY <3>1 DEF Reselected, TypeOK, StateRow
    <3>3. \A d \in Content : /\ lifecycle'[d].activated = lifecycle[d].activated
                             /\ lifecycle[d].held => lifecycle'[d].held
      BY <3>1 DEF Reinstate, TypeOK, LifecycleRow
    <3>4. QED
      BY <2>2, <3>1, <3>2, <3>3 DEF Selected
  <2>3. QED
    BY <2>1, <2>2
<1>7. QED
  BY <1>1, <1>2, <1>3, <1>4, <1>5, <1>6, StepCases DEF Writes

(* The pointer moves only by a first promotion or an operator's selection. *)
THEOREM PointerMovesOnlySo == Spec => PointerMovesExplained
<1> DEFINE Moves == \/ state'.active # state.active
                    \/ \E c \in Content : lifecycle'[c].superseded # lifecycle[c].superseded
<1> DEFINE Explained ==
      \/ ~Known(state'.active) /\ state'.active \notin Invalid /\ state'.content = state'.active
      \/ Known(state'.active) /\ \E w \in Worker : lock = w /\ pc[w] = "operating"
<1>1. TypeOK /\ SessionInv /\ [Next]_vars => (Moves => Explained)
  <2> SUFFICES ASSUME TypeOK, SessionInv, [Next]_vars, Moves PROVE Explained
    OBVIOUS
  <2>1. ~PointerStays
    BY DEF PointerStays
  <2>2. ASSUME NEW c \in Content, NEW t \in Nat, Promoted(c, t) PROVE Explained
    BY <2>2 DEF Promoted
  <2>3. ASSUME NEW c \in Content, Selected(c) PROVE Explained
    BY <2>3 DEF Selected
  <2>4. QED
    BY <2>1, <2>2, <2>3, ReaderSteps
<1>2. QED
  BY <1>1, InitOK, NextOK, PTL DEF Spec, PointerMovesExplained

LEMMA ArtifactsGrow ==
  ASSUME TypeOK, SessionInv, [Next]_vars
  PROVE  artifacts \subseteq artifacts'
<1>1. ASSUME NEW w \in Worker, Writes(w) PROVE artifacts \subseteq artifacts'
  BY <1>1 DEF Writes, Commit, Archive, RecordFailure, ReviewReport, SelectSnapshot, evidence
<1>2. QED
  BY <1>1, StepCases, HoldLifecycle DEF Quiet, evidence

(* Accepted snapshots, their activation times, their holds and the report  *)
(* artifacts are never lost.                                               *)
THEOREM EvidenceIsNeverLost == Spec => EvidenceIsKept
<1>1. TypeOK /\ SessionInv /\ [Next]_vars =>
        /\ artifacts \subseteq artifacts'
        /\ \A c \in Content : Known(c) =>
             /\ lifecycle'[c].activated = lifecycle[c].activated
             /\ lifecycle[c].held => lifecycle'[c].held
  <2> SUFFICES ASSUME TypeOK, SessionInv, [Next]_vars, NEW c \in Content, Known(c)
               PROVE  /\ lifecycle'[c].activated = lifecycle[c].activated
                      /\ lifecycle[c].held => lifecycle'[c].held
    BY ArtifactsGrow
  <2>1. CASE PointerStays
    BY <2>1 DEF PointerStays
  <2>2. ASSUME NEW d \in Content, NEW t \in Nat, Promoted(d, t)
        PROVE  /\ lifecycle'[c].activated = lifecycle[c].activated
               /\ lifecycle[c].held => lifecycle'[c].held
    <3>1. c # d
      BY <2>2 DEF Promoted
    <3>2. QED
      BY <2>2, <3>1 DEF Promoted
  <2>3. ASSUME NEW d \in Content, Selected(d)
        PROVE  /\ lifecycle'[c].activated = lifecycle[c].activated
               /\ lifecycle[c].held => lifecycle'[c].held
    BY <2>3 DEF Selected
  <2>4. QED
    BY <2>1, <2>2, <2>3, ReaderSteps
<1>2. QED
  BY <1>1, InitOK, NextOK, PTL DEF Spec, EvidenceIsKept

-----------------------------------------------------------------------------
(* The import implements the readers' pointer                              *)

Accepted == {c \in Content : Known(c)}

LEMMA PointerStep ==
  ASSUME TypeOK, SessionInv, ActiveIsTheLiveSnapshot, [Next]_vars
  PROVE  [Pointer!Next]_(Pointer!vars)
<1> USE ImportAssumption DEF Pointer!Next, Pointer!vars
<1>1. CASE /\ PointerStays
           /\ \/ state'.reviewed = state.reviewed
              \/ state.active \in Content /\ state'.reviewed \in Report
  <2>1. \A c \in Content : Known(c)' <=> Known(c)
    BY <1>1 DEF PointerStays, Known
  <2>2. Accepted' = Accepted /\ state'.active = state.active
    BY <1>1, <2>1 DEF PointerStays, Accepted
  <2>3. CASE (state'.reviewed # None) = (state.reviewed # None)
    BY <2>2, <2>3 DEF Accepted
  <2>4. CASE (state'.reviewed # None) # (state.reviewed # None)
    <3>1. CASE state'.reviewed # None
      <4>1. Pointer!Attest
        BY <1>1, <2>2, <2>4, <3>1 DEF Pointer!Attest, Accepted
      <4>2. QED
        BY <4>1
    <3>2. CASE state'.reviewed = None
      BY <1>1, <2>2, <2>4, <3>2 DEF Accepted
    <3>3. QED
      BY <3>1, <3>2
  <2>5. QED
    BY <2>3, <2>4
<1>2. ASSUME NEW c \in Content, NEW t \in Nat, Promoted(c, t)
      PROVE  Pointer!Promote(c)
  <2>1. \A d \in Content : Known(d)' <=> Known(d) \/ d = c
    BY <1>2 DEF Promoted, Known
  <2>2. Accepted' = Accepted \cup {c} /\ c \notin Accepted
    BY <1>2, <2>1 DEF Promoted, Accepted
  <2>3. QED
    BY <1>2, <2>2 DEF Promoted, Pointer!Promote, Accepted
<1>3. ASSUME NEW c \in Content, Selected(c) PROVE Pointer!Select(c)
  <2>1. \A d \in Content : Known(d)' <=> Known(d)
    BY <1>3 DEF Selected, Known
  <2>2. Accepted' = Accepted /\ c \in Accepted
    BY <1>3, <2>1 DEF Selected, Accepted
  <2>3. QED
    BY <1>3, <2>2 DEF Selected, Pointer!Select, Accepted
<1>4. QED
  BY <1>1, <1>2, <1>3, ReaderSteps

(* Refinement: to its readers the import of a source is an EvidencePointer. *)
THEOREM ImportImplementsPointer == Spec => ImplementsPointer
<1>1. Init => Pointer!Init
  BY DEF Init, Pointer!Init, Known, NullState, NoLifecycle
<1>2. TypeOK /\ SessionInv /\ ActiveIsTheLiveSnapshot /\ [Next]_vars =>
        [Pointer!Next]_(Pointer!vars)
  BY PointerStep
<1>3. Spec => []ActiveIsTheLiveSnapshot
  BY OneLiveSnapshot
<1>4. QED
  BY <1>1, <1>2, <1>3, InitOK, NextOK, PTL DEF Spec, ImplementsPointer, Pointer!Spec

-----------------------------------------------------------------------------
(* Attestations                                                            *)

(* A reviewed hash in the row is the latest audit row's, for the snapshot  *)
(* that is active; a report hash in the row is archived.                   *)
AttestationInv ==
  /\ state.reviewed # None => audit = [snapshot |-> state.active, report |-> state.reviewed]
  /\ state.reviewed # None => state.reviewed \in artifacts
  /\ state.report # None => state.report \in artifacts

LEMMA AttestationInductive ==
  ASSUME TypeOK, SessionInv, AttestationInv, [Next]_vars
  PROVE  AttestationInv'
<1> USE ImportAssumption
<1>1. CASE Quiet \/ (\E c \in Content : Hold(c))
  BY <1>1, HoldLifecycle DEF Quiet, evidence, AttestationInv
<1>2. ASSUME NEW w \in Worker, Commit(w) PROVE AttestationInv'
  <2>1. audit' = audit /\ artifacts \subseteq artifacts'
    BY <1>2, ArtifactsGrow DEF Commit
  <2>2. \/ state'.active = state.active /\ state'.reviewed = state.reviewed
        \/ state'.reviewed = None
    BY <1>2, CommitState
  <2>3. \/ state'.report = state.report
        \/ state'.report = resp[w].body /\ ReportCheck(w) /\ resp[w].status = "200"
    BY <1>2, CommitState
  <2>4. ReportCheck(w) /\ resp[w].status = "200" => resp[w].body \in artifacts'
    BY <1>2 DEF Commit, Archive
  <2>5. QED
    BY <2>1, <2>2, <2>3, <2>4 DEF AttestationInv
<1>3. ASSUME NEW w \in Worker, RecordFailure(w) PROVE AttestationInv'
  <2>1. /\ state'.active = state.active /\ state'.reviewed = state.reviewed
        /\ state'.report = state.report
    BY <1>3, FailureState DEF FailedCheck, TypeOK, StateRow
  <2>2. UNCHANGED <<artifacts, audit>>
    BY <1>3, FailureState
  <2>3. QED
    BY <2>1, <2>2 DEF AttestationInv
<1>4. ASSUME NEW w \in Worker, NEW c \in Content, NEW r \in Report, ReviewReport(w, c, r)
      PROVE  AttestationInv'
  <2>1. /\ r = state.report /\ c = state.active /\ artifacts' = artifacts
        /\ audit' = [snapshot |-> c, report |-> r]
    BY <1>4, ReviewState
  <2>2. state'.active = state.active /\ state'.reviewed = r /\ state'.report = state.report
    BY <1>4, ReviewState DEF TypeOK, StateRow
  <2>3. QED
    BY <2>1, <2>2 DEF AttestationInv
<1>5. ASSUME NEW w \in Worker, NEW c \in Content, SelectSnapshot(w, c) PROVE AttestationInv'
  <2>1. UNCHANGED <<artifacts, audit>>
    BY <1>5 DEF SelectSnapshot
  <2>2. state' = state \/ state' = Reselected(state, c)
    BY <1>5, SelectState
  <2>3. CASE state' = Reselected(state, c)
    <3>1. state'.reviewed = None /\ state'.report = state.report
      BY <2>3 DEF Reselected, TypeOK, StateRow
    <3>2. QED
      BY <2>1, <3>1 DEF AttestationInv
  <2>4. QED
    BY <2>1, <2>2, <2>3 DEF AttestationInv
<1>6. QED
  BY <1>1, <1>2, <1>3, <1>4, <1>5, StepCases DEF Writes

(* "Nothing pending" always means an attestation of the latest report for  *)
(* the snapshot that is active now.                                        *)
THEOREM AttestationsCover == Spec => []AttestationCoversActive
<1>1. Init => AttestationInv
  BY DEF Init, AttestationInv, NullState
<1>2. AttestationInv => AttestationCoversActive
  BY DEF AttestationInv, AttestationCoversActive
<1>3. QED
  BY <1>1, <1>2, InitOK, NextOK, AttestationInductive, PTL DEF Spec
-----------------------------------------------------------------------------
(* Validators, and the service a recorded refresh shows                    *)

(* Between two steps a response stays with the row it will be compared to. *)
LEMMA RespondedStep ==
  ASSUME TypeOK, SessionInv, [Next]_vars, NEW v \in Worker, pc'[v] = "responded"
  PROVE  \/ Respond(v)
         \/ pc[v] = "responded" /\ clock <= clock' /\ UNCHANGED <<state, resp, kind, now>>
<1> USE ImportAssumption
<1> DEFINE Kept == pc[v] = "responded" /\ clock <= clock' /\ UNCHANGED <<state, resp, kind, now>>
<1>1. CASE UNCHANGED vars \/ PublishUpstream \/ Tick \/ \E c \in Content : Hold(c)
  BY <1>1 DEF vars, PublishUpstream, Tick, Hold, jobVars, evidence, TypeOK, Time
<1>2. ASSUME NEW w \in Worker, Check(w) \/ Operate(w) PROVE Respond(v)
  <2>1. pc'[w] = "responded" => Respond(w)
    BY <1>2 DEF Check, Operate, BeginCheck, Rollback, Commit, RecordFailure, Release, Crash,
                EndSession, BeginCommand, RejectCommand, ReviewReport, SelectSnapshot, TypeOK
  <2>2. w # v => pc'[v] = pc[v]
    BY <1>2 DEF Check, Operate, BeginCheck, Respond, Rollback, Commit, RecordFailure, Release,
                Crash, EndSession, BeginCommand, RejectCommand, ReviewReport, SelectSnapshot,
                TypeOK
  <2>3. lock = None \/ lock = w
    BY <1>2 DEF Check, Operate, BeginCheck, TryLock, Respond, Rollback, Commit, RecordFailure,
                Release, Unlocks, Crash, BeginCommand, RejectCommand, ReviewReport,
                SelectSnapshot, TypeOK, SessionInv, HolderIsBusy
  <2>4. w = v
    BY <2>2, <2>3 DEF SessionInv, HolderIsBusy
  <2>5. QED
    BY <2>1, <2>4
<1>3. QED
  BY <1>1, <1>2 DEF Next

(* The validators of the row name the bytes last accepted, and an answer   *)
(* in flight carries the validator of its own body or, for Not Modified,   *)
(* of the accepted bytes.                                                  *)
RowValidators == state.etag \in {None, state.content} /\ state.reportEtag \in {None, state.report}

AnswerValidator(w) ==
  \/ resp[w].status = "200" /\ resp[w].etag \in {None, resp[w].body}
  \/ /\ resp[w].status = "304"
     /\ resp[w].etag = IF ReportCheck(w) THEN state.report ELSE state.content

ValidatorInv ==
  StrictServer => /\ RowValidators
                  /\ \A w \in Worker : pc[w] = "responded" => AnswerValidator(w)

LEMMA StrictAnswer ==
  ASSUME TypeOK, SessionInv, StrictServer, RowValidators, NEW w \in Worker, Respond(w)
  PROVE  AnswerValidator(w)'
<1> USE ImportAssumption
<1>1. /\ view[w] = state /\ UNCHANGED <<state, kind>> /\ pc[w] = "fetching"
      /\ resp \in [Worker -> Response] /\ upstream # None
  BY DEF Respond, SessionInv, SessionNotStale, Working, TypeOK, Body
<1>2. ReportCheck(w)' = ReportCheck(w)
  BY <1>1 DEF ReportCheck
<1>3. CASE resp'[w].status = "200"
  <2>1. resp'[w].etag \in {None, resp'[w].body}
    BY <1>1, <1>3 DEF Respond
  <2>2. QED
    BY <1>3, <2>1 DEF AnswerValidator
<1>4. CASE resp'[w].status # "200"
  <2>1. /\ resp'[w].status = "304" /\ Sent(w) = upstream
        /\ resp'[w].etag \in {upstream, Sent(w)} /\ kind[w] # "bytes"
    BY <1>1, <1>4 DEF Respond
  <2>2. Sent(w) = IF ReportCheck(w) THEN state.reportEtag ELSE state.etag
    BY <1>1, <2>1 DEF Sent
  <2>3. Sent(w) = IF ReportCheck(w) THEN state.report ELSE state.content
    BY <1>1, <2>1, <2>2 DEF RowValidators
  <2>4. QED
    BY <1>1, <1>2, <2>1, <2>3 DEF AnswerValidator
<1>5. QED
  BY <1>3, <1>4

LEMMA RowValidatorsKept ==
  ASSUME TypeOK, SessionInv, StrictServer, ValidatorInv, [Next]_vars
  PROVE  RowValidators'
<1> DEFINE Same == /\ state'.etag = state.etag /\ state'.content = state.content
                   /\ state'.report = state.report /\ state'.reportEtag = state.reportEtag
<1>1. Same => RowValidators'
  BY DEF RowValidators, ValidatorInv
<1>2. CASE Quiet \/ (\E c \in Content : Hold(c))
  BY <1>1, <1>2, HoldLifecycle DEF Quiet
<1>3. ASSUME NEW w \in Worker, RecordFailure(w) PROVE Same
  <2>1. state' = FailedCheck(state, kind[w], now[w]) /\ servedAt' = servedAt
    BY <1>3, FailureState
  <2>2. QED
    BY <2>1 DEF FailedCheck, TypeOK, StateRow
<1>4. ASSUME NEW w \in Worker, NEW c \in Content, NEW r \in Report, ReviewReport(w, c, r)
      PROVE  Same
  BY <1>4, ReviewState DEF TypeOK, StateRow
<1>5. ASSUME NEW w \in Worker, NEW c \in Content, SelectSnapshot(w, c) PROVE Same
  <2>1. state' = state \/ state' = Reselected(state, c)
    BY <1>5, SelectState
  <2>2. QED
    BY <2>1 DEF Reselected, TypeOK, StateRow
<1>6. ASSUME NEW w \in Worker, Commit(w) PROVE RowValidators'
  <2>1. AnswerValidator(w)
    BY <1>6 DEF Commit, ValidatorInv
  <2>2. CASE ReportCheck(w)
    BY <1>6, <2>1, <2>2, CommitState DEF AnswerValidator, RowValidators, ValidatorInv
  <2>3. CASE ~ReportCheck(w)
    BY <1>6, <2>1, <2>3, CommitState DEF AnswerValidator, RowValidators, ValidatorInv
  <2>4. QED
    BY <2>2, <2>3
<1>7. QED
  BY <1>1, <1>2, <1>3, <1>4, <1>5, <1>6, StepCases DEF Writes

LEMMA ValidatorsInductive ==
  ASSUME TypeOK, SessionInv, ValidatorInv, [Next]_vars
  PROVE  ValidatorInv'
<1> SUFFICES ASSUME StrictServer PROVE ValidatorInv'
  BY DEF ValidatorInv
<1>1. RowValidators'
  BY RowValidatorsKept
<1>2. ASSUME NEW w \in Worker, pc'[w] = "responded" PROVE AnswerValidator(w)'
  <2>1. CASE Respond(w)
    BY <2>1, StrictAnswer DEF ValidatorInv
  <2>2. CASE pc[w] = "responded" /\ UNCHANGED <<state, resp, kind>>
    BY <2>2 DEF ValidatorInv, AnswerValidator, ReportCheck
  <2>3. QED
    BY <1>2, <2>1, <2>2, RespondedStep
<1>3. QED
  BY <1>1, <1>2 DEF ValidatorInv

(* Not Modified is believed only about the bytes that were last accepted.  *)
THEOREM NotModifiedIsAccepted == Spec => []NotModifiedMeansAccepted
<1>1. Init => ValidatorInv
  BY DEF Init, ValidatorInv, RowValidators, NullState
<1>2. ValidatorInv => NotModifiedMeansAccepted
  BY DEF ValidatorInv, NotModifiedMeansAccepted, AnswerValidator
<1>3. QED
  BY <1>1, <1>2, InitOK, NextOK, ValidatorsInductive, PTL DEF Spec

(* The clock a check read is no further ahead of its answer than the skew, *)
(* and a recorded refresh no further ahead of the answer it records.       *)
ReadClocks == clock >= 1 /\ \A w \in Worker : now[w] <= clock + Skew

AnswerTimes ==
  \A w \in Worker : pc[w] = "responded" =>
    resp[w].at >= 1 /\ resp[w].at \in Nat /\ now[w] <= resp[w].at + Skew

RecordedService ==
  state.rSuccess # Never => servedAt # Never /\ state.rSuccess <= servedAt + Skew

ServedInv == ReadClocks /\ AnswerTimes /\ RecordedService

LEMMA ReadClocksKept ==
  ASSUME TypeOK, ReadClocks, [Next]_vars
  PROVE  ReadClocks'
<1> USE ImportAssumption
<1>1. clock \in Nat /\ Skew \in Nat /\ now \in [Worker -> Nat]
  BY DEF TypeOK, Time
<1>2. CASE UNCHANGED vars \/ PublishUpstream \/ Tick \/ \E c \in Content : Hold(c)
  <2>1. now' = now /\ clock' \in Nat /\ clock' >= clock
    BY <1>1, <1>2 DEF vars, PublishUpstream, Tick, Hold, jobVars
  <2>2. QED
    BY <1>1, <2>1 DEF ReadClocks
<1>3. ASSUME NEW w \in Worker, Check(w) \/ Operate(w) PROVE ReadClocks'
  <2>1. clock' = clock
    BY <1>3 DEF Check, Operate, BeginCheck, Respond, Rollback, Commit, RecordFailure, Release,
                Crash, EndSession, BeginCommand, RejectCommand, ReviewReport, SelectSnapshot
  <2>2. CASE (\E k \in Kind : BeginCheck(w, k)) \/ BeginCommand(w)
    <3>1. PICK t \in 1 .. clock + Skew : now' = [now EXCEPT ![w] = t]
      BY <2>2 DEF BeginCheck, BeginCommand, HostClock
    <3>2. QED
      BY <1>1, <2>1, <3>1 DEF ReadClocks
  <2>3. CASE Release(w) \/ Crash(w)
    <3>1. now' = [now EXCEPT ![w] = 0]
      BY <2>3 DEF Release, Crash, EndSession, Never
    <3>2. QED
      BY <1>1, <2>1, <3>1 DEF ReadClocks
  <2>4. CASE UNCHANGED now
    BY <1>1, <2>1, <2>4 DEF ReadClocks
  <2>5. QED
    BY <1>3, <2>2, <2>3, <2>4 DEF Check, Operate, Respond, Rollback, Commit, RecordFailure,
                                  RejectCommand, ReviewReport, SelectSnapshot
<1>4. QED
  BY <1>2, <1>3 DEF Next

LEMMA AnswerTimesKept ==
  ASSUME TypeOK, SessionInv, ReadClocks, AnswerTimes, [Next]_vars
  PROVE  AnswerTimes'
<1> SUFFICES ASSUME NEW w \in Worker, pc'[w] = "responded"
             PROVE  resp'[w].at >= 1 /\ resp'[w].at \in Nat /\ now'[w] <= resp'[w].at + Skew
  BY DEF AnswerTimes
<1>1. CASE Respond(w)
  <2>1. resp'[w].at = clock /\ now' = now
    BY <1>1 DEF Respond, TypeOK
  <2>2. QED
    BY <2>1 DEF ReadClocks, TypeOK, Time
<1>2. CASE pc[w] = "responded" /\ UNCHANGED <<resp, now>>
  BY <1>2 DEF AnswerTimes
<1>3. QED
  BY <1>1, <1>2, RespondedStep

LEMMA ServiceKept ==
  ASSUME TypeOK, SessionInv, ServedInv, [Next]_vars
  PROVE  RecordedService'
<1> DEFINE Same == state'.rSuccess = state.rSuccess /\ servedAt' = servedAt
<1>1. Same => RecordedService'
  BY DEF ServedInv, RecordedService
<1>2. CASE Quiet \/ (\E c \in Content : Hold(c))
  BY <1>1, <1>2, HoldLifecycle DEF Quiet
<1>3. ASSUME NEW w \in Worker, RecordFailure(w) PROVE Same
  <2>1. state' = FailedCheck(state, kind[w], now[w]) /\ servedAt' = servedAt
    BY <1>3, FailureState
  <2>2. QED
    BY <2>1 DEF FailedCheck, TypeOK, StateRow
<1>4. ASSUME NEW w \in Worker, NEW c \in Content, NEW r \in Report, ReviewReport(w, c, r)
      PROVE  Same
  BY <1>4, ReviewState DEF TypeOK, StateRow
<1>5. ASSUME NEW w \in Worker, NEW c \in Content, SelectSnapshot(w, c) PROVE Same
  <2>1. state' = state \/ state' = Reselected(state, c)
    BY <1>5, SelectState
  <2>2. servedAt' = servedAt
    BY <1>5 DEF SelectSnapshot
  <2>3. QED
    BY <2>1, <2>2 DEF Reselected, TypeOK, StateRow
<1>6. ASSUME NEW w \in Worker, Commit(w) PROVE RecordedService'
  <2>1. CASE kind[w] = "refresh"
    <3>1. state'.rSuccess = now[w] /\ servedAt' = resp[w].at
      BY <1>6, <2>1, CommitState DEF Commit
    <3>2. resp[w].at >= 1 /\ resp[w].at \in Nat /\ now[w] <= resp[w].at + Skew
      BY <1>6 DEF Commit, ServedInv, AnswerTimes
    <3>3. QED
      BY <3>1, <3>2 DEF RecordedService, Never
  <2>2. CASE kind[w] # "refresh"
    <3>1. Same
      BY <1>6, <2>2, CommitState DEF Commit
    <3>2. QED
      BY <1>1, <3>1
  <2>3. QED
    BY <2>1, <2>2
<1>7. QED
  BY <1>1, <1>2, <1>3, <1>4, <1>5, <1>6, StepCases DEF Writes

(* A source that looks fresh was answered by upstream within the limit and *)
(* the skew of the checking and the reading host.                          *)
THEOREM HealthyIsServed == Spec => []HealthyMeansServed
<1>1. Init => ServedInv
  BY ImportAssumption
     DEF Init, ServedInv, ReadClocks, AnswerTimes, RecordedService, NullState, Never
<1>2. TypeOK /\ SessionInv /\ ServedInv /\ [Next]_vars => ServedInv'
  BY ReadClocksKept, AnswerTimesKept, ServiceKept DEF ServedInv
<1>3. TypeOK /\ ServedInv => HealthyMeansServed
  <2>1. TypeOK => clock \in Nat /\ servedAt \in Nat /\ state.rSuccess \in Nat
    BY TimesAreNaturals DEF TypeOK, Time
  <2>2. QED
    BY <2>1, ImportAssumption DEF ServedInv, RecordedService, HealthyMeansServed, HostClock, Missed
<1>4. QED
  BY <1>1, <1>2, <1>3, InitOK, NextOK, PTL DEF Spec
=============================================================================
