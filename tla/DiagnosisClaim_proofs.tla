----------------------- MODULE DiagnosisClaim_proofs -----------------------
(***************************************************************************)
(* Proofs about DiagnosisClaim, for any number of launches, builds, stages *)
(* and runtimes.  The inductive invariant follows one launch: what its     *)
(* phase says of its request on the server (AgentOK), and that claims      *)
(* belong to the failure they are filed under (ClaimsOK).                  *)
(***************************************************************************)
EXTENDS DiagnosisClaim, TLAPS

Running == {"claiming", "granted", "invoked", "completed"}
Won == {"granted", "invoked", "completed", "failed"}
Uncalled == {"start", "configured", "claiming", "granted", "skipped"}

(* What one launch may rely on.                                            *)
AgentOK(a) ==
  /\ pc[a] \notin {"start", "done"} => config[a] \in 1 .. Current
  /\ server[a] # "none" => /\ config[a] \in 1 .. Current
                           /\ pc[a] \notin {"start", "configured"}
  /\ pc[a] \in Running => failure[a].stage = revisions[config[a]].stage
  /\ pc[a] \in Won => server[a] = "granted"
  /\ a \in invoked => server[a] = "granted" /\ pc[a] \notin Uncalled
  /\ server[a] = "granted" => claims[failure[a]] = NewClaim(a)

ClaimsOK == \A f \in Failure : claims[f] # None => failure[claims[f].by] = f

IInv == TypeOK /\ (\A a \in Agent : AgentOK(a)) /\ ClaimsOK /\ RunsBindTheirClaim

-----------------------------------------------------------------------------

LEMMA InitInvariant == Init => IInv
<1> SUFFICES ASSUME Init PROVE IInv
  OBVIOUS
<1> USE DEF Init
<1>1. PICK r \in Revision : revisions = <<r>>
  OBVIOUS
<1>2. revisions \in Seq(Revision) /\ revisions # <<>> /\ Current = 1
  BY <1>1 DEF Current
<1>3. TypeOK
  BY <1>2 DEF TypeOK, AgentPhase, RequestPhase
<1>4. ASSUME NEW a \in Agent PROVE AgentOK(a)
  BY DEF AgentOK, Running, Won, Uncalled
<1>5. ClaimsOK /\ RunsBindTheirClaim
  BY DEF ClaimsOK, RunsBindTheirClaim
<1> QED BY <1>3, <1>4, <1>5 DEF IInv

(* Revisions are only ever appended.                                       *)
LEMMA RevisionsGrow ==
  ASSUME IInv, NEW rev \in Revision, NewRevision(rev)
  PROVE  /\ revisions' \in Seq(Revision) /\ revisions' # <<>>
         /\ Current' = Current + 1 /\ Current \in Nat
         /\ \A i \in 1 .. Current : revisions'[i] = revisions[i]
BY DEF IInv, TypeOK, NewRevision, Current

LEMMA TypeStep == IInv /\ [Next]_vars => TypeOK'
<1> SUFFICES ASSUME IInv, [Next]_vars PROVE TypeOK'
  OBVIOUS
<1> USE DEF TypeOK, AgentPhase, RequestPhase, project, Goto
<1>0. TypeOK /\ Current \in Nat \ {0} /\ \A a \in Agent : AgentOK(a)
  BY DEF IInv, Current
<1>1. ASSUME NEW a \in Agent, Launch(a), ~Deliver(a) PROVE TypeOK'
  <2>1. CASE Fetch(a)
    <3>1. /\ revisions' = revisions /\ enabled' = enabled /\ Current \in 0 .. Current
          /\ UNCHANGED <<claims, runs, failure, server, invoked>>
      BY <1>0, <2>1 DEF Fetch
    <3>2. config' \in [Agent -> 0 .. Current]
      BY <1>0, <2>1, <3>1 DEF Fetch
    <3>3. pc' \in [Agent -> AgentPhase]
      BY <1>0, <2>1 DEF Fetch
    <3>4. Current' = Current
      BY <3>1 DEF Current
    <3> QED BY <1>0, <3>1, <3>2, <3>3, <3>4
  <2>2. CASE Skip(a) \/ RequestClaim(a)
    BY <1>0, <2>2 DEF Skip, RequestClaim, Current
  <2>3. CASE EndClaim(a)
    BY <1>0, <2>3 DEF EndClaim, AfterAnswer, Current
  <2>4. CASE Invoke(a) \/ Conclude(a) \/ Stop(a)
    BY <1>0, <2>4 DEF Invoke, Conclude, Stop, Current
  <2> QED BY <1>1, <2>1, <2>2, <2>3, <2>4 DEF Launch
<1>2. ASSUME NEW rep \in Report, Store(rep) PROVE runs' \in [Build -> Report \cup {None}]
  BY <1>0, <1>2 DEF Store, Report
<1>3. ASSUME NEW a \in Agent, Deliver(a) PROVE TypeOK'
  <2>1. ReportOf(a) \in Report
    <3>1. pc[a] \in Status /\ config[a] \in Nat /\ failure[a] \in Failure
      BY <1>0, <1>3 DEF Deliver
    <3> QED BY <3>1 DEF ReportOf, Report
  <2>2. Store(ReportOf(a))
    BY <1>3 DEF Deliver
  <2>3. runs' \in [Build -> Report \cup {None}]
    BY <1>2, <2>1, <2>2
  <2> QED BY <1>0, <1>3, <2>3 DEF Deliver, Current
<1>4. ASSUME NEW rep \in OtherReport, DeliverOther(rep) PROVE TypeOK'
  <2>1. rep \in Report
    BY <1>0 DEF OtherReport, Report
  <2>2. runs' \in [Build -> Report \cup {None}]
    BY <1>2, <1>4, <2>1 DEF DeliverOther
  <2> QED BY <1>0, <1>4, <2>2 DEF DeliverOther, Current
<1>5. ASSUME NEW a \in Agent, CheckClaim(a) PROVE TypeOK'
  BY <1>0, <1>5 DEF CheckClaim, Current
<1>6. ASSUME NEW a \in Agent, InsertClaim(a) PROVE TypeOK'
  <2>1. config[a] \in Nat /\ failure[a] \in Failure
    BY <1>0
  <2>2. NewClaim(a) \in ClaimRow
    BY <2>1 DEF NewClaim, ClaimRow
  <2>3. claims' \in [Failure -> ClaimRow \cup {None}]
    BY <1>0, <1>6, <2>1, <2>2 DEF InsertClaim
  <2> QED BY <1>0, <1>6, <2>3 DEF InsertClaim, Current
<1>7. ASSUME NEW rev \in Revision, NewRevision(rev) PROVE TypeOK'
  <2>1. revisions' \in Seq(Revision) /\ revisions' # <<>> /\ Current' = Current + 1
    BY <1>7, RevisionsGrow
  <2>2. config' \in [Agent -> 0 .. Current']
    BY <1>0, <1>7, <2>1 DEF NewRevision
  <2> QED BY <1>0, <1>7, <2>1, <2>2 DEF NewRevision
<1>8. ASSUME NEW rt \in Runtime, SwitchRuntime(rt) PROVE TypeOK'
  BY <1>0, <1>8 DEF SwitchRuntime, Current
<1>9. CASE UNCHANGED vars
  BY <1>0, <1>9 DEF vars, Current
<1> QED BY <1>1, <1>3, <1>4, <1>5, <1>6, <1>7, <1>8, <1>9 DEF Next, Serve

-----------------------------------------------------------------------------
(* Claims are final, and the failure of a launch never changes.            *)

LEMMA ClaimsAreFinal ==
  ASSUME IInv, [Next]_vars
  PROVE  /\ failure' = failure
         /\ \A f \in Failure : claims[f] # None => claims'[f] = claims[f]
<1> USE DEF project
<1>1. ASSUME NEW a \in Agent, Launch(a)
      PROVE  UNCHANGED <<failure, claims>>
  BY <1>1 DEF Launch, Fetch, Skip, RequestClaim, EndClaim, Invoke, Conclude, Stop, Deliver
<1>2. ASSUME NEW a \in Agent, CheckClaim(a)
      PROVE  UNCHANGED <<failure, claims>>
  BY <1>2 DEF CheckClaim
<1>3. ASSUME NEW a \in Agent, InsertClaim(a)
      PROVE  /\ failure' = failure
             /\ \A f \in Failure : claims[f] # None => claims'[f] = claims[f]
  BY <1>3 DEF InsertClaim, ClaimFree, IInv, TypeOK
<1>4. ASSUME \/ \E rep \in OtherReport : DeliverOther(rep)
             \/ \E rev \in Revision : NewRevision(rev)
             \/ \E rt \in Runtime : SwitchRuntime(rt)
             \/ UNCHANGED vars
      PROVE  UNCHANGED <<failure, claims>>
  BY <1>4 DEF DeliverOther, NewRevision, SwitchRuntime, vars
<1> QED BY <1>1, <1>2, <1>3, <1>4 DEF Next, Serve

LEMMA ClaimsStep == IInv /\ [Next]_vars => ClaimsOK'
<1> SUFFICES ASSUME IInv, [Next]_vars,
                    NEW f \in Failure, claims'[f] # None
             PROVE  failure'[claims'[f].by] = f
  BY DEF ClaimsOK
<1>1. CASE claims[f] # None
  BY <1>1, ClaimsAreFinal DEF IInv, ClaimsOK
<1>2. CASE claims[f] = None
  <2>1. PICK a \in Agent : InsertClaim(a)
    <3>1. claims' # claims
      BY <1>2
    <3> QED BY <3>1 DEF Next, Launch, Serve, Fetch, Skip, RequestClaim, EndClaim, Invoke,
              Conclude, Stop, Deliver, CheckClaim, DeliverOther, NewRevision,
              SwitchRuntime, vars
  <2>2. failure[a] = f /\ claims'[f] = NewClaim(a)
    BY <1>2, <2>1 DEF InsertClaim, IInv, TypeOK
  <2> QED BY <2>2, ClaimsAreFinal DEF NewClaim
<1> QED BY <1>1, <1>2

-----------------------------------------------------------------------------
(* The phase of a launch.  A step of another launch leaves its columns     *)
(* alone; revisions and claims only grow under it.                         *)

LEMMA AgentKept ==
  ASSUME IInv, [Next]_vars, NEW a \in Agent,
         pc'[a] = pc[a], config'[a] = config[a], server'[a] = server[a],
         a \in invoked' => a \in invoked,
         \A i \in 1 .. Current : revisions'[i] = revisions[i],
         Current \in Nat, Current' \in Nat, Current <= Current'
  PROVE  AgentOK(a)'
<1>1. AgentOK(a) /\ failure[a] \in Failure
  BY DEF IInv, TypeOK
<1>2. failure'[a] = failure[a]
  BY ClaimsAreFinal
<1>3. claims[failure[a]] = NewClaim(a) => claims'[failure[a]] = claims[failure[a]]
  <2>1. NewClaim(a) # None
    BY DiagnosisAssumption DEF NewClaim, ClaimRow, IInv, TypeOK
  <2> QED BY <1>1, <2>1, ClaimsAreFinal
<1>4. config[a] \in 1 .. Current => config'[a] \in 1 .. Current'
  OBVIOUS
<1>5. NewClaim(a)' = NewClaim(a)
  BY DEF NewClaim
<1>6. config[a] \in 1 .. Current => revisions'[config'[a]].stage = revisions[config[a]].stage
  OBVIOUS
<1> QED BY <1>1, <1>2, <1>3, <1>4, <1>5, <1>6 DEF AgentOK, Running, Won

LEMMA AgentStep == IInv /\ [Next]_vars => \A a \in Agent : AgentOK(a)'
<1> SUFFICES ASSUME IInv, [Next]_vars, NEW b \in Agent PROVE AgentOK(b)'
  OBVIOUS
<1> USE DEF project, Goto
<1>0. TypeOK /\ Current \in Nat \ {0} /\ AgentOK(b)
  BY DEF IInv, TypeOK, Current
<1>f. failure'[b] = failure[b]
  BY ClaimsAreFinal
<1>1. ASSUME NEW a \in Agent, Launch(a), a # b PROVE AgentOK(b)'
  <2>1. /\ pc'[b] = pc[b] /\ config'[b] = config[b] /\ server'[b] = server[b]
        /\ b \in invoked' => b \in invoked
        /\ revisions' = revisions
    BY <1>0, <1>1 DEF Launch, Fetch, Skip, RequestClaim, EndClaim, Invoke, Conclude,
                      Stop, Deliver, TypeOK
  <2> QED BY <1>0, <2>1, AgentKept DEF Current
<1>2. ASSUME Fetch(b) PROVE AgentOK(b)'
  <2>1. /\ server'[b] = server[b] /\ server[b] = "none" /\ b \notin invoked
        /\ invoked' = invoked /\ revisions' = revisions
    BY <1>0, <1>2 DEF Fetch, AgentOK, Uncalled
  <2>2. CASE CurrentRuntimeEnabled
    <3>1. config'[b] = Current /\ pc'[b] = "configured"
      BY <1>0, <1>2, <2>2 DEF Fetch, TypeOK
    <3> QED BY <1>0, <2>1, <3>1 DEF AgentOK, Running, Won, Current
  <2>3. CASE ~CurrentRuntimeEnabled
    <3>1. pc'[b] = "done"
      BY <1>0, <1>2, <2>3 DEF Fetch, TypeOK
    <3> QED BY <2>1, <3>1 DEF AgentOK, Running, Won
  <2> QED BY <2>2, <2>3
<1>3. ASSUME Skip(b) PROVE AgentOK(b)'
  <2>1. /\ pc[b] = "configured" /\ pc'[b] = "skipped" /\ config' = config
        /\ server' = server /\ invoked' = invoked /\ revisions' = revisions
    BY <1>0, <1>3 DEF Skip, TypeOK
  <2>2. server[b] = "none" /\ b \notin invoked /\ config[b] \in 1 .. Current
    BY <1>0, <2>1 DEF AgentOK, Uncalled
  <2> QED BY <2>1, <2>2 DEF AgentOK, Running, Won, Current
<1>4. ASSUME RequestClaim(b) PROVE AgentOK(b)'
  <2>1. /\ pc[b] = "configured" /\ pc'[b] = "claiming" /\ config' = config
        /\ server'[b] = "sent" /\ invoked' = invoked /\ revisions' = revisions
        /\ failure[b].stage = revisions[config[b]].stage
    BY <1>0, <1>4 DEF RequestClaim, TypeOK
  <2>2. b \notin invoked /\ config[b] \in 1 .. Current
    BY <1>0, <2>1 DEF AgentOK, Uncalled
  <2> QED BY <1>f, <2>1, <2>2 DEF AgentOK, Running, Won, Current
<1>5. ASSUME EndClaim(b) PROVE AgentOK(b)'
  <2>1. /\ pc[b] = "claiming" /\ pc'[b] \in {AfterAnswer(b), "skipped"}
        /\ config' = config /\ claims' = claims
        /\ server' = server /\ invoked' = invoked /\ revisions' = revisions
    BY <1>0, <1>5 DEF EndClaim, TypeOK
  <2>2. /\ b \notin invoked /\ config[b] \in 1 .. Current
        /\ failure[b].stage = revisions[config[b]].stage
        /\ server[b] = "granted" => claims[failure[b]] = NewClaim(b)
    BY <1>0, <2>1 DEF AgentOK, Uncalled, Running
  <2>3. pc'[b] \in {"granted", "done", "skipped"} /\ (pc'[b] = "granted" => server[b] = "granted")
    BY <2>1 DEF AfterAnswer
  <2> QED BY <1>f, <2>1, <2>2, <2>3 DEF AgentOK, Running, Won, Current, NewClaim
<1>6. ASSUME Invoke(b) \/ Conclude(b) PROVE AgentOK(b)'
  <2>1. /\ pc[b] \in {"granted", "invoked"} /\ pc'[b] \in {"invoked", "completed", "failed"}
        /\ config' = config /\ claims' = claims
        /\ server' = server /\ revisions' = revisions
    BY <1>0, <1>6 DEF Invoke, Conclude, TypeOK
  <2>2. /\ config[b] \in 1 .. Current /\ server[b] = "granted"
        /\ failure[b].stage = revisions[config[b]].stage
        /\ claims[failure[b]] = NewClaim(b)
    BY <1>0, <2>1 DEF AgentOK, Won, Running
  <2> QED BY <1>f, <2>1, <2>2 DEF AgentOK, Running, Won, Uncalled, Current, NewClaim
<1>7. ASSUME Stop(b) \/ Deliver(b) PROVE AgentOK(b)'
  <2>1. /\ pc'[b] = "done" /\ config' = config /\ claims' = claims /\ invoked' = invoked
        /\ server' = server /\ revisions' = revisions
    BY <1>0, <1>7 DEF Stop, Deliver, TypeOK
  <2> QED BY <1>0, <1>f, <2>1 DEF AgentOK, Running, Won, Uncalled, Current, NewClaim
<1>8. ASSUME NEW a \in Agent, Serve(a), a # b PROVE AgentOK(b)'
  <2>1. /\ pc'[b] = pc[b] /\ config'[b] = config[b] /\ server'[b] = server[b]
        /\ invoked' = invoked /\ revisions' = revisions
    BY <1>0, <1>8 DEF Serve, CheckClaim, InsertClaim, TypeOK
  <2> QED BY <1>0, <2>1, AgentKept DEF Current
<1>9. ASSUME CheckClaim(b) PROVE AgentOK(b)'
  <2>1. /\ server[b] = "sent" /\ server'[b] \in {"checked", "denied"}
        /\ pc' = pc /\ config' = config /\ invoked' = invoked /\ revisions' = revisions
    BY <1>0, <1>9 DEF CheckClaim, TypeOK
  <2> QED BY <1>0, <1>f, <2>1 DEF AgentOK, Running, Won, Current
<1>10. ASSUME InsertClaim(b) PROVE AgentOK(b)'
  <2>1. /\ server[b] = "checked" /\ server'[b] \in {"granted", "duplicate"}
        /\ pc' = pc /\ config' = config /\ invoked' = invoked /\ revisions' = revisions
    BY <1>0, <1>10 DEF InsertClaim, TypeOK
  <2>2. server'[b] = "granted" => claims'[failure[b]] = NewClaim(b)
    BY <1>0, <1>10 DEF InsertClaim, TypeOK
  <2> QED BY <1>0, <1>f, <2>1, <2>2 DEF AgentOK, Running, Won, Current, NewClaim
<1>11. ASSUME NEW rev \in Revision, NewRevision(rev) PROVE AgentOK(b)'
  <2>1. /\ Current' = Current + 1 /\ Current \in Nat
        /\ \A i \in 1 .. Current : revisions'[i] = revisions[i]
    BY <1>11, RevisionsGrow
  <2>2. pc' = pc /\ config' = config /\ server' = server /\ invoked' = invoked
    BY <1>11 DEF NewRevision
  <2>3. Current' \in Nat /\ Current <= Current'
    BY <2>1
  <2> QED BY <2>1, <2>2, <2>3, AgentKept
<1>12. ASSUME \/ \E rep \in OtherReport : DeliverOther(rep)
              \/ \E rt \in Runtime : SwitchRuntime(rt)
              \/ UNCHANGED vars
       PROVE AgentOK(b)'
  <2>1. /\ pc' = pc /\ config' = config /\ server' = server
        /\ invoked' = invoked /\ revisions' = revisions
    BY <1>12 DEF DeliverOther, SwitchRuntime, vars
  <2> QED BY <1>0, <2>1, AgentKept DEF Current
<1>13. ASSUME NEW a \in Agent, Launch(a) PROVE AgentOK(b)'
  <2>1. CASE a # b
    BY <1>13, <2>1, <1>1
  <2>2. CASE a = b
    BY <1>13, <2>2, <1>2, <1>3, <1>4, <1>5, <1>6, <1>7 DEF Launch
  <2> QED BY <2>1, <2>2
<1>14. ASSUME NEW a \in Agent, Serve(a) PROVE AgentOK(b)'
  <2>1. CASE a # b
    BY <1>14, <2>1, <1>8
  <2>2. CASE a = b
    BY <1>14, <2>2, <1>9, <1>10 DEF Serve
  <2> QED BY <2>1, <2>2
<1> QED BY <1>11, <1>12, <1>13, <1>14 DEF Next

-----------------------------------------------------------------------------

LEMMA RunsStep == IInv /\ [Next]_vars => RunsBindTheirClaim'
<1> SUFFICES ASSUME IInv, [Next]_vars PROVE RunsBindTheirClaim'
  OBVIOUS
<1>1. ASSUME NEW b \in Build, runs[b] # None, runs'[b] = runs[b]
      PROVE  /\ runs'[b].failure.build = b
             /\ IF runs'[b].claim = None THEN runs'[b].status = "skipped"
                ELSE /\ claims'[runs'[b].failure] = [by |-> runs'[b].claim, rev |-> runs'[b].rev]
                     /\ failure'[runs'[b].claim] = runs'[b].failure
  <2> DEFINE run == runs[b]
  <2>1. run \in Report
    BY <1>1 DEF IInv, TypeOK
  <2>2. /\ run.failure.build = b
        /\ IF run.claim = None THEN run.status = "skipped"
           ELSE /\ claims[run.failure] = [by |-> run.claim, rev |-> run.rev]
                /\ failure[run.claim] = run.failure
    BY <1>1 DEF IInv, RunsBindTheirClaim
  <2>3. CASE run.claim = None
    BY <1>1, <2>2, <2>3
  <2>4. CASE run.claim # None
    <3>1. run.failure \in Failure /\ claims[run.failure] \in ClaimRow
      BY <2>1, <2>2, <2>4 DEF Report, ClaimRow
    <3>2. claims[run.failure] # None
      BY <3>1, DiagnosisAssumption
    <3>3. claims'[run.failure] = claims[run.failure] /\ failure' = failure
      BY <3>1, <3>2, ClaimsAreFinal
    <3> QED BY <1>1, <2>2, <2>4, <3>3
  <2> QED BY <2>3, <2>4
<1>2. ASSUME NEW rep \in Report, Store(rep), UNCHANGED <<claims, failure>>
      PROVE  RunsBindTheirClaim'
  <2> SUFFICES ASSUME NEW b \in Build, runs'[b] # None
               PROVE  /\ runs'[b].failure.build = b
                      /\ IF runs'[b].claim = None THEN runs'[b].status = "skipped"
                         ELSE /\ claims'[runs'[b].failure] =
                                   [by |-> runs'[b].claim, rev |-> runs'[b].rev]
                              /\ failure'[runs'[b].claim] = runs'[b].failure
    BY DEF RunsBindTheirClaim
  <2>1. CASE runs'[b] = runs[b]
    BY <1>1, <2>1
  <2>2. CASE runs'[b] # runs[b]
    <3>1. runs'[b] = rep /\ b = rep.failure.build /\ BindsClaim(rep)
      BY <1>2, <2>2 DEF Store, IInv, TypeOK
    <3>2. CASE rep.claim = None
      BY <3>1, <3>2 DEF BindsClaim
    <3>3. CASE rep.claim # None
      <4>1. rep.failure \in Failure /\ claims[rep.failure] = [by |-> rep.claim, rev |-> rep.rev]
        BY <3>1, <3>3 DEF BindsClaim, Report
      <4>2. claims[rep.failure] \in ClaimRow
        BY <4>1, <3>3 DEF ClaimRow, Report
      <4>3. claims[rep.failure] # None
        BY <4>2, DiagnosisAssumption
      <4>4. failure[claims[rep.failure].by] = rep.failure
        BY <4>1, <4>3 DEF IInv, ClaimsOK
      <4> QED BY <1>2, <3>1, <3>3, <4>1, <4>4
    <3> QED BY <3>2, <3>3
  <2> QED BY <2>1, <2>2
<1>3. ASSUME NEW a \in Agent, Deliver(a) PROVE RunsBindTheirClaim'
  <2>1. ReportOf(a) \in Report
    <3>1. pc[a] \in Status /\ config[a] \in Nat /\ failure[a] \in Failure
      BY <1>3 DEF Deliver, IInv, TypeOK
    <3> QED BY <3>1 DEF ReportOf, Report
  <2> QED BY <1>2, <1>3, <2>1 DEF Deliver
<1>4. ASSUME NEW rep \in OtherReport, DeliverOther(rep) PROVE RunsBindTheirClaim'
  <2>1. rep \in Report
    BY DEF OtherReport, Report, Current, IInv, TypeOK
  <2> QED BY <1>2, <1>4, <2>1 DEF DeliverOther
<1>5. CASE runs' = runs
  BY <1>1, <1>5 DEF RunsBindTheirClaim
<1> QED BY <1>3, <1>4, <1>5 DEF Next, Launch, Serve, Fetch, Skip, RequestClaim, EndClaim,
        Invoke, Conclude, Stop, CheckClaim, InsertClaim, NewRevision, SwitchRuntime,
        project, vars

LEMMA Inductive == IInv /\ [Next]_vars => IInv'
BY TypeStep, AgentStep, ClaimsStep, RunsStep DEF IInv

LEMMA Invariance == Spec => []IInv
<1>1. Init => IInv
  BY InitInvariant
<1>2. IInv /\ [Next]_vars => IInv'
  BY Inductive
<1> QED BY <1>1, <1>2, PTL DEF Spec

-----------------------------------------------------------------------------

(* Every variable keeps its type, whatever the launches and revisions.     *)
THEOREM TypeCorrect == Spec => []TypeOK
<1>1. IInv => TypeOK
  BY DEF IInv
<1> QED BY <1>1, Invariance, PTL

(* The model is called only by the holder of the durable claim, for the    *)
(* revision that was claimed (run_diagnosis, claim).                       *)
THEOREM AuthorityIsAlwaysClaimed == Spec => []AuthorityIsClaimed
<1>1. IInv => AuthorityIsClaimed
  BY DEF IInv, AgentOK, AuthorityIsClaimed, Won
<1> QED BY <1>1, Invariance, PTL

(* At most one model invocation per failure, for any number of launches    *)
(* of the agent (run_diagnosis, claim).                                    *)
THEOREM AtMostOneInvocation == Spec => []OneInvocation
<1>1. IInv => AuthorityIsClaimed /\ invoked \subseteq Agent
  BY DEF IInv, TypeOK, AgentOK, AuthorityIsClaimed, Won
<1>2. ASSUME AuthorityIsClaimed, invoked \subseteq Agent,
             NEW a \in invoked, NEW b \in invoked, failure[a] = failure[b]
      PROVE  a = b
  <2>1. NewClaim(a) = NewClaim(b)
    BY <1>2 DEF AuthorityIsClaimed
  <2>2. NewClaim(a).by = a /\ NewClaim(b).by = b
    BY DEF NewClaim
  <2> QED BY <2>1, <2>2
<1>3. IInv => OneInvocation
  BY <1>1, <1>2 DEF OneInvocation
<1> QED BY <1>3, Invariance, PTL

(* Stored runs bind the failure and the revision of the claim they name    *)
(* (ingest_run, validate_claim).                                           *)
THEOREM RunsAreBound == Spec => []RunsBindTheirClaim
<1>1. IInv => RunsBindTheirClaim
  BY DEF IInv
<1> QED BY <1>1, Invariance, PTL

(* A finished diagnosis stays reportable through edits, re-picks and       *)
(* disabled runtimes (validate_claim, validate_result_configuration).      *)
THEOREM ReportsAlwaysValid == Spec => []ReportsStayValid
<1>1. ASSUME IInv, NEW a \in Agent, pc[a] \in Status
      PROVE  FitsRevision(ReportOf(a)) /\ BindsClaim(ReportOf(a))
  <2>0. \A b \in Agent : AgentOK(b)
    BY <1>1 DEF IInv
  <2>1. AgentOK(a) /\ a # None
    BY <2>0, DiagnosisAssumption
  <2>2. CASE pc[a] = "skipped"
    BY <2>1, <2>2 DEF AgentOK, ReportOf, FitsRevision, BindsClaim
  <2>3. CASE pc[a] \in {"completed", "failed"}
    BY <2>1, <2>3 DEF AgentOK, ReportOf, FitsRevision, BindsClaim, Running, Won, NewClaim
  <2> QED BY <1>1, <2>2, <2>3 DEF Status
<1>2. IInv => ReportsStayValid
  BY <1>1 DEF ReportsStayValid
<1> QED BY <1>2, Invariance, PTL

-----------------------------------------------------------------------------
(* Refinement of AtMostOnce.                                               *)

LEMMA PromiseInit == Init => Promise!AbsInit
BY DEF Init, Promise!AbsInit, Claimed, Invokers

LEMMA ClaimRefines ==
  ASSUME IInv, NEW a \in Agent, InsertClaim(a)
  PROVE  [Promise!AbsNext]_(Promise!absVars)
<1>1. UNCHANGED <<invoked, failure>> /\ failure[a] \in Failure
  BY DEF InsertClaim, IInv, TypeOK
<1>2. Invokers' = Invokers
  BY <1>1 DEF Invokers
<1>3. CASE ~ClaimFree(a)
  BY <1>2, <1>3 DEF InsertClaim, Claimed, Promise!absVars
<1>4. CASE ClaimFree(a)
  <2>1. failure[a] \notin Claimed
    BY <1>4 DEF ClaimFree, Claimed
  <2>2. NewClaim(a) # None
    BY DiagnosisAssumption DEF NewClaim, ClaimRow, IInv, TypeOK
  <2>3. claims' = [claims EXCEPT ![failure[a]] = NewClaim(a)]
    BY <1>4 DEF InsertClaim
  <2>4. Claimed' = Claimed \cup {failure[a]}
    BY <1>1, <2>2, <2>3 DEF Claimed, IInv, TypeOK
  <2>5. Promise!AbsClaim(failure[a])
    BY <1>2, <2>1, <2>4 DEF Promise!AbsClaim
  <2> QED BY <1>1, <2>5 DEF Promise!AbsNext
<1> QED BY <1>3, <1>4

LEMMA InvokeRefines ==
  ASSUME IInv, NEW a \in Agent, Invoke(a)
  PROVE  [Promise!AbsNext]_(Promise!absVars)
<1>1. /\ UNCHANGED <<claims, failure>> /\ invoked' = invoked \cup {a}
      /\ failure[a] \in Failure /\ pc[a] = "granted"
  BY DEF Invoke, IInv, TypeOK
<1>2. a \notin invoked /\ claims[failure[a]] = NewClaim(a)
  BY <1>1 DEF IInv, AgentOK, Uncalled, Won
<1>3. failure[a] \in Claimed
  BY <1>1, <1>2, DiagnosisAssumption DEF Claimed, NewClaim, ClaimRow, IInv, TypeOK
<1>4. Invokers[failure[a]] = {}
  <2>1. ASSUME NEW b \in invoked, failure[b] = failure[a] PROVE FALSE
    <3>1. b \in Agent /\ claims[failure[b]] = NewClaim(b)
      BY DEF IInv, TypeOK, AgentOK
    <3>2. b = a
      BY <1>2, <2>1, <3>1 DEF NewClaim
    <3> QED BY <1>2, <3>2
  <2> QED BY <1>1, <2>1 DEF Invokers
<1>5. Invokers' = [Invokers EXCEPT ![failure[a]] = {a}]
  BY <1>1, <1>4 DEF Invokers
<1>6. Claimed' = Claimed
  BY <1>1 DEF Claimed
<1>7. Promise!AbsInvoke(failure[a], a)
  BY <1>3, <1>4, <1>5, <1>6 DEF Promise!AbsInvoke
<1> QED BY <1>1, <1>7 DEF Promise!AbsNext

LEMMA PromiseStep ==
  IInv /\ [Next]_vars => [Promise!AbsNext]_(Promise!absVars)
<1> SUFFICES ASSUME IInv, [Next]_vars
             PROVE  [Promise!AbsNext]_(Promise!absVars)
  OBVIOUS
<1>1. ASSUME UNCHANGED <<claims, invoked, failure>>
      PROVE  UNCHANGED <<Claimed, Invokers>>
  BY <1>1 DEF Claimed, Invokers
<1>2. ASSUME NEW a \in Agent, InsertClaim(a)
      PROVE  [Promise!AbsNext]_(Promise!absVars)
  BY <1>2, ClaimRefines
<1>3. ASSUME NEW a \in Agent, Invoke(a)
      PROVE  [Promise!AbsNext]_(Promise!absVars)
  BY <1>3, InvokeRefines
<1>4. \/ \E a \in Agent : InsertClaim(a) \/ Invoke(a)
      \/ UNCHANGED <<claims, invoked, failure>>
  BY DEF Next, Launch, Serve, Fetch, Skip, RequestClaim, EndClaim, Conclude, Stop,
         Deliver, CheckClaim, DeliverOther, NewRevision, SwitchRuntime, project, vars
<1> QED BY <1>1, <1>2, <1>3, <1>4 DEF Promise!absVars

(* Claims and invocations implement the abstract promise: claimed once and *)
(* for good, invoked at most once after that (AtMostOnce).                 *)
THEOREM ClaimImplementsPromise == Spec => ImplementsPromise
<1>1. Init => Promise!AbsInit
  BY PromiseInit
<1>2. IInv /\ [Next]_vars => [Promise!AbsNext]_(Promise!absVars)
  BY PromiseStep
<1> QED BY <1>1, <1>2, Invariance, PTL DEF Spec, ImplementsPromise, Promise!AbsSpec

=============================================================================
