---------------------------- MODULE CiToken_proofs ----------------------------
(***************************************************************************)
(* Proofs about CiToken, for any number of requests, tokens and builds.    *)
(* The inductive invariant says what a request that holds the project lock *)
(* may rely on until it releases it (SessionOK).                           *)
(***************************************************************************)
EXTENDS CiToken, TLAPS

(* What the project lock protects: the contract that the request checked,  *)
(* the hash that an explicit endpoint loaded, the runs of its build.       *)
SessionOK(r) ==
  /\ pc[r] \in {"locked", "inserting"} => lock = r
  /\ pc[r] = "locked" =>
       \/ op[r] \in {"setup", "rotate"} /\ ~explicit
       \/ op[r] \in {"issue", "reissue"} /\ explicit /\ seen[r].hash = hash
  /\ pc[r] = "inserting" => report[r] \in RunReport /\ Accepts(report[r])
  /\ pc[r] = "authenticated" => report[r] \in RunReport
  /\ pc[r] = "minted" => held[r] \in Token

IInv == TypeOK /\ \A r \in Request : SessionOK(r)

-----------------------------------------------------------------------------

LEMMA InitInvariant == Init => IInv
<1> SUFFICES ASSUME Init PROVE IInv
  OBVIOUS
<1>1. Unloaded \in Loaded
  BY DEF Unloaded, Loaded, TokenOrNull
<1>2. TypeOK
  BY <1>1 DEF Init, TypeOK, TokenOrNull, Op, Phase
<1>3. ASSUME NEW r \in Request PROVE SessionOK(r)
  BY DEF Init, SessionOK
<1> QED BY <1>2, <1>3 DEF IInv

LEMMA TypeStep == IInv /\ [Next]_vars => TypeOK'
<1> SUFFICES ASSUME IInv, [Next]_vars PROVE TypeOK'
  OBVIOUS
<1> USE DEF TypeOK, TokenOrNull, Loaded, Unloaded, Op, Phase, session
<1>0. TypeOK /\ Connection \in Loaded /\ \A r \in Request : SessionOK(r)
  BY DEF IInv, Connection
<1>1. ASSUME NEW r \in Request, EndRequest(r)
      PROVE  /\ pc' \in [Request -> Phase] /\ op' \in [Request -> Op]
             /\ seen' \in [Request -> Loaded] /\ held' \in [Request -> TokenOrNull]
             /\ report' \in [Request -> RunReport \cup {None}]
  BY <1>0, <1>1 DEF EndRequest
<1>2. ASSUME NEW r \in Request, BeginConnect(r) PROVE TypeOK'
  BY <1>0, <1>2 DEF BeginConnect
<1>3. ASSUME NEW r \in Request, Connect(r) PROVE TypeOK'
  BY <1>0, <1>1, <1>3 DEF Connect, ConnectedHash
<1>4. ASSUME NEW r \in Request, NEW o \in Op, BeginLegacy(r, o) PROVE TypeOK'
  BY <1>0, <1>4 DEF BeginLegacy
<1>5. ASSUME NEW r \in Request, LockLegacy(r) PROVE TypeOK'
  <2>1. CASE EndRequest(r)
    BY <1>0, <1>1, <1>5, <2>1 DEF LockLegacy, Locks
  <2>2. CASE ~EndRequest(r)
    BY <1>0, <1>5, <2>2 DEF LockLegacy, Locks
  <2> QED BY <2>1, <2>2
<1>6. ASSUME NEW r \in Request, NEW o \in Op, LockExplicit(r, o) PROVE TypeOK'
  BY <1>0, <1>6 DEF LockExplicit, Locks
<1>7. ASSUME NEW r \in Request, MintToken(r) PROVE TypeOK'
  <2>1. lock' \in Request \cup {None}
    BY <1>0, <1>7 DEF MintToken, Unlock
  <2>2. /\ hash' \in TokenOrNull /\ connected' \in BOOLEAN /\ minted' \subseteq Token
        /\ UNCHANGED <<explicit, runtimeOn, runs, shown>>
    BY <1>0, <1>7 DEF MintToken
  <2>3. CASE EndRequest(r)
    BY <1>0, <1>1, <2>1, <2>2, <2>3
  <2>4. CASE ~EndRequest(r)
    <3>1. /\ pc' \in [Request -> Phase] /\ op' = op /\ seen' = seen
          /\ held' \in [Request -> TokenOrNull] /\ report' = report
      BY <1>0, <1>7, <2>4 DEF MintToken
    <3> QED BY <1>0, <2>1, <2>2, <3>1
  <2> QED BY <2>3, <2>4
<1>8. ASSUME NEW r \in Request, KeepToken(r) PROVE TypeOK'
  BY <1>0, <1>8 DEF KeepToken, Unlock
<1>9. ASSUME NEW r \in Request, Answer(r) PROVE TypeOK'
  <2>1. lock' \in Request \cup {None}
    BY <1>0, <1>9 DEF Answer, Unlock
  <2>2. shown' \subseteq Token
    BY <1>0, <1>9 DEF Answer, SessionOK
  <2>3. EndRequest(r) /\ UNCHANGED <<explicit, runtimeOn, connected, hash, runs, minted>>
    BY <1>9 DEF Answer
  <2> QED BY <1>0, <1>1, <2>1, <2>2, <2>3
<1>10. ASSUME NEW r \in Request, NEW t \in Token, NEW rep \in RunReport, Authenticate(r, t, rep)
       PROVE  TypeOK'
  BY <1>0, <1>10 DEF Authenticate
<1>11. ASSUME NEW r \in Request, CheckReport(r) PROVE TypeOK'
  <2>1. CASE EndRequest(r)
    BY <1>0, <1>1, <1>11, <2>1 DEF CheckReport, Locks
  <2>2. CASE ~EndRequest(r)
    BY <1>0, <1>11, <2>2 DEF CheckReport, Locks
  <2> QED BY <2>1, <2>2
<1>12. ASSUME NEW r \in Request, InsertRun(r) PROVE TypeOK'
  <2>1. lock' \in Request \cup {None} /\ runs' \in [Build -> {"none", "legacy", "revision"}]
    BY <1>0, <1>12 DEF InsertRun, Unlock
  <2>2. EndRequest(r) /\ UNCHANGED <<explicit, runtimeOn, connected, hash, minted, shown>>
    BY <1>12 DEF InsertRun
  <2> QED BY <1>0, <1>1, <2>1, <2>2
<1>13. ASSUME AdoptExplicit \/ SwitchRuntime \/ UNCHANGED vars PROVE TypeOK'
  BY <1>0, <1>13 DEF AdoptExplicit, SwitchRuntime, vars
<1> QED BY <1>2, <1>3, <1>4, <1>5, <1>6, <1>7, <1>8, <1>9, <1>10, <1>11, <1>12, <1>13
        DEF Next, Serve

-----------------------------------------------------------------------------
(* The frame of a request that takes no step.                              *)

SameSession(b) ==
  /\ pc'[b] = pc[b] /\ op'[b] = op[b] /\ seen'[b] = seen[b]
  /\ held'[b] = held[b] /\ report'[b] = report[b]

(* Steps that leave alone what the lock protects keep SessionOK of others. *)
LEMMA SessionKept ==
  ASSUME NEW b \in Request, SessionOK(b), SameSession(b),
         lock = b => lock' = b,
         lock = b => UNCHANGED <<explicit, hash, runs>>
  PROVE  SessionOK(b)'
BY DEF SessionOK, SameSession, Accepts, LegacyOpen

(* A request in any other phase than these relies on nothing.              *)
LEMMA SessionFree ==
  ASSUME NEW b \in Request, pc'[b] \notin {"locked", "inserting", "authenticated", "minted"}
  PROVE  SessionOK(b)'
BY DEF SessionOK

LEMMA SessionStep ==
  ASSUME IInv, [Next]_vars, NEW b \in Request
  PROVE  SessionOK(b)'
<1>0. TypeOK /\ (\A r \in Request : SessionOK(r)) /\ SessionOK(b)
  BY DEF IInv
<1>1. ASSUME NEW r \in Request, EndRequest(r), r # b PROVE SameSession(b)
  BY <1>0, <1>1 DEF EndRequest, SameSession, TypeOK
<1>2. ASSUME NEW r \in Request, EndRequest(r), r = b PROVE SessionOK(b)'
  <2>1. pc'[b] = "idle"
    BY <1>0, <1>2 DEF EndRequest, TypeOK
  <2> QED BY <2>1, SessionFree
<1>3. ASSUME NEW r \in Request, r # b, SameSession(b),
             UNCHANGED lock \/ Unlock(r) \/ Locks(r),
             pc[r] \in {"locked", "inserting"} \/ UNCHANGED <<explicit, hash, runs>>
      PROVE  SessionOK(b)'
  <2>1. lock = b => lock' = b
    BY <1>3, TokenAssumption DEF Unlock, Locks, LockFree
  <2>2. pc[r] \in {"locked", "inserting"} => lock = r
    BY <1>0 DEF SessionOK
  <2> QED BY <1>0, <1>3, <2>1, <2>2, SessionKept
<1>4. ASSUME NEW r \in Request, BeginConnect(r) \/ (\E o \in Op : BeginLegacy(r, o))
      PROVE  SessionOK(b)'
  <2>1. pc' = [pc EXCEPT ![r] = "loaded"] /\ UNCHANGED <<lock, explicit, hash, runs>>
    BY <1>4 DEF BeginConnect, BeginLegacy
  <2>2. r # b => SameSession(b)
    BY <1>0, <1>4 DEF BeginConnect, BeginLegacy, SameSession, TypeOK
  <2>3. r = b => pc'[b] = "loaded"
    BY <1>0, <2>1 DEF TypeOK
  <2> QED BY <1>3, <2>1, <2>2, <2>3, SessionFree
<1>5. ASSUME NEW r \in Request, Connect(r) PROVE SessionOK(b)'
  <2>1. EndRequest(r) /\ UNCHANGED <<lock, explicit, hash, runs>>
    BY <1>5 DEF Connect, ConnectedHash
  <2> QED BY <1>1, <1>2, <1>3, <2>1
<1>6. ASSUME NEW r \in Request, LockLegacy(r) PROVE SessionOK(b)'
  <2>1. UNCHANGED <<explicit, hash, runs>>
    BY <1>6 DEF LockLegacy
  <2>2. CASE EndRequest(r) /\ UNCHANGED lock
    BY <1>1, <1>2, <1>3, <2>1, <2>2
  <2>3. CASE /\ pc[r] = "loaded" /\ op[r] \in {"setup", "rotate"} /\ ~explicit /\ Locks(r)
             /\ pc' = [pc EXCEPT ![r] = "locked"] /\ UNCHANGED <<op, seen, held, report>>
    <3>1. CASE r = b
      BY <1>0, <2>1, <2>3, <3>1 DEF SessionOK, Locks, TypeOK
    <3>2. CASE r # b
      <4>1. SameSession(b)
        BY <1>0, <2>3, <3>2 DEF SameSession, TypeOK
      <4> QED BY <1>3, <2>1, <2>3, <3>2, <4>1
    <3> QED BY <3>1, <3>2
  <2> QED BY <1>6, <2>2, <2>3 DEF LockLegacy, LegacyOpen
<1>7. ASSUME NEW r \in Request, NEW o \in Op, LockExplicit(r, o) PROVE SessionOK(b)'
  <2>1. UNCHANGED <<explicit, hash, runs>> /\ Locks(r)
    BY <1>7 DEF LockExplicit
  <2>2. CASE r = b
    <3>1. /\ pc'[b] = "locked" /\ op'[b] \in {"issue", "reissue"} /\ seen'[b].hash = hash
          /\ lock' = b /\ explicit
      BY <1>0, <1>7, <2>2 DEF LockExplicit, Connection, Locks, TypeOK
    <3> QED BY <2>1, <3>1 DEF SessionOK
  <2>3. CASE r # b
    <3>1. SameSession(b)
      BY <1>0, <1>7, <2>3 DEF LockExplicit, SameSession, TypeOK
    <3> QED BY <1>3, <2>1, <2>3, <3>1
  <2> QED BY <2>2, <2>3
<1>8. ASSUME NEW r \in Request, MintToken(r) PROVE SessionOK(b)'
  <2>1. pc[r] = "locked" /\ Unlock(r)
    BY <1>8 DEF MintToken
  <2>2. r # b => SameSession(b)
    BY <1>0, <1>8 DEF MintToken, EndRequest, SameSession, TypeOK
  <2>3. r = b => pc'[b] = "idle" \/ (pc'[b] = "minted" /\ held'[b] \in Token)
    BY <1>0, <1>8 DEF MintToken, EndRequest, TypeOK
  <2>4. r = b => SessionOK(b)'
    BY <2>3 DEF SessionOK
  <2> QED BY <1>3, <2>1, <2>2, <2>4
<1>9. ASSUME NEW r \in Request, KeepToken(r) PROVE SessionOK(b)'
  <2>1. pc[r] = "locked" /\ (UNCHANGED lock \/ Unlock(r))
    BY <1>9 DEF KeepToken
  <2>2. r # b => SameSession(b)
    BY <1>0, <1>9 DEF KeepToken, SameSession, TypeOK
  <2>3. r = b => pc'[b] = "unminted"
    BY <1>0, <1>9 DEF KeepToken, TypeOK
  <2> QED BY <1>3, <2>1, <2>2, <2>3, SessionFree
<1>10. ASSUME NEW r \in Request, Answer(r) \/ InsertRun(r) PROVE SessionOK(b)'
  <2>1. /\ EndRequest(r) /\ Unlock(r)
        /\ pc[r] = "inserting" \/ UNCHANGED <<explicit, hash, runs>>
    BY <1>10 DEF Answer, InsertRun
  <2> QED BY <1>1, <1>2, <1>3, <2>1
<1>11. ASSUME NEW r \in Request, NEW t \in Token, NEW rep \in RunReport, Authenticate(r, t, rep)
       PROVE  SessionOK(b)'
  <2>1. UNCHANGED <<explicit, hash, runs, lock>>
    BY <1>11 DEF Authenticate
  <2>2. r # b => SameSession(b)
    BY <1>0, <1>11 DEF Authenticate, SameSession, TypeOK
  <2>3. r = b => pc'[b] = "authenticated" /\ report'[b] \in RunReport
    BY <1>0, <1>11 DEF Authenticate, TypeOK
  <2>4. r = b => SessionOK(b)'
    BY <2>3 DEF SessionOK
  <2> QED BY <1>3, <2>1, <2>2, <2>4
<1>12. ASSUME NEW r \in Request, CheckReport(r) PROVE SessionOK(b)'
  <2>1. UNCHANGED <<explicit, hash, runs>>
    BY <1>12 DEF CheckReport
  <2>2. CASE EndRequest(r) /\ UNCHANGED lock
    BY <1>1, <1>2, <1>3, <2>1, <2>2
  <2>3. CASE /\ pc[r] = "authenticated" /\ Accepts(report[r]) /\ Locks(r)
             /\ pc' = [pc EXCEPT ![r] = "inserting"] /\ UNCHANGED <<op, seen, held, report>>
    <3>1. CASE r = b
      <4>1. report[b] \in RunReport /\ Accepts(report[b]) /\ lock' = b
        BY <1>0, <2>3, <3>1 DEF SessionOK, Locks
      <4>2. Accepts(report[b])' /\ report'[b] = report[b] /\ pc'[b] = "inserting"
        BY <1>0, <2>1, <2>3, <3>1, <4>1 DEF Accepts, LegacyOpen, TypeOK
      <4> QED BY <4>1, <4>2 DEF SessionOK
    <3>2. CASE r # b
      <4>1. SameSession(b)
        BY <1>0, <2>3, <3>2 DEF SameSession, TypeOK
      <4> QED BY <1>3, <2>1, <2>3, <3>2, <4>1
    <3> QED BY <3>1, <3>2
  <2> QED BY <1>12, <2>2, <2>3 DEF CheckReport
<1>13. ASSUME AdoptExplicit \/ SwitchRuntime \/ UNCHANGED vars PROVE SessionOK(b)'
  <2>1. /\ SameSession(b) /\ lock' = lock
        /\ lock = None \/ UNCHANGED <<explicit, hash, runs>>
    BY <1>13 DEF AdoptExplicit, SwitchRuntime, SameSession, session, vars
  <2> QED BY <1>0, <2>1, TokenAssumption, SessionKept
<1> QED BY <1>4, <1>5, <1>6, <1>7, <1>8, <1>9, <1>10, <1>11, <1>12, <1>13 DEF Next, Serve

LEMMA Invariance == Spec => []IInv
<1>1. Init => IInv
  BY InitInvariant
<1>2. IInv /\ [Next]_vars => IInv'
  <2> SUFFICES ASSUME IInv, [Next]_vars PROVE IInv'
    OBVIOUS
  <2>1. TypeOK'
    BY TypeStep
  <2>2. ASSUME NEW b \in Request PROVE SessionOK(b)'
    BY SessionStep
  <2> QED BY <2>1, <2>2 DEF IInv
<1> QED BY <1>1, <1>2, PTL DEF Spec

-----------------------------------------------------------------------------

(* Every variable keeps its type, whatever the requests.                   *)
THEOREM TypeCorrect == Spec => []TypeOK
<1>1. IInv => TypeOK
  BY DEF IInv
<1> QED BY <1>1, Invariance, PTL

(* What ingest_run checked under the project lock still holds when it      *)
(* inserts, although token and contract were checked before it.            *)
THEOREM InsertsAreChecked == Spec => []ChecksHoldAtInsert
<1>1. IInv => ChecksHoldAtInsert
  BY DEF IInv, SessionOK, ChecksHoldAtInsert
<1> QED BY <1>1, Invariance, PTL

(* The hash is written by minting alone, by the holder of the lock.        *)
LEMMA HashChanges ==
  ASSUME IInv, [Next]_vars, hash' # hash
  PROVE  \E r \in Request : MintToken(r) /\ hash' \in Token
BY DEF IInv, Next, Serve, BeginConnect, Connect, ConnectedHash, BeginLegacy, LockLegacy,
       LockExplicit, MintToken, KeepToken, Answer, Authenticate, CheckReport, InsertRun,
       AdoptExplicit, SwitchRuntime, vars

(* In an explicit project only the explicit rotate replaces a token        *)
(* (ci_setup, rotate_ci_token, _issue_token).                              *)
THEOREM ExplicitTokensAreStable == Spec => ExplicitTokenIsStable
<1>1. ASSUME IInv, [Next]_vars, explicit, hash # None, hash' # hash
      PROVE  \E r \in Request : pc[r] = "locked" /\ op[r] = "reissue"
  <2>1. PICK r \in Request : MintToken(r)
    BY <1>1, HashChanges
  <2>2. pc[r] = "locked" /\ Mints(r) /\ SessionOK(r)
    BY <1>1, <2>1 DEF MintToken, IInv
  <2>3. op[r] \in {"issue", "reissue"} /\ seen[r].hash # None
    BY <1>1, <2>2 DEF SessionOK
  <2>4. op[r] = "reissue"
    BY <2>2, <2>3 DEF Mints
  <2> QED BY <2>2, <2>4
<1>2. IInv /\ [Next]_vars =>
        [explicit /\ hash # None /\ hash' # hash =>
           \E r \in Request : pc[r] = "locked" /\ op[r] = "reissue"]_vars
  BY <1>1
<1> QED BY <1>2, Invariance, PTL DEF Spec, ExplicitTokenIsStable

(* A token, once minted, is only ever replaced by another                  *)
(* (connect_jenkins).                                                      *)
THEOREM TokensSurvive == Spec => TokenSurvivesReconnect
<1>1. IInv /\ [Next]_vars => [hash # None => hash' # None]_vars
  BY HashChanges, TokenAssumption
<1> QED BY <1>1, Invariance, PTL DEF Spec, TokenSurvivesReconnect

=============================================================================
