--------------------------- MODULE Accounts_proofs ----------------------------
(***************************************************************************)
(* Proofs about Accounts, for any number of sessions, addresses, Google    *)
(* subjects and challenges, and any burst, rate and capacity.              *)
(***************************************************************************)
EXTENDS Accounts, FiniteSetTheorems, SequenceTheorems, TLAPS

USE AccountsAssumption

(* A session that has not yet looked at anything carries nothing, and what *)
(* the others carry comes from their request.                              *)
Carried(c) ==
  /\ c.phase \in {"idle", "admitted", "checked"} =>
       c.subject = None /\ c.nonce = None /\ c.swept = {}
  /\ c.phase \in {"checked", "verified", "spent", "judged"} => c.email \in Address
  /\ c.phase \in {"verified", "spent"} => c.subject \in Subject
  /\ c.phase \in {"verified", "spent", "judged"} => (c.subject \in Subject <=> c.nonce \in Nonce)
  /\ c.phase = "judged" => (c.subject = None => c.swept = {})

TypeInv == TypeOK /\ \A s \in Session : Carried(session[s])

LEMMA IdleType == Idle \in SessionState
BY DEF Idle, SessionState, Phase, Verdict

LEMMA CloseType ==
  ASSUME TypeOK, NEW s \in Session, Close(s)
  PROVE  session' \in [Session -> SessionState]
BY IdleType DEF TypeOK, Close

LEMMA CloseCarried ==
  ASSUME TypeInv, NEW s \in Session, Close(s), NEW q \in Session
  PROVE  Carried(session'[q])
<1>1. session'[q] = IF q = s THEN Idle ELSE session[q]
  BY DEF Close, TypeInv, TypeOK
<1>2. Carried(Idle)
  BY DEF Carried, Idle
<1> QED BY <1>1, <1>2 DEF TypeInv

LEMMA NonceType ==
  ASSUME TypeOK, NEW s \in Session, session[s].nonce \in Nonce, CommitNonce(s)
  PROVE  nonces' \subseteq Nonce /\ uses' \in [Nonce -> [timely : Nat, late : Nat]]
<1> DEFINE n == session[s].nonce
<1>1. nonces' \subseteq Nonce
  BY DEF CommitNonce, TypeOK
<1>2. uses[n] \in [timely : Nat, late : Nat]
  BY DEF TypeOK
<1>3. /\ [uses[n] EXCEPT !.timely = @ + 1] \in [timely : Nat, late : Nat]
      /\ [uses[n] EXCEPT !.late = @ + 1] \in [timely : Nat, late : Nat]
  BY <1>2
<1>4. \/ uses' = [uses EXCEPT ![n] = [uses[n] EXCEPT !.timely = @ + 1]]
      \/ uses' = [uses EXCEPT ![n] = [uses[n] EXCEPT !.late = @ + 1]]
  <2>1. CASE latest <= challenge[n]
    BY <2>1 DEF CommitNonce
  <2>2. CASE ~(latest <= challenge[n])
    BY <2>2 DEF CommitNonce
  <2> QED BY <2>1, <2>2
<1>5. uses' \in [Nonce -> [timely : Nat, late : Nat]]
  <2> DEFINE T == [timely : Nat, late : Nat]
             e == [uses[n] EXCEPT !.timely = @ + 1]
             f == [uses[n] EXCEPT !.late = @ + 1]
  <2>1. uses \in [Nonce -> T] /\ e \in T /\ f \in T
    BY <1>3 DEF TypeOK
  <2>2. uses' = [uses EXCEPT ![n] = e] \/ uses' = [uses EXCEPT ![n] = f]
    BY <1>4
  <2> HIDE DEF n, T, e, f
  <2>3. uses' \in [Nonce -> T]
    BY <2>1, <2>2
  <2> QED BY <2>3 DEF T
<1> QED BY <1>1, <1>5

LEMMA InitType == Init => TypeInv
<1> SUFFICES ASSUME Init PROVE TypeInv
  OBVIOUS
<1>1. Carried(Idle)
  BY DEF Carried, Idle
<1>2. [tokens |-> Burst * Unit, at |-> 0] \in [tokens : Int, at : 0 .. MaxTime]
  OBVIOUS
<1>3. TypeOK
  BY <1>2, IdleType DEF Init, TypeOK
<1> QED BY <1>1, <1>3 DEF TypeInv, Init

LEMMA TypeStep == TypeInv /\ [Next]_vars => TypeInv'
<1> SUFFICES ASSUME TypeInv, [Next]_vars PROVE TypeInv'
  OBVIOUS
<1>0. TypeOK /\ \A s \in Session : Carried(session[s])
  BY DEF TypeInv
<1>1. Refilled \in Int /\ Elapsed(now) \in Nat
  BY <1>0 DEF TypeOK, Refilled, Elapsed
<1> DEFINE Frame == UNCHANGED <<clocks, rates, tables, locks, challenge>>
           (* One session moves to a state of its type, and nothing else.  *)
           Moves(s, c) == session' = [session EXCEPT ![s] = c] /\ c \in SessionState /\ Carried(c)
<1>2. ASSUME NEW s \in Session, NEW c, Moves(s, c)
      PROVE  session' \in [Session -> SessionState] /\ \A q \in Session : Carried(session'[q])
  BY <1>0, <1>2 DEF TypeOK
<1>3. ASSUME NEW s \in Session, Close(s)
      PROVE  session' \in [Session -> SessionState] /\ \A q \in Session : Carried(session'[q])
  BY <1>0, <1>3, CloseType, CloseCarried DEF TypeInv
<1>4. ASSUME NEW s \in Session, Attempt(s) PROVE TypeInv'
  <2> DEFINE c == [session[s] EXCEPT !.phase = "admitted"]
  <2>1. c \in SessionState /\ Carried(c)
    <3>1. session[s] \in SessionState /\ Carried(session[s]) /\ session[s].phase = "idle"
      BY <1>0, <1>4 DEF Attempt, TypeOK
    <3> QED BY <3>1 DEF Carried, SessionState, Phase, Verdict
  <2>2. CASE Refilled >= Unit
    <3>1. session' = [session EXCEPT ![s] = c]
      BY <1>4, <2>2 DEF Attempt
    <3>2. session' \in [Session -> SessionState] /\ \A q \in Session : Carried(session'[q])
      BY <1>2, <2>1, <3>1
    <3>3. bucket' \in [tokens : Int, at : 0 .. MaxTime] /\ worst' \in Nat /\ admittedAt' \in 0 .. MaxTime
      <4>1. /\ bucket' = [tokens |-> Refilled - Unit, at |-> now]
            /\ worst' = worst + Unit /\ admittedAt' = now
        BY <1>4, <2>2 DEF Attempt
      <4>2. now \in 0 .. MaxTime /\ worst \in Nat /\ Unit \in Nat
        BY <1>0, AccountsAssumption DEF TypeOK
      <4>3. Refilled - Unit \in Int /\ worst + Unit \in Nat
        BY <1>1, <4>2
      <4> QED BY <4>1, <4>2, <4>3
    <3> QED BY <1>0, <1>4, <3>2, <3>3 DEF Attempt, TypeInv, TypeOK, clocks, tables, locks
  <2>3. CASE ~(Refilled >= Unit)
    BY <1>0, <1>4, <2>3 DEF Attempt, Rejected, TypeInv, TypeOK, clocks, tables, locks
  <2> QED BY <2>2, <2>3
<1>5. ASSUME NEW s \in Session, Close(s), Frame PROVE TypeInv'
  BY <1>0, <1>3, <1>5 DEF TypeInv, TypeOK, clocks, rates, tables, locks
<1>6. ASSUME NEW s \in Session, NEW c, Moves(s, c), Frame PROVE TypeInv'
  BY <1>0, <1>2, <1>6 DEF TypeInv, TypeOK, clocks, rates, tables, locks
<1>7. ASSUME NEW s \in Session, PasswordLogin(s) PROVE TypeInv'
  BY <1>5, <1>7 DEF PasswordLogin
<1>8. ASSUME NEW s \in Session, NEW e \in Address, CheckRegistration(s, e) PROVE TypeInv'
  <2> DEFINE c == [session[s] EXCEPT !.phase = "checked", !.email = e]
  <2>1. c \in SessionState /\ Carried(c)
    <3>1. session[s] \in SessionState /\ Carried(session[s]) /\ session[s].phase = "admitted"
      BY <1>0, <1>8 DEF CheckRegistration, TypeOK
    <3> QED BY <3>1 DEF Carried, SessionState, Phase, Verdict
  <2>2. Close(s) \/ session' = [session EXCEPT ![s] = c]
    BY <1>8 DEF CheckRegistration
  <2> QED BY <1>5, <1>6, <1>8, <2>1, <2>2 DEF CheckRegistration
<1>9. ASSUME NEW s \in Session, NEW n \in Nonce, IssueChallenge(s, n) PROVE TypeInv'
  <2>1. challenge' \in [Nonce -> Nat]
    BY <1>0, <1>9 DEF IssueChallenge, HostTime, TypeOK
  <2> QED BY <1>0, <1>3, <1>9, <2>1 DEF IssueChallenge, TypeInv, TypeOK, clocks, rates, tables, locks
<1>10. ASSUME NEW s \in Session, NEW n \in Nonce, NEW g \in Subject, NEW e \in Address,
              Verify(s, n, g, e)
       PROVE  TypeInv'
  <2> DEFINE c == [session[s] EXCEPT !.phase = "verified", !.nonce = n, !.subject = g, !.email = e]
  <2>1. c \in SessionState /\ Carried(c)
    <3>1. session[s] \in SessionState /\ Carried(session[s]) /\ session[s].phase = "admitted"
      BY <1>0, <1>10 DEF Verify, TypeOK
    <3> QED BY <3>1 DEF Carried, SessionState, Phase, Verdict
  <2> QED BY <1>6, <1>10, <2>1 DEF Verify
<1>11. ASSUME NEW s \in Session, Spend(s) PROVE TypeInv'
  <2> DEFINE swept == {m \in nonces : Expired(m)}
             c == [session[s] EXCEPT !.phase = "spent", !.swept = swept,
                     !.verdict = IF KnownSubject(session[s].subject) THEN "known" ELSE "none"]
  <2>1. c \in SessionState /\ Carried(c)
    <3>1. session[s] \in SessionState /\ session[s].phase = "verified" /\ Carried(session[s])
      BY <1>0, <1>11 DEF Spend, TypeOK
    <3>2. swept \in SUBSET Nonce
      BY <1>0 DEF TypeOK
    <3> QED BY <3>1, <3>2 DEF Carried, Idle, SessionState, Phase, Verdict
  <2>2. Close(s) \/ session' = [session EXCEPT ![s] = c]
    BY <1>11 DEF Spend
  <2> QED BY <1>5, <1>6, <1>11, <2>1, <2>2 DEF Spend
<1>12. ASSUME NEW s \in Session, SignIn(s) PROVE TypeInv'
  <2>1. session[s].nonce \in Nonce
    BY <1>0, <1>12 DEF SignIn, Carried
  <2> QED BY <1>0, <1>3, <1>12, <2>1, NonceType DEF SignIn, TypeInv, TypeOK, clocks, rates, locks
<1>13. ASSUME NEW s \in Session, Judge(s) PROVE TypeInv'
  <2> DEFINE c == [session[s] EXCEPT !.phase = "judged", !.verdict = Judgement(session[s])]
  <2>1. c \in SessionState /\ Carried(c)
    <3>1. Judgement(session[s]) \in Verdict
      BY DEF Judgement, Verdict
    <3>2. session[s] \in SessionState /\ Carried(session[s]) /\ session[s].phase \in {"checked", "spent"}
      BY <1>0, <1>13 DEF Judge, TypeOK
    <3>3. session[s].phase = "checked" =>
            session[s].subject = None /\ session[s].nonce = None /\ session[s].swept = {}
      BY <3>2 DEF Carried, Idle
    <3>4. /\ c.phase = "judged" /\ c.email = session[s].email /\ c.subject = session[s].subject
          /\ c.nonce = session[s].nonce /\ c.swept = session[s].swept /\ c \in SessionState
      BY <3>1, <3>2 DEF SessionState, Phase
    <3> QED BY <3>2, <3>3, <3>4 DEF Carried
  <2>2. session' = [session EXCEPT ![s] = c] /\ registrar' = s
    BY <1>13 DEF Judge
  <2> QED BY <1>0, <1>2, <1>13, <2>1, <2>2 DEF Judge, TypeInv, TypeOK, clocks, rates, tables
<1>14. ASSUME NEW s \in Session, Finish(s) PROVE TypeInv'
  <2>1. session[s] \in SessionState /\ session[s].phase = "judged" /\ Carried(session[s])
    BY <1>0, <1>14 DEF Finish, TypeOK
  <2>2. users' \in Seq(User)
    <3>1. NewUser(session[s]) \in User
      BY <2>1 DEF NewUser, User, Carried, SessionState
    <3> QED BY <1>0, <1>14, <3>1 DEF Finish, TypeOK
  <2>3. nonces' \subseteq Nonce /\ uses' \in [Nonce -> [timely : Nat, late : Nat]]
    <3>1. CASE session[s].subject # None /\ session[s].verdict # "full"
      <4>1. session[s].nonce \in Nonce /\ CommitNonce(s)
        BY <1>14, <2>1, <3>1 DEF Finish, Carried, SessionState
      <4> QED BY <1>0, <4>1, NonceType
    <3>2. CASE ~(session[s].subject # None /\ session[s].verdict # "full")
      BY <1>0, <1>14, <3>2 DEF Finish, TypeOK
    <3> QED BY <3>1, <3>2
  <2> QED BY <1>0, <1>3, <1>14, <2>2, <2>3 DEF Finish, TypeInv, TypeOK, clocks, rates
<1>15. ASSUME NEW s \in Session, Abort(s) PROVE TypeInv'
  BY <1>0, <1>3, <1>15 DEF Abort, TypeInv, TypeOK, clocks, rates, tables
<1>16. ASSUME NEW s \in Session, NEW u \in DOMAIN users, NEW b \in BOOLEAN, BeginGrant(s, u, b)
       PROVE  TypeInv'
  <2> DEFINE c == [session[s] EXCEPT !.phase = "granting", !.user = u,
                     !.verdict = IF b THEN "grant" ELSE "revoke"]
  <2>1. c \in SessionState /\ Carried(c)
    <3>1. session[s] \in SessionState /\ u \in Nat
      BY <1>0 DEF TypeOK
    <3> QED BY <3>1 DEF Carried, SessionState, Phase, Verdict
  <2>2. session' = [session EXCEPT ![s] = c] /\ grantor' = s
    BY <1>16 DEF BeginGrant
  <2> QED BY <1>0, <1>2, <1>16, <2>1, <2>2 DEF BeginGrant, TypeInv, TypeOK, clocks, rates, tables
<1>17. ASSUME NEW s \in Session, CommitGrant(s) PROVE TypeInv'
  <2> DEFINE u == session[s].user
             x == session[s].verdict = "grant"
  <2>1. users' \in Seq(User)
    <3>1. users' = [users EXCEPT ![u] = [users[u] EXCEPT !.operator = x]] /\ x \in BOOLEAN
      BY <1>17 DEF CommitGrant
    <3>2. ASSUME u \in DOMAIN users PROVE [users[u] EXCEPT !.operator = x] \in User
      <4>1. users[u] \in User
        BY <1>0, <3>2 DEF TypeOK
      <4> QED BY <4>1, <3>1 DEF User
    <3> DEFINE e == [users[u] EXCEPT !.operator = x]
    <3>3. users \in Seq(User) /\ users' = [users EXCEPT ![u] = e] /\ (u \in DOMAIN users => e \in User)
      BY <1>0, <3>1, <3>2 DEF TypeOK
    <3> HIDE DEF u, x, e
    <3>4. CASE u \in DOMAIN users
      BY <3>3, <3>4, ExceptSeq
    <3>5. CASE u \notin DOMAIN users
      <4>1. users \in [1 .. Len(users) -> User] /\ u \notin 1 .. Len(users)
        BY <3>3, <3>5
      <4>2. users' = [i \in 1 .. Len(users) |-> users[i]]
        BY <3>3, <4>1, Zenon
      <4>3. users' = users
        BY <4>1, <4>2
      <4> QED BY <3>3, <4>3
    <3> QED BY <3>4, <3>5
  <2> QED BY <1>0, <1>3, <1>17, <2>1 DEF CommitGrant, TypeInv, TypeOK, clocks, rates
<1>18. CASE Tick
  BY <1>0, <1>18 DEF Tick, TypeInv, TypeOK, tables, locks
<1>19. CASE StepBack
  BY <1>0, <1>19 DEF StepBack, TypeInv, TypeOK, rates, tables, locks
<1>20. CASE UNCHANGED vars
  BY <1>0, <1>20 DEF vars, TypeInv, TypeOK, clocks, rates, tables, locks
<1> QED BY <1>4, <1>7, <1>8, <1>9, <1>10, <1>11, <1>12, <1>13, <1>14, <1>15, <1>16, <1>17,
           <1>18, <1>19, <1>20 DEF Next

(* Every variable stays in its type, and a session carries what its        *)
(* request gave it.                                                        *)
THEOREM TypeCorrect == Spec => []TypeInv
BY InitType, TypeStep, PTL DEF Spec

-----------------------------------------------------------------------------
(* What one step does to the tables, and who may take the locks.           *)

(* A step that is not a commit of accounts leaves them alone.              *)
LEMMA UsersChange ==
  ASSUME [Next]_vars, UNCHANGED users => FALSE
  PROVE  \E s \in Session : Finish(s) \/ CommitGrant(s)
<1>1. ASSUME NEW s \in Session,
             \/ Attempt(s) \/ PasswordLogin(s) \/ Spend(s) \/ SignIn(s) \/ Judge(s) \/ Abort(s)
             \/ \E e \in Address : CheckRegistration(s, e)
             \/ \E n \in Nonce : IssueChallenge(s, n)
             \/ \E n \in Nonce, g \in Subject, e \in Address : Verify(s, n, g, e)
             \/ \E u \in DOMAIN users, b \in BOOLEAN : BeginGrant(s, u, b)
      PROVE  UNCHANGED users
  BY <1>1 DEF Attempt, PasswordLogin, Spend, SignIn, Judge, Abort, CheckRegistration,
              IssueChallenge, Verify, BeginGrant, tables
<1>2. Tick \/ StepBack \/ UNCHANGED vars => UNCHANGED users
  BY DEF Tick, StepBack, vars, tables
<1> QED BY <1>1, <1>2 DEF Next

(* Finish appends at most one account, that is no operator.                *)
LEMMA FinishUsers ==
  ASSUME TypeInv, NEW s \in Session, Finish(s)
  PROVE  \/ users' = users
         \/ /\ session[s].verdict = "new"
            /\ Len(users') = Len(users) + 1
            /\ \A i \in DOMAIN users : users'[i] = users[i]
            /\ users'[Len(users) + 1] = NewUser(session[s])
            /\ NewUser(session[s]) \in User
<1>1. users \in Seq(User) /\ session[s] \in SessionState /\ session[s].phase = "judged"
      /\ Carried(session[s])
  BY DEF TypeInv, TypeOK, Finish
<1>2. NewUser(session[s]) \in User
  BY <1>1 DEF NewUser, User, Carried, SessionState
<1> QED BY <1>1, <1>2 DEF Finish

(* A grant changes the flag of one account only.                           *)
LEMMA GrantUsers ==
  ASSUME TypeInv, NEW s \in Session, CommitGrant(s)
  PROVE  /\ users' \in Seq(User) /\ Len(users') = Len(users)
         /\ \A i \in DOMAIN users :
              /\ users'[i].email = users[i].email /\ users'[i].subject = users[i].subject
              /\ users'[i].operator =
                   IF i = session[s].user THEN session[s].verdict = "grant" ELSE users[i].operator
<1> DEFINE u == session[s].user
           x == session[s].verdict = "grant"
           e == [users[u] EXCEPT !.operator = x]
<1>1. users \in Seq(User) /\ users' \in Seq(User)
  BY TypeStep DEF TypeInv, TypeOK, Next
<1>2. users' = [users EXCEPT ![u] = e]
  BY DEF CommitGrant
<1>3. Len(users') = Len(users) /\ DOMAIN users' = DOMAIN users
  BY <1>1, <1>2
<1>4. ASSUME NEW i \in DOMAIN users
      PROVE  /\ users'[i].email = users[i].email /\ users'[i].subject = users[i].subject
             /\ users'[i].operator = IF i = u THEN x ELSE users[i].operator
  <2>1. users[i] \in User
    BY <1>1
  <2>2. CASE i = u
    <3>1. users'[i] = [users[i] EXCEPT !.operator = x] /\ x \in BOOLEAN
      BY <1>2, <2>2
    <3> QED BY <2>1, <2>2, <3>1 DEF User
  <2>3. CASE i # u
    BY <1>2, <2>3
  <2> QED BY <2>2, <2>3
<1> QED BY <1>1, <1>3, <1>4

-----------------------------------------------------------------------------
(* The steps of one session.                                               *)

Steps(r) ==
  \/ Attempt(r) \/ PasswordLogin(r) \/ Spend(r) \/ SignIn(r)
  \/ Judge(r) \/ Finish(r) \/ Abort(r) \/ CommitGrant(r)
  \/ \E e \in Address : CheckRegistration(r, e)
  \/ \E n \in Nonce : IssueChallenge(r, n)
  \/ \E n \in Nonce, g \in Subject, e \in Address : Verify(r, n, g, e)
  \/ \E u \in DOMAIN users, b \in BOOLEAN : BeginGrant(r, u, b)

Begins(r) == \E u \in DOMAIN users, b \in BOOLEAN : BeginGrant(r, u, b)
Verifies(r) == \E n \in Nonce, g \in Subject, e \in Address : Verify(r, n, g, e)

(* A step moves its own session, and only one action leads to each of the  *)
(* phases that rely on something.                                          *)
LEMMA Moves ==
  ASSUME TypeInv, NEW r \in Session, Steps(r)
  PROVE  /\ \A q \in Session \ {r} : session'[q] = session[q]
         /\ session'[r].phase = "judged" => Judge(r)
         /\ session'[r].phase = "granting" => Begins(r)
         /\ session'[r].phase = "spent" => Spend(r)
         /\ session'[r].phase = "verified" => Verifies(r)
<1> DEFINE P(c) == session' = [session EXCEPT ![r] = c]
           Goal == /\ \A q \in Session \ {r} : session'[q] = session[q]
                   /\ session'[r].phase = "judged" => Judge(r)
                   /\ session'[r].phase = "granting" => Begins(r)
                   /\ session'[r].phase = "spent" => Spend(r)
                   /\ session'[r].phase = "verified" => Verifies(r)
<1>0. session \in [Session -> SessionState] /\ Idle.phase = "idle"
  BY DEF TypeInv, TypeOK, Idle
<1>1. ASSUME NEW c, P(c) PROVE session'[r] = c /\ \A q \in Session \ {r} : session'[q] = session[q]
  BY <1>0, <1>1
<1>2. ASSUME Close(r) PROVE Goal
  BY <1>0, <1>1, <1>2 DEF Close
<1>3. ASSUME PasswordLogin(r) \/ SignIn(r) \/ Finish(r) \/ Abort(r) \/ CommitGrant(r)
      PROVE  Goal
  BY <1>2, <1>3 DEF PasswordLogin, SignIn, Finish, Abort, CommitGrant
<1>4. ASSUME NEW n \in Nonce, IssueChallenge(r, n) PROVE Goal
  BY <1>2, <1>4 DEF IssueChallenge
<1>5. ASSUME Attempt(r) PROVE Goal
  <2> DEFINE c == [session[r] EXCEPT !.phase = "admitted"]
  <2>1. P(c) \/ session' = session
    BY <1>5 DEF Attempt
  <2>2. c.phase = "admitted" /\ session[r].phase = "idle"
    BY <1>0, <1>5 DEF Attempt, SessionState
  <2> HIDE DEF c
  <2> QED BY <1>1, <2>1, <2>2
<1>6. ASSUME NEW e \in Address, CheckRegistration(r, e) PROVE Goal
  <2> DEFINE c == [session[r] EXCEPT !.phase = "checked", !.email = e]
  <2>1. P(c) \/ Close(r)
    BY <1>6 DEF CheckRegistration
  <2>2. c.phase = "checked"
    BY <1>0 DEF SessionState
  <2> HIDE DEF c
  <2> QED BY <1>1, <1>2, <2>1, <2>2
<1>7. ASSUME Verifies(r) PROVE Goal
  <2> PICK n \in Nonce, g \in Subject, e \in Address : Verify(r, n, g, e)
    BY <1>7 DEF Verifies
  <2> DEFINE c == [session[r] EXCEPT !.phase = "verified", !.nonce = n, !.subject = g, !.email = e]
  <2>1. P(c)
    BY DEF Verify
  <2>2. c.phase = "verified"
    BY <1>0 DEF SessionState
  <2> HIDE DEF c
  <2> QED BY <1>1, <1>7, <2>1, <2>2
<1>8. ASSUME Spend(r) PROVE Goal
  <2> DEFINE c == [session[r] EXCEPT !.phase = "spent", !.swept = {m \in nonces : Expired(m)},
                     !.verdict = IF KnownSubject(session[r].subject) THEN "known" ELSE "none"]
  <2>1. P(c) \/ Close(r)
    BY <1>8 DEF Spend
  <2>2. c.phase = "spent"
    BY <1>0 DEF SessionState
  <2> HIDE DEF c
  <2> QED BY <1>1, <1>2, <1>8, <2>1, <2>2
<1>9. ASSUME Judge(r) PROVE Goal
  <2> DEFINE c == [session[r] EXCEPT !.phase = "judged", !.verdict = Judgement(session[r])]
  <2>1. P(c)
    BY <1>9 DEF Judge
  <2>2. c.phase = "judged"
    BY <1>0 DEF SessionState
  <2> HIDE DEF c
  <2> QED BY <1>1, <1>9, <2>1, <2>2
<1>10. ASSUME Begins(r) PROVE Goal
  <2> PICK u \in DOMAIN users, b \in BOOLEAN : BeginGrant(r, u, b)
    BY <1>10 DEF Begins
  <2> DEFINE c == [session[r] EXCEPT !.phase = "granting", !.user = u,
                     !.verdict = IF b THEN "grant" ELSE "revoke"]
  <2>1. P(c)
    BY DEF BeginGrant
  <2>2. c.phase = "granting"
    BY <1>0 DEF SessionState
  <2> HIDE DEF c
  <2> QED BY <1>1, <1>10, <2>1, <2>2
<1> QED BY <1>3, <1>4, <1>5, <1>6, <1>7, <1>8, <1>9, <1>10 DEF Steps, Begins, Verifies

(* Only the clock moves without a session.                                 *)
LEMMA Quiet ==
  ASSUME [Next]_vars, \A r \in Session : ~Steps(r)
  PROVE  /\ UNCHANGED <<session, users, nonces, uses, registrar, grantor, challenge, bucket, admittedAt>>
         /\ Tick \/ StepBack \/ UNCHANGED vars
BY DEF Next, Steps, Tick, StepBack, vars, clocks, rates, tables, locks

-----------------------------------------------------------------------------
(* The locks.                                                              *)

LockInv ==
  \A s \in Session :
    /\ session[s].phase = "judged" => registrar = s
    /\ session[s].phase = "granting" => grantor = s

LEMMA LockStep == TypeInv /\ LockInv /\ [Next]_vars => LockInv'
<1> SUFFICES ASSUME TypeInv, LockInv, [Next]_vars, NEW s \in Session
             PROVE  /\ session'[s].phase = "judged" => registrar' = s
                    /\ session'[s].phase = "granting" => grantor' = s
  BY DEF LockInv
<1>0. /\ session[s].phase = "judged" => registrar = s
      /\ session[s].phase = "granting" => grantor = s
      /\ None \notin Session
  BY DEF LockInv
<1>1. ASSUME NEW r \in Session, Steps(r)
      PROVE  /\ session'[s].phase = "judged" => registrar' = s
             /\ session'[s].phase = "granting" => grantor' = s
  <2>1. CASE r = s
    BY <1>1, <2>1, Moves DEF Judge, Begins, BeginGrant
  <2>2. CASE r # s
    <3>1. session'[s] = session[s]
      BY <1>1, <2>2, Moves
    <3>2. registrar = s => registrar' = s
      <4>1. ASSUME Finish(r) PROVE registrar = r
        BY <4>1 DEF Finish, LockInv
      <4> QED BY <1>0, <1>1, <2>2, <4>1 DEF Steps, Attempt, PasswordLogin, Spend, SignIn, Judge, Abort,
                CommitGrant, CheckRegistration, IssueChallenge, Verify, BeginGrant, LockFree, locks
    <3>3. grantor = s => grantor' = s
      <4>1. ASSUME CommitGrant(r) PROVE grantor = r
        BY <4>1 DEF CommitGrant, LockInv
      <4> QED BY <1>0, <1>1, <2>2, <4>1 DEF Steps, Attempt, PasswordLogin, Spend, SignIn, Judge, Abort,
                Finish, CheckRegistration, IssueChallenge, Verify, BeginGrant, LockFree, locks
    <3> QED BY <1>0, <3>1, <3>2, <3>3
  <2> QED BY <2>1, <2>2
<1>2. CASE \A r \in Session : ~Steps(r)
  BY <1>0, <1>2, Quiet
<1> QED BY <1>1, <1>2

-----------------------------------------------------------------------------
(* The operator: what was read before a grant is still true when it        *)
(* commits, because the other grants wait.                                 *)

Single == \A i, j \in DOMAIN users : users[i].operator /\ users[j].operator => i = j

GrantInv ==
  /\ Single
  /\ \A s \in Session :
       session[s].phase = "granting" /\ session[s].verdict = "grant" =>
         ~OtherOperator(session[s].user)

LEMMA GrantStep == TypeInv /\ LockInv /\ GrantInv /\ [Next]_vars => GrantInv'
<1> SUFFICES ASSUME TypeInv, LockInv, GrantInv, [Next]_vars PROVE GrantInv'
  OBVIOUS
<1>0. users \in Seq(User) /\ session \in [Session -> SessionState]
  BY DEF TypeInv, TypeOK
<1>1. CASE UNCHANGED users
  <2>1. ASSUME NEW s \in Session, session'[s].phase = "granting", session'[s].verdict = "grant"
        PROVE  ~OtherOperator(session'[s].user)
    <3>1. CASE session'[s] = session[s]
      BY <2>1, <3>1 DEF GrantInv
    <3>2. CASE session'[s] # session[s]
      <4>1. PICK u \in DOMAIN users, b \in BOOLEAN : BeginGrant(s, u, b)
        <5>1. PICK r \in Session : Steps(r)
          BY <3>2, Quiet
        <5> QED BY <2>1, <3>2, <5>1, Moves DEF Begins
      <4>2. session'[s] = [session[s] EXCEPT !.phase = "granting", !.user = u,
                             !.verdict = IF b THEN "grant" ELSE "revoke"]
        BY <1>0, <4>1 DEF BeginGrant
      <4>3. session'[s].user = u /\ (session'[s].verdict = "grant" => b)
        BY <1>0, <4>2 DEF SessionState
      <4> QED BY <2>1, <4>1, <4>3 DEF BeginGrant
    <3> QED BY <3>1, <3>2
  <2> QED BY <1>1, <2>1 DEF GrantInv, Single, OtherOperator
<1>2. CASE users' # users
  <2>1. PICK r \in Session : Finish(r) \/ CommitGrant(r)
    BY <1>2, UsersChange
  <2>2. ASSUME NEW s \in Session, session'[s].phase = "granting"
        PROVE  s # r /\ session'[s] = session[s]
    BY <2>1, <2>2, Moves DEF Steps, Begins, BeginGrant, Finish, CommitGrant
  <2>3. CASE Finish(r)
    <3>1. /\ Len(users') = Len(users) + 1
          /\ \A i \in DOMAIN users : users'[i] = users[i]
          /\ ~users'[Len(users) + 1].operator
      <4>1. ~NewUser(session[r]).operator
        BY DEF NewUser
      <4> QED BY <1>2, <2>3, <4>1, FinishUsers
    <3>2. DOMAIN users' = DOMAIN users \cup {Len(users) + 1}
      <4>1. users' \in Seq(User)
        BY TypeStep DEF TypeInv, TypeOK
      <4> QED BY <1>0, <3>1, <4>1
    <3>3. ASSUME NEW s \in Session, session'[s].phase = "granting", session'[s].verdict = "grant",
                 NEW i \in DOMAIN users' \ {session'[s].user}, users'[i].operator
          PROVE  FALSE
      BY <2>2, <3>1, <3>2, <3>3 DEF GrantInv, OtherOperator
    <3> QED BY <3>1, <3>2, <3>3 DEF GrantInv, Single, OtherOperator
  <2>4. CASE CommitGrant(r)
    <3>1. /\ users' \in Seq(User) /\ DOMAIN users' = DOMAIN users
          /\ \A i \in DOMAIN users : users'[i].operator =
               IF i = session[r].user THEN session[r].verdict = "grant" ELSE users[i].operator
      BY <1>0, <2>4, GrantUsers
    <3>2. session[r].phase = "granting" /\ grantor = r
      BY <2>4 DEF CommitGrant, LockInv
    <3>3. ASSUME NEW s \in Session PROVE session'[s].phase # "granting"
      BY <2>2, <3>2 DEF LockInv
    <3>4. session[r].verdict = "grant" =>
            \A i \in DOMAIN users \ {session[r].user} : ~users[i].operator
      BY <3>2 DEF GrantInv, OtherOperator
    <3>5. Single'
      BY <3>1, <3>4 DEF GrantInv, Single
    <3> QED BY <3>3, <3>5 DEF GrantInv
  <2> QED BY <2>1, <2>3, <2>4
<1> QED BY <1>1, <1>2

LEMMA SingleIsOne == TypeOK /\ Single => OneOperator
<1> SUFFICES ASSUME TypeOK, Single PROVE OneOperator
  OBVIOUS
<1> DEFINE S == {i \in DOMAIN users : users[i].operator}
<1>1. CASE S = {}
  <2>1. Cardinality(S) = 0
    BY <1>1, FS_EmptySet
  <2> QED BY <2>1 DEF OneOperator
<1>2. CASE S # {}
  <2>1. PICK x \in S : TRUE
    BY <1>2
  <2>2. S = {x}
    BY <2>1 DEF Single
  <2>3. Cardinality(S) = 1
    BY <2>2, FS_Singleton
  <2> QED BY <2>3 DEF OneOperator
<1> QED BY <1>1, <1>2

(* The demo has at most one operator (set_operator), however many grants   *)
(* and registrations meet.                                                 *)
THEOREM AtMostOneOperator == Spec => []OneOperator
<1>1. Init => LockInv /\ GrantInv
  BY DEF Init, LockInv, GrantInv, Single, Idle
<1>2. TypeInv /\ GrantInv => OneOperator
  BY SingleIsOne DEF TypeInv, GrantInv
<1> QED BY <1>1, <1>2, InitType, TypeStep, LockStep, GrantStep, PTL DEF Spec

-----------------------------------------------------------------------------
(* Registration: what the holder of the lock found is still true when it   *)
(* inserts its account.                                                    *)

Fresh(c) ==
  /\ ~EmailTaken(c.email) /\ ~Full
  /\ c.subject # None => ~KnownSubject(c.subject)

RegistrationInv ==
  /\ RegistrationsAreSerial
  /\ \A s \in Session :
       session[s].phase = "judged" /\ session[s].verdict = "new" => Fresh(session[s])

LEMMA RegistrationStep == TypeInv /\ LockInv /\ RegistrationInv /\ [Next]_vars => RegistrationInv'
<1> SUFFICES ASSUME TypeInv, LockInv, RegistrationInv, [Next]_vars PROVE RegistrationInv'
  OBVIOUS
<1>0. users \in Seq(User) /\ session \in [Session -> SessionState] /\ users' \in Seq(User)
  BY TypeStep DEF TypeInv, TypeOK
<1>1. CASE UNCHANGED users
  <2>1. ASSUME NEW s \in Session, session'[s].phase = "judged", session'[s].verdict = "new"
        PROVE  Fresh(session'[s])
    <3>1. CASE session'[s] = session[s]
      BY <2>1, <3>1 DEF RegistrationInv
    <3>2. CASE session'[s] # session[s]
      <4>1. Judge(s)
        <5>1. PICK r \in Session : Steps(r)
          BY <3>2, Quiet
        <5> QED BY <2>1, <3>2, <5>1, Moves
      <4>2. session'[s] = [session[s] EXCEPT !.phase = "judged", !.verdict = Judgement(session[s])]
        BY <1>0, <4>1 DEF Judge
      <4>3. /\ session'[s].email = session[s].email /\ session'[s].subject = session[s].subject
            /\ Judgement(session[s]) = "new"
        BY <1>0, <2>1, <4>2 DEF SessionState
      <4> QED BY <4>3 DEF Judgement, Fresh
    <3> QED BY <3>1, <3>2
  <2>2. RegistrationsAreSerial'
    BY <1>1 DEF RegistrationInv, RegistrationsAreSerial, Distinct
  <2> QED BY <1>1, <2>1, <2>2 DEF RegistrationInv, Fresh, EmailTaken, KnownSubject, Full
<1>2. CASE users' # users
  <2>1. PICK r \in Session : Finish(r) \/ CommitGrant(r)
    BY <1>2, UsersChange
  <2>2. CASE Finish(r)
    <3>1. /\ session[r].verdict = "new" /\ Len(users') = Len(users) + 1
          /\ \A i \in DOMAIN users : users'[i] = users[i]
          /\ users'[Len(users) + 1] = NewUser(session[r])
      BY <1>2, <2>2, FinishUsers
    <3>2. session[r].phase = "judged" /\ registrar = r /\ Fresh(session[r]) /\ Carried(session[r])
      BY <2>2, <3>1 DEF Finish, LockInv, RegistrationInv, TypeInv
    <3>3. ASSUME NEW s \in Session PROVE session'[s].phase # "judged"
      BY <2>2, <3>2, Moves DEF Steps, LockInv, Judge
    <3>4. Len(users') <= Capacity
      BY <1>0, <3>1, <3>2 DEF Fresh, Full
    <3>5. DOMAIN users' = DOMAIN users \cup {Len(users) + 1}
      BY <1>0, <3>1
    <3>6. ASSUME NEW i \in DOMAIN users
          PROVE  /\ Lower[users[i].email] # Lower[NewUser(session[r]).email]
                 /\ users[i].subject # None => users[i].subject # NewUser(session[r]).subject
      <4>1. session[r].email \in Address
        BY <3>2 DEF Carried
      <4>2. Lower[NewUser(session[r]).email] = Lower[session[r].email]
        BY <4>1 DEF NewUser
      <4>3. NewUser(session[r]).subject = session[r].subject
        BY DEF NewUser
      <4> QED BY <3>2, <4>2, <4>3 DEF Fresh, EmailTaken, KnownSubject
    <3>7. Distinct'
      <4> SUFFICES ASSUME NEW i \in DOMAIN users', NEW j \in DOMAIN users', i # j
                   PROVE  /\ Lower[users'[i].email] # Lower[users'[j].email]
                          /\ users'[i].subject # None => users'[i].subject # users'[j].subject
        BY DEF Distinct
      <4>1. CASE i \in DOMAIN users /\ j \in DOMAIN users
        BY <3>1, <4>1 DEF RegistrationInv, RegistrationsAreSerial, Distinct
      <4>2. CASE i \notin DOMAIN users
        <5>1. j \in DOMAIN users /\ i = Len(users) + 1
          BY <3>5, <4>2
        <5> QED BY <3>1, <3>6, <5>1
      <4>3. CASE j \notin DOMAIN users
        <5>1. i \in DOMAIN users /\ j = Len(users) + 1
          BY <3>5, <4>3
        <5> QED BY <3>1, <3>6, <5>1
      <4> QED BY <4>1, <4>2, <4>3
    <3> QED BY <3>3, <3>4, <3>7 DEF RegistrationInv, RegistrationsAreSerial
  <2>3. CASE CommitGrant(r)
    <3>1. /\ Len(users') = Len(users) /\ DOMAIN users' = DOMAIN users
          /\ \A i \in DOMAIN users :
               users'[i].email = users[i].email /\ users'[i].subject = users[i].subject
      BY <1>0, <2>3, GrantUsers
    <3>2. ASSUME NEW s \in Session, session'[s].phase = "judged" PROVE session'[s] = session[s]
      BY <2>3, <3>2, Moves DEF Steps, Judge, CommitGrant
    <3>3. RegistrationsAreSerial'
      BY <3>1 DEF RegistrationInv, RegistrationsAreSerial, Distinct
    <3>4. /\ \A e : (\E i \in DOMAIN users' : Lower[users'[i].email] = Lower[e]) <=> EmailTaken(e)
          /\ \A g : (\E i \in DOMAIN users' : users'[i].subject = g) <=> KnownSubject(g)
      BY <3>1 DEF EmailTaken, KnownSubject
    <3>5. ASSUME NEW s \in Session, session'[s].phase = "judged", session'[s].verdict = "new"
          PROVE  session'[s] = session[s] /\ Fresh(session[s])
      BY <3>2, <3>5 DEF RegistrationInv
    <3> QED BY <3>1, <3>3, <3>4, <3>5 DEF RegistrationInv, Fresh, EmailTaken, KnownSubject, Full
  <2> QED BY <2>1, <2>2, <2>3
<1> QED BY <1>1, <1>2

(* No two accounts share an address in any spelling or a Google subject,   *)
(* and there are never more than the capacity (register_user,              *)
(* authenticate_google).                                                   *)
THEOREM RegistrationsSerialized == Spec => []RegistrationsAreSerial
<1>1. Init => LockInv /\ RegistrationInv
  BY DEF Init, LockInv, RegistrationInv, RegistrationsAreSerial, Distinct, Idle
<1>2. RegistrationInv => RegistrationsAreSerial
  BY DEF RegistrationInv
<1> QED BY <1>1, <1>2, InitType, TypeStep, LockStep, RegistrationStep, PTL DEF Spec

-----------------------------------------------------------------------------
(* Challenges.  A challenge that paid in time is remembered at least until *)
(* the clock has passed its expiry, and two transactions never hold the    *)
(* same one.                                                               *)

Open(s) == session[s].phase \in {"spent", "judged"} /\ session[s].nonce \in Nonce

Issued ==
  /\ now <= latest
  /\ \A n \in nonces : challenge[n] # 0
  /\ \A n \in Nonce : challenge[n] = 0 => uses[n].timely = 0
  /\ \A s \in Session :
       session[s].phase \in {"verified", "spent", "judged"} /\ session[s].nonce \in Nonce =>
         challenge[session[s].nonce] # 0

Held ==
  /\ \A s \in Session : Open(s) =>
       /\ session[s].nonce \in nonces => challenge[session[s].nonce] < latest
       /\ \A m \in session[s].swept : challenge[m] # 0 /\ challenge[m] < latest
  /\ \A s, r \in Session : Open(s) /\ Open(r) /\ session[s].nonce = session[r].nonce => s = r

Remembered ==
  /\ ChallengeSpentOnce
  /\ \A n \in Nonce \ nonces : latest <= challenge[n] => uses[n].timely = 0

SpendInv == Issued /\ Held /\ Remembered

(* Only the sign-in of a Google session changes what is remembered.        *)
Pays(r) ==
  /\ session[r].phase \in {"spent", "judged"} /\ session[r].nonce \in Nonce
  /\ CommitNonce(r) /\ Close(r) /\ UNCHANGED <<clocks, challenge>>

LEMMA PayStep ==
  ASSUME TypeInv, NEW r \in Session, Steps(r)
  PROVE  \/ Pays(r)
         \/ UNCHANGED <<clocks, nonces, uses, challenge>>
         \/ \E n \in Nonce : IssueChallenge(r, n)
<1>1. ASSUME SignIn(r) \/ Finish(r)
      PROVE  Pays(r) \/ UNCHANGED <<clocks, nonces, uses, challenge>>
  <2>1. Carried(session[r]) /\ session[r] \in SessionState
    BY DEF TypeInv, TypeOK
  <2> QED BY <1>1, <2>1 DEF SignIn, Finish, Pays, Carried, SessionState
<1> QED BY <1>1 DEF Steps, Attempt, PasswordLogin, Spend, Judge, Abort, CommitGrant,
           CheckRegistration, Verify, BeginGrant, tables

LEMMA SpendStep == TypeInv /\ SpendInv /\ [Next]_vars => SpendInv'
<1> SUFFICES ASSUME TypeInv, SpendInv, [Next]_vars PROVE SpendInv'
  OBVIOUS
<1>0. /\ session \in [Session -> SessionState] /\ \A s \in Session : Carried(session[s])
      /\ challenge \in [Nonce -> Nat] /\ uses \in [Nonce -> [timely : Nat, late : Nat]]
      /\ nonces \subseteq Nonce /\ now \in Nat /\ latest \in Nat
      /\ None \notin Nonce
  BY DEF TypeInv, TypeOK
<1>1. CASE \A r \in Session : ~Steps(r)
  <2>1. latest <= latest' /\ now' <= latest' /\ latest' \in Nat
    BY <1>0, <1>1, Quiet DEF Tick, StepBack, vars, clocks, SpendInv, Issued
  <2>2. UNCHANGED <<session, nonces, uses, challenge>>
    BY <1>1, Quiet
  <2>3. Issued'
    BY <2>1, <2>2 DEF SpendInv, Issued
  <2>4. Held'
    <3>1. \A n \in Nonce : challenge[n] < latest => challenge[n] < latest'
      BY <1>0, <2>1
    <3>2. ASSUME NEW s \in Session PROVE session[s].swept \subseteq Nonce
      BY <1>0 DEF SessionState
    <3> QED BY <2>2, <3>1, <3>2 DEF SpendInv, Held, Open
  <2>5. Remembered'
    BY <1>0, <2>1, <2>2 DEF SpendInv, Remembered, ChallengeSpentOnce
  <2> QED BY <2>3, <2>4, <2>5 DEF SpendInv
<1>2. ASSUME NEW r \in Session, Steps(r), UNCHANGED <<clocks, nonces, uses, challenge>>
      PROVE  SpendInv'
  <2>1. Remembered'
    BY <1>2 DEF SpendInv, Remembered, ChallengeSpentOnce, clocks
  <2>2. ASSUME NEW s \in Session, session'[s] # session[s], session'[s].nonce \in Nonce,
               session'[s].phase \in {"verified", "spent", "judged"}
        PROVE  /\ challenge[session'[s].nonce] # 0
               /\ session'[s].phase \in {"spent", "judged"} =>
                    /\ session'[s].nonce \in nonces => challenge[session'[s].nonce] < latest
                    /\ \A m \in session'[s].swept : challenge[m] # 0 /\ challenge[m] < latest
                    /\ \A q \in Session \ {s} : Open(q) => session[q].nonce # session'[s].nonce
    <3>1. s = r
      BY <1>2, <2>2, Moves
    <3>2. CASE Verifies(s)
      <4> PICK n \in Nonce, g \in Subject, e \in Address : Verify(s, n, g, e)
        BY <3>2 DEF Verifies
      <4>1. session'[s] = [session[s] EXCEPT !.phase = "verified", !.nonce = n, !.subject = g, !.email = e]
        BY <1>0 DEF Verify
      <4>2. session'[s].phase = "verified" /\ session'[s].nonce = n
        BY <1>0, <4>1 DEF SessionState
      <4> QED BY <4>2 DEF Verify
    <3>3. CASE Spend(s) /\ session'[s].phase = "spent"
      <4> DEFINE swept == {m \in nonces : Expired(m)}
                 n == session[s].nonce
      <4>1. n \in Nonce /\ session[s].phase = "verified"
        BY <1>0, <3>3 DEF Spend, Carried
      <4>2. /\ session'[s] = [session[s] EXCEPT !.phase = "spent", !.swept = swept,
                     !.verdict = IF KnownSubject(session[s].subject) THEN "known" ELSE "none"]
            /\ n \notin nonces \ swept /\ KeyFree(s, n)
        BY <1>0, <3>3 DEF Spend, Close, Idle
      <4>3. session'[s].nonce = n /\ session'[s].swept = swept
        BY <1>0, <4>2 DEF SessionState
      <4>4. \A m \in swept : challenge[m] # 0 /\ challenge[m] < latest
        BY <1>0 DEF Expired, SpendInv, Issued
      <4> QED BY <4>1, <4>2, <4>3, <4>4 DEF KeyFree, Open, SpendInv, Issued
    <3>4. CASE Judge(s)
      <4>1. session'[s] = [session[s] EXCEPT !.phase = "judged", !.verdict = Judgement(session[s])]
        BY <1>0, <3>4 DEF Judge
      <4>2. /\ session'[s].nonce = session[s].nonce /\ session'[s].swept = session[s].swept
            /\ session[s].phase = "spent"
        BY <1>0, <2>2, <3>4, <4>1 DEF SessionState, Judge, Carried
      <4> QED BY <2>2, <4>2 DEF SpendInv, Issued, Held, Open
    <3> QED BY <1>2, <2>2, <3>1, <3>2, <3>3, <3>4, Moves
  <2>3. ASSUME NEW q \in Session, q # r PROVE session'[q] = session[q]
    BY <1>2, <2>3, Moves
  <2>4. Issued'
    BY <1>2, <2>2 DEF SpendInv, Issued, clocks
  <2>5. Held'
    <3>1. ASSUME NEW s \in Session, Open(s)'
          PROVE  /\ session'[s].nonce \in nonces => challenge[session'[s].nonce] < latest
                 /\ \A m \in session'[s].swept : challenge[m] # 0 /\ challenge[m] < latest
      BY <2>2, <3>1 DEF SpendInv, Held, Open
    <3>2. ASSUME NEW s \in Session, NEW q \in Session, Open(s)', Open(q)', s # q,
                 session'[s].nonce = session'[q].nonce
          PROVE  FALSE
      BY <2>2, <2>3, <3>2 DEF SpendInv, Held, Open
    <3> QED BY <1>2, <3>1, <3>2 DEF Held, clocks
  <2> QED BY <2>1, <2>4, <2>5 DEF SpendInv
<1>3. ASSUME NEW r \in Session, NEW n \in Nonce, IssueChallenge(r, n) PROVE SpendInv'
  <2>1. PICK t \in HostTime : challenge' = [challenge EXCEPT ![n] = t + Lifetime]
    BY <1>3 DEF IssueChallenge
  <2>2. challenge'[n] \in Nat \ {0} /\ challenge[n] = 0
        /\ \A m \in Nonce \ {n} : challenge'[m] = challenge[m]
    BY <1>0, <1>3, <2>1 DEF HostTime, IssueChallenge
  <2>3. UNCHANGED <<clocks, nonces, uses>>
    BY <1>3 DEF IssueChallenge, tables
  <2>4. ASSUME NEW s \in Session, session'[s].phase \in {"verified", "spent", "judged"}
        PROVE  session'[s] = session[s]
    BY <1>0, <1>3, <2>4 DEF IssueChallenge, Close, Idle
  <2>5. Issued'
    BY <1>0, <2>2, <2>3, <2>4 DEF SpendInv, Issued, clocks
  <2>6. Held'
    <3>1. ASSUME NEW s \in Session, Open(s)'
          PROVE  /\ session'[s] = session[s] /\ Open(s) /\ session[s].nonce # n
                 /\ session[s].swept \subseteq Nonce \ {n}
      BY <1>0, <2>2, <2>4, <3>1 DEF SpendInv, Issued, Held, Open, SessionState
    <3> QED BY <1>0, <2>2, <2>3, <3>1 DEF SpendInv, Held, clocks, Open
  <2>7. Remembered'
    BY <1>0, <2>2, <2>3 DEF SpendInv, Issued, Remembered, ChallengeSpentOnce, clocks
  <2> QED BY <2>5, <2>6, <2>7 DEF SpendInv
<1>4. ASSUME NEW r \in Session, Pays(r), \A q \in Session \ {r} : session'[q] = session[q]
      PROVE  SpendInv'
  <2> DEFINE n == session[r].nonce
  <2>1. /\ n \in Nonce /\ Open(r) /\ challenge[n] # 0 /\ UNCHANGED <<now, latest, challenge>>
        /\ nonces' = (nonces \ session[r].swept) \cup {n}
    BY <1>4 DEF Pays, Open, CommitNonce, clocks, SpendInv, Issued
  <2>2. ASSUME NEW s \in Session, session'[s].phase \in {"verified", "spent", "judged"}
        PROVE  s # r /\ session'[s] = session[s]
    BY <1>0, <1>4, <2>2 DEF Pays, Close, Idle
  <2>3. /\ \A m \in Nonce \ {n} : uses'[m] = uses[m]
        /\ latest <= challenge[n] => uses'[n].timely = uses[n].timely + 1
        /\ ~(latest <= challenge[n]) => uses'[n].timely = uses[n].timely
    <3>1. CASE latest <= challenge[n]
      <4>1. uses' = [uses EXCEPT ![n] = [uses[n] EXCEPT !.timely = @ + 1]]
        BY <1>4, <3>1 DEF Pays, CommitNonce
      <4> QED BY <1>0, <2>1, <3>1, <4>1
    <3>2. CASE ~(latest <= challenge[n])
      <4>1. uses' = [uses EXCEPT ![n] = [uses[n] EXCEPT !.late = @ + 1]]
        BY <1>4, <3>2 DEF Pays, CommitNonce
      <4> QED BY <1>0, <2>1, <3>2, <4>1
    <3> QED BY <3>1, <3>2
  <2>4. latest <= challenge[n] => uses[n].timely = 0
    BY <1>0, <2>1 DEF SpendInv, Held, Remembered
  <2>5. Issued'
    BY <2>1, <2>2, <2>3 DEF SpendInv, Issued
  <2>6. Held'
    <3>1. ASSUME NEW s \in Session, Open(s)'
          PROVE  session'[s] = session[s] /\ Open(s) /\ session[s].nonce # n
      BY <2>1, <2>2, <3>1 DEF SpendInv, Held, Open
    <3> QED BY <2>1, <3>1 DEF SpendInv, Held
  <2>7. Remembered'
    <3>1. ASSUME NEW m \in Nonce PROVE uses'[m].timely <= 1
      BY <1>0, <2>1, <2>3, <2>4 DEF SpendInv, Remembered, ChallengeSpentOnce
    <3>2. ASSUME NEW m \in Nonce \ nonces', latest <= challenge[m] PROVE uses'[m].timely = 0
      <4>1. m # n /\ m \notin nonces
        BY <1>0, <2>1, <3>2 DEF SpendInv, Held
      <4> QED BY <2>3, <3>2, <4>1 DEF SpendInv, Remembered
    <3> QED BY <2>1, <3>1, <3>2 DEF Remembered, ChallengeSpentOnce
  <2> QED BY <2>5, <2>6, <2>7 DEF SpendInv
<1> QED BY <1>1, <1>2, <1>3, <1>4, PayStep, Moves

(* Until the database's clock has passed its expiry, a challenge pays for  *)
(* one sign-in, of all that present it to any replica.                     *)
THEOREM ChallengesSpentOnce == Spec => []ChallengeSpentOnce
<1>1. Init => SpendInv
  BY DEF Init, SpendInv, Issued, Held, Remembered, ChallengeSpentOnce, Open, Idle
<1>2. SpendInv => ChallengeSpentOnce
  BY DEF SpendInv, Remembered
<1> QED BY <1>1, <1>2, InitType, TypeStep, SpendStep, PTL DEF Spec

-----------------------------------------------------------------------------
(* Admission.  What the bucket holds and what the worst window has taken   *)
(* beyond its refill never add up to more than the burst.                  *)

RateInv ==
  /\ bucket.tokens \in Nat /\ bucket.at = admittedAt
  /\ worst + Refilled <= Burst * Unit

(* The bucket is full or holds what it held and what was refilled.         *)
LEMMA RefillBounds ==
  ASSUME TypeInv, bucket.tokens \in Nat
  PROVE  /\ Burst * Unit \in Nat /\ Burst * Unit >= Unit
         /\ Elapsed(now) * Rate \in Nat
         /\ Refilled \in Nat /\ Refilled <= Burst * Unit
         /\ Refilled = Burst * Unit \/ Refilled = bucket.tokens + Elapsed(now) * Rate
<1>1. Elapsed(now) \in Nat
  BY DEF Elapsed, TypeInv, TypeOK
<1>2. \A x, y \in Nat : x * y \in Nat
  OBVIOUS
<1>3. \A x, y \in Nat : x >= 1 => x * y >= y
  OBVIOUS
<1>4. /\ Burst * Unit \in Nat /\ Burst * Unit >= Unit /\ Elapsed(now) * Rate \in Nat
  BY <1>1, <1>2, <1>3
<1> QED BY <1>4 DEF Refilled

LEMMA Exchange ==
  ASSUME NEW w \in Nat, NEW x \in Nat, NEW y \in Nat, NEW m \in Nat, NEW k \in Nat,
         w + x <= m, y <= m, y <= x + k
  PROVE  (IF w > k THEN w - k ELSE 0) + y <= m
OBVIOUS

LEMMA RateStep == TypeInv /\ RateInv /\ [Next]_vars => RateInv'
<1> SUFFICES ASSUME TypeInv, RateInv, [Next]_vars PROVE RateInv'
  OBVIOUS
<1>0. /\ bucket.tokens \in Nat /\ bucket.at = admittedAt /\ worst + Refilled <= Burst * Unit
      /\ now \in Nat /\ bucket.at \in Nat /\ worst \in Nat /\ Unit \in Nat /\ Rate \in Nat
      /\ bucket \in [tokens : Int, at : 0 .. MaxTime]
  BY DEF RateInv, TypeInv, TypeOK
<1>1. /\ Burst * Unit \in Nat /\ Burst * Unit >= Unit
      /\ Elapsed(now) * Rate \in Nat
      /\ Refilled \in Nat /\ Refilled <= Burst * Unit
      /\ Refilled = Burst * Unit \/ Refilled = bucket.tokens + Elapsed(now) * Rate
  BY <1>0, RefillBounds
<1>2. ASSUME NEW s \in Session, Attempt(s) PROVE RateInv'
  <2>1. CASE Refilled >= Unit
    <3>1. /\ bucket' = [tokens |-> Refilled - Unit, at |-> now] /\ worst' = worst + Unit
          /\ admittedAt' = now /\ now' = now
      BY <1>2, <2>1 DEF Attempt, clocks
    <3>2. Elapsed(now)' = 0
      BY <1>0, <3>1 DEF Elapsed
    <3>3. Refilled' = Refilled - Unit
      <4>1. 0 * Rate = 0
        BY <1>0
      <4>2. bucket'.tokens + Elapsed(now)' * Rate = Refilled - Unit
        BY <1>0, <1>1, <3>1, <3>2, <4>1
      <4>3. ~(Refilled - Unit > Burst * Unit)
        BY <1>0, <1>1
      <4> DEFINE R == Refilled - Unit
      <4> HIDE DEF R
      <4>4. bucket'.tokens + Elapsed(now)' * Rate = R /\ ~(R > Burst * Unit)
        BY <4>2, <4>3 DEF R
      <4>5. Refilled' = R
        BY <4>4 DEF Refilled
      <4> QED BY <4>5 DEF R
    <3>4. bucket'.tokens \in Nat /\ bucket'.at = admittedAt'
      BY <1>0, <1>1, <2>1, <3>1
    <3>5. worst' + Refilled' <= Burst * Unit
      BY <1>0, <1>1, <3>1, <3>3
    <3> QED BY <3>4, <3>5 DEF RateInv
  <2>2. CASE ~(Refilled >= Unit)
    BY <1>2, <2>2 DEF Attempt, Rejected, clocks, RateInv, Refilled, Elapsed
  <2> QED BY <2>1, <2>2
<1>3. CASE UNCHANGED <<now, rates>>
  BY <1>3 DEF rates, RateInv, Refilled, Elapsed
<1>4. ASSUME UNCHANGED bucket, now' \in Nat, NEW k \in Nat, now' <= now + k,
             k * Rate \in Nat
      PROVE  Refilled' <= Refilled + k * Rate /\ Refilled' <= Burst * Unit /\ Refilled' \in Nat
  <2>1. Elapsed(now)' \in Nat /\ Elapsed(now) \in Nat /\ Elapsed(now)' <= Elapsed(now) + k
    BY <1>0, <1>4 DEF Elapsed
  <2>2. \A x, y, z \in Nat : x <= y => x * z <= y * z
    OBVIOUS
  <2>3. \A x, y, z \in Nat : (x + y) * z = x * z + y * z
    OBVIOUS
  <2>4. Elapsed(now)' * Rate <= (Elapsed(now) + k) * Rate
    BY <1>0, <2>1, <2>2
  <2>5. (Elapsed(now) + k) * Rate = Elapsed(now) * Rate + k * Rate
    BY <1>0, <2>1, <2>3
  <2>6. Elapsed(now)' * Rate \in Nat
    BY <1>0, <2>1
  <2> DEFINE a == Elapsed(now)' * Rate
             b == Elapsed(now) * Rate
             d == k * Rate
             m == Burst * Unit
  <2>7. a \in Nat /\ b \in Nat /\ d \in Nat /\ m \in Nat /\ a <= b + d
    BY <1>1, <1>4, <2>4, <2>5, <2>6
  <2>8. /\ Refilled' = IF bucket.tokens + a > m THEN m ELSE bucket.tokens + a
        /\ Refilled = IF bucket.tokens + b > m THEN m ELSE bucket.tokens + b
    BY <1>4 DEF Refilled
  <2> HIDE DEF a, b, d, m
  <2>9. Refilled' <= Refilled + d /\ Refilled' <= m /\ Refilled' \in Nat
    BY <1>0, <2>7, <2>8
  <2> QED BY <2>9 DEF d, m
<1>5. CASE Tick
  <2>1. now' = now + 1 /\ bucket' = bucket /\ admittedAt' = admittedAt
        /\ worst' = IF worst > Rate THEN worst - Rate ELSE 0
    BY <1>5 DEF Tick
  <2>2. 1 * Rate = Rate /\ 1 * Rate \in Nat
    BY <1>0
  <2>3. Refilled' <= Refilled + Rate /\ Refilled' <= Burst * Unit /\ Refilled' \in Nat
    BY <1>0, <1>4, <2>1, <2>2
  <2>4. (IF worst > Rate THEN worst - Rate ELSE 0) + Refilled' <= Burst * Unit
    BY <1>0, <1>1, <2>3, Exchange
  <2>5. worst' + Refilled' <= Burst * Unit
    BY <2>1, <2>4
  <2> QED BY <1>0, <2>1, <2>5 DEF RateInv
<1>6. CASE StepBack
  <2>1. now' = now - 1 /\ now' \in Nat /\ UNCHANGED rates
    BY <1>0, <1>6 DEF StepBack
  <2>2. 0 * Rate = 0
    BY <1>0
  <2>3. Refilled' <= Refilled /\ Refilled' \in Nat
    BY <1>0, <1>1, <1>4, <2>1, <2>2 DEF rates
  <2>4. (IF worst > 0 THEN worst - 0 ELSE 0) + Refilled' <= Burst * Unit
    <3>1. Refilled' <= Refilled + 0 /\ Refilled' <= Burst * Unit
      BY <1>0, <1>1, <1>4, <2>1, <2>2 DEF rates
    <3> QED BY <1>0, <1>1, <2>3, <3>1, Exchange
  <2>5. worst' = IF worst > 0 THEN worst - 0 ELSE 0
    BY <1>0, <2>1 DEF rates
  <2>6. worst' + Refilled' <= Burst * Unit
    BY <2>4, <2>5
  <2> QED BY <1>0, <2>1, <2>6 DEF RateInv, rates
<1>7. ASSUME NEW r \in Session, Steps(r), ~Attempt(r) PROVE UNCHANGED <<now, rates>>
  BY <1>7 DEF Steps, PasswordLogin, Spend, SignIn, Judge, Finish, Abort, CommitGrant,
              CheckRegistration, IssueChallenge, Verify, BeginGrant, clocks
<1>8. CASE \A r \in Session : ~Steps(r)
  BY <1>3, <1>5, <1>6, <1>8, Quiet DEF vars, clocks
<1> QED BY <1>2, <1>3, <1>7, <1>8

LEMMA InitRate == Init => RateInv
<1> SUFFICES ASSUME Init PROVE RateInv
  OBVIOUS
<1>1. /\ bucket.tokens = Burst * Unit /\ bucket.at = admittedAt /\ worst = 0
  BY DEF Init
<1>2. Burst * Unit \in Nat
  OBVIOUS
<1>3. Refilled \in Nat /\ Refilled <= Burst * Unit
  BY <1>1, <1>2, InitType, RefillBounds
<1> QED BY <1>1, <1>2, <1>3 DEF RateInv

(* In no window of time are more requests admitted than the burst plus     *)
(* what the window refills (limit_auth_requests).                          *)
THEOREM AttemptsBounded == Spec => []AttemptsAreBounded
<1>1. TypeInv /\ RateInv => AttemptsAreBounded
  <2> SUFFICES ASSUME TypeInv, RateInv PROVE worst <= Burst * Unit
    BY DEF AttemptsAreBounded
  <2>1. Refilled \in Nat /\ Burst * Unit \in Nat /\ worst \in Nat /\ worst + Refilled <= Burst * Unit
    BY RefillBounds DEF RateInv, TypeInv, TypeOK
  <2> QED BY <2>1
<1> QED BY <1>1, InitType, TypeStep, InitRate, RateStep, PTL DEF Spec

(* Rejected attempts do not put off the next admission.                    *)
THEOREM PatienceAdmitted == Spec => []PatienceIsAdmitted
<1>1. TypeInv /\ RateInv => PatienceIsAdmitted
  <2> SUFFICES ASSUME TypeInv, RateInv, (now - admittedAt) * Rate >= Unit
               PROVE  Refilled >= Unit
    BY DEF PatienceIsAdmitted
  <2>1. /\ Burst * Unit \in Nat /\ Burst * Unit >= Unit /\ Elapsed(now) * Rate \in Nat
        /\ Refilled = Burst * Unit \/ Refilled = bucket.tokens + Elapsed(now) * Rate
        /\ bucket.tokens \in Nat /\ bucket.at = admittedAt
    BY RefillBounds DEF RateInv
  <2>2. now \in Nat /\ admittedAt \in Nat /\ Rate \in Nat \ {0} /\ Unit \in Nat \ {0}
    BY DEF TypeInv, TypeOK
  <2>3. now > admittedAt
    <3>1. \A x \in Int, y \in Nat : x <= 0 => x * y <= 0
      OBVIOUS
    <3>2. ASSUME now - admittedAt <= 0 PROVE (now - admittedAt) * Rate <= 0
      <4> DEFINE x == now - admittedAt
      <4>1. x \in Int /\ x <= 0
        BY <2>2, <3>2
      <4> HIDE DEF x
      <4>2. x * Rate <= 0
        BY <2>2, <3>1, <4>1
      <4> QED BY <4>2 DEF x
    <3>3. ~((now - admittedAt) * Rate <= 0)
      <4> DEFINE p == (now - admittedAt) * Rate
      <4>1. p \in Int /\ p >= Unit
        BY <2>2
      <4> HIDE DEF p
      <4>2. ~(p <= 0)
        BY <2>2, <4>1
      <4> QED BY <4>2 DEF p
    <3> QED BY <2>2, <3>2, <3>3
  <2>4. Elapsed(now) = now - admittedAt
    BY <2>1, <2>3 DEF Elapsed
  <2>5. Elapsed(now) * Rate >= Unit
    BY <2>4
  <2> DEFINE p == Elapsed(now) * Rate
             m == Burst * Unit
  <2>6. /\ p \in Nat /\ m \in Nat /\ p >= Unit /\ m >= Unit
        /\ Refilled = m \/ Refilled = bucket.tokens + p
    BY <2>1, <2>5
  <2> HIDE DEF p, m
  <2> QED BY <2>1, <2>2, <2>6
<1> QED BY <1>1, InitType, TypeStep, InitRate, RateStep, PTL DEF Spec

=============================================================================
