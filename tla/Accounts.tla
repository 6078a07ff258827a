----------------------------- MODULE Accounts -------------------------------
(***************************************************************************)
(* Admission and accounts: app/auth and the account half of                *)
(* app/demo/onboarding.py.  Every public authentication request first      *)
(* takes a token from one shared bucket, in a transaction of its own.      *)
(* Registration by password and by a first Google sign-in meet under one   *)
(* advisory lock; a Google sign-in spends a challenge in the same          *)
(* transaction.  An operator command grants the single operator flag.      *)
(*                                                                         *)
(* A transaction reads under its lock in one step and writes, commits and  *)
(* unlocks in another.  Rows that are not yet committed belong to the      *)
(* session (swept, nonce) and block others that want the same key.         *)
(***************************************************************************)
EXTENDS Integers, Sequences, FiniteSets

CONSTANTS
  Session,      \* database sessions: requests on all replicas, operator commands
  Address,      \* e-mail addresses as typed
  Lower,        \* the lower-case form of every address
  Subject,      \* Google subjects
  Nonce,        \* nonces of sign-in challenges
  None,
  Burst,        \* auth_burst
  Unit, Rate,   \* a request costs Unit, a tick refills Rate of them
  Capacity,     \* max_registered_users
  Lifetime,     \* of a challenge, in ticks
  Skew,         \* hosts' clocks differ from the database's by at most this
  MaxTime,      \* bound: the database clock
  MaxBack       \* bound: times that clock is set back

ASSUME AccountsAssumption ==
  /\ Lower \in [Address -> Address] /\ \A e \in Address : Lower[Lower[e]] = Lower[e]
  /\ None \notin Session \cup Address \cup Subject \cup Nonce
  /\ Burst \in Nat \ {0} /\ Unit \in Nat \ {0} /\ Rate \in Nat \ {0}
  /\ Capacity \in Nat /\ Lifetime \in Nat \ {0} /\ Skew \in Nat
  /\ MaxTime \in Nat /\ MaxBack \in Nat

VARIABLES
  now,         \* clock_timestamp() of the database
  bucket,      \* the row of auth_rate_bucket
  users,       \* table user, in order of insertion
  nonces,      \* table google_login_nonce: spent challenges
  challenge,   \* expiry of every challenge issued, 0 before that
  session,     \* what every session is doing
  registrar,   \* holder of advisory lock 384700
  grantor,     \* holder of advisory lock 384701
  latest,      \* history: the latest time the clock has shown
  backs,       \* history: how often it was set back
  worst,       \* history: cost admitted less refill, over the worst window
  admittedAt,  \* history: when the last request was admitted
  uses         \* history: sign-ins a challenge paid for, in time and late

clocks == <<now, latest, backs>>
rates == <<bucket, worst, admittedAt>>
tables == <<users, nonces, uses>>
locks == <<registrar, grantor>>
vars == <<clocks, rates, tables, locks, challenge, session>>

User == [email : Address, subject : Subject \cup {None}, operator : BOOLEAN]
Phase == {"idle", "admitted", "checked", "verified", "spent", "judged", "granting"}
Verdict == {"none", "known", "new", "taken", "full", "grant", "revoke"}
SessionState ==
  [phase : Phase, email : Address \cup {None}, subject : Subject \cup {None},
   nonce : Nonce \cup {None}, swept : SUBSET Nonce, verdict : Verdict, user : Nat]

Idle == [phase |-> "idle", email |-> None, subject |-> None, nonce |-> None,
         swept |-> {}, verdict |-> "none", user |-> 0]

TypeOK ==
  /\ now \in 0 .. MaxTime /\ latest \in 0 .. MaxTime /\ backs \in 0 .. MaxBack
  /\ bucket \in [tokens : Int, at : 0 .. MaxTime]
  /\ worst \in Nat /\ admittedAt \in 0 .. MaxTime
  /\ users \in Seq(User)
  /\ nonces \subseteq Nonce
  /\ challenge \in [Nonce -> Nat] /\ uses \in [Nonce -> [timely : Nat, late : Nat]]
  /\ session \in [Session -> SessionState]
  /\ registrar \in Session \cup {None} /\ grantor \in Session \cup {None}

(* The absent row is a full bucket: the first INSERT leaves burst - 1.     *)
Init ==
  /\ now = 0 /\ latest = 0 /\ backs = 0
  /\ bucket = [tokens |-> Burst * Unit, at |-> 0]
  /\ worst = 0 /\ admittedAt = 0
  /\ users = <<>> /\ nonces = {}
  /\ challenge = [n \in Nonce |-> 0] /\ uses = [n \in Nonce |-> [timely |-> 0, late |-> 0]]
  /\ session = [s \in Session |-> Idle]
  /\ registrar = None /\ grantor = None

-----------------------------------------------------------------------------
(* Faulty variants of the operators below, for testing the properties.     *)

RejectedMovesClock == [bucket EXCEPT !.at = now] \* a rejection restarts the refill
RefilledUncapped ==                              \* without LEAST(burst, ...)
  bucket.tokens + (IF now > bucket.at THEN now - bucket.at ELSE 0) * Rate
EmailTakenExact(e) == \E i \in DOMAIN users : users[i].email = e
LockIgnored(holder) == TRUE
ExpiredEarly(n) == challenge[n] <= now + 1       \* swept before the expiry

-----------------------------------------------------------------------------
(* limit_auth_requests                                                     *)

Elapsed(t) == IF t > bucket.at THEN t - bucket.at ELSE 0

Refilled ==
  LET sum == bucket.tokens + Elapsed(now) * Rate
  IN  IF sum > Burst * Unit THEN Burst * Unit ELSE sum

Rejected == bucket

(* The atomic upsert; only an admission takes a token and moves the time.  *)
Attempt(s) ==
  /\ session[s].phase = "idle"
  /\ IF Refilled >= Unit
     THEN /\ bucket' = [tokens |-> Refilled - Unit, at |-> now]
          /\ session' = [session EXCEPT ![s].phase = "admitted"]
          /\ worst' = worst + Unit
          /\ admittedAt' = now
     ELSE bucket' = Rejected /\ UNCHANGED <<session, worst, admittedAt>>
  /\ UNCHANGED <<clocks, tables, locks, challenge>>

-----------------------------------------------------------------------------
(* Reads of the accounts                                                   *)

EmailTaken(e) == \E i \in DOMAIN users : Lower[users[i].email] = Lower[e]
KnownSubject(g) == \E i \in DOMAIN users : users[i].subject = g
Full == Len(users) >= Capacity
LockFree(holder) == holder = None
OtherOperator(u) == \E i \in DOMAIN users \ {u} : users[i].operator

Close(s) == session' = [session EXCEPT ![s] = Idle]

(* login: reads only.                                                      *)
PasswordLogin(s) ==
  /\ session[s].phase = "admitted"
  /\ Close(s)
  /\ UNCHANGED <<clocks, rates, tables, locks, challenge>>

(* register: the route looks for the exact address, without the lock.      *)
CheckRegistration(s, e) ==
  /\ session[s].phase = "admitted"
  /\ IF \E i \in DOMAIN users : users[i].email = e
     THEN Close(s)
     ELSE session' = [session EXCEPT ![s] = [@ EXCEPT !.phase = "checked", !.email = e]]
  /\ UNCHANGED <<clocks, rates, tables, locks, challenge>>

-----------------------------------------------------------------------------
(* Google sign-in                                                          *)

HostTime == {t \in 0 .. MaxTime + Skew : t - now \in -Skew .. Skew}

(* create_challenge: a fresh nonce, dated by the host.                     *)
IssueChallenge(s, n) ==
  /\ session[s].phase = "admitted" /\ challenge[n] = 0
  /\ \E t \in HostTime : challenge' = [challenge EXCEPT ![n] = t + Lifetime]
  /\ Close(s)
  /\ UNCHANGED <<clocks, rates, tables, locks>>

(* authenticate_google before its transaction: the challenge is judged by  *)
(* the host's clock, then the credential over the network.                 *)
Verify(s, n, g, e) ==
  /\ session[s].phase = "admitted" /\ challenge[n] # 0
  /\ \E t \in HostTime : t < challenge[n]
  /\ session' = [session EXCEPT ![s] =
       [@ EXCEPT !.phase = "verified", !.nonce = n, !.subject = g, !.email = e]]
  /\ UNCHANGED <<clocks, rates, tables, locks, challenge>>

Expired(n) == challenge[n] < now

(* An uncommitted insert or delete of the same key makes others wait.      *)
KeyFree(s, n) ==
  \A r \in Session \ {s} :
    session[r].phase \in {"spent", "judged"} => n # session[r].nonce /\ n \notin session[r].swept

(* The sweep of expired rows, the insert ON CONFLICT DO NOTHING, and the   *)
(* first look for the subject.  A spent challenge is a 401.                *)
Spend(s) ==
  LET n == session[s].nonce
      swept == {m \in nonces : Expired(m)}
  IN  /\ session[s].phase = "verified" /\ KeyFree(s, n)
      /\ IF n \in nonces \ swept
         THEN Close(s)
         ELSE session' = [session EXCEPT ![s] =
                [@ EXCEPT !.phase = "spent", !.swept = swept,
                          !.verdict = IF KnownSubject(session[s].subject) THEN "known" ELSE "none"]]
      /\ UNCHANGED <<clocks, rates, tables, locks, challenge>>

(* The commit of a Google session: sweep and challenge become durable.     *)
CommitNonce(s) ==
  LET n == session[s].nonce
  IN  /\ nonces' = (nonces \ session[s].swept) \cup {n}
      /\ uses' = IF latest <= challenge[n] THEN [uses EXCEPT ![n].timely = @ + 1]
                 ELSE [uses EXCEPT ![n].late = @ + 1]

SignIn(s) ==
  /\ session[s].phase = "spent" /\ session[s].verdict = "known"
  /\ CommitNonce(s)
  /\ Close(s)
  /\ UNCHANGED <<clocks, rates, users, locks, challenge>>

-----------------------------------------------------------------------------
(* Account creation, under lock_registration                               *)

Judgement(c) ==
  IF c.subject # None /\ KnownSubject(c.subject) THEN "known"
  ELSE IF EmailTaken(c.email) THEN "taken"
  ELSE IF Full THEN "full" ELSE "new"

Judge(s) ==
  /\ \/ session[s].phase = "checked"
     \/ session[s].phase = "spent" /\ session[s].verdict = "none"
  /\ LockFree(registrar)
  /\ registrar' = s
  /\ session' = [session EXCEPT ![s] = [@ EXCEPT !.phase = "judged", !.verdict = Judgement(session[s])]]
  /\ UNCHANGED <<clocks, rates, tables, grantor, challenge>>

(* A Google account stores the lower-case address; examples are created in *)
(* the same transaction.                                                   *)
NewUser(c) ==
  [email |-> IF c.subject = None THEN c.email ELSE Lower[c.email],
   subject |-> c.subject, operator |-> FALSE]

Finish(s) ==
  LET c == session[s]
      google == c.subject # None
  IN  /\ c.phase = "judged"
      /\ users' = IF c.verdict = "new" THEN Append(users, NewUser(c)) ELSE users
      /\ IF google /\ c.verdict # "full" THEN CommitNonce(s) ELSE UNCHANGED <<nonces, uses>>
      /\ registrar' = None
      /\ Close(s)
      /\ UNCHANGED <<clocks, rates, grantor, challenge>>

(* A refusal, a lock timeout, failed examples or a lost connection: the    *)
(* transaction rolls back and its locks are gone.                          *)
Abort(s) ==
  /\ session[s].phase \notin {"idle", "admitted"}
  /\ Close(s)
  /\ registrar' = IF registrar = s THEN None ELSE registrar
  /\ grantor' = IF grantor = s THEN None ELSE grantor
  /\ UNCHANGED <<clocks, rates, tables, challenge>>

-----------------------------------------------------------------------------
(* set_operator                                                            *)

BeginGrant(s, u, enabled) ==
  /\ session[s].phase = "idle" /\ LockFree(grantor)
  /\ enabled => ~OtherOperator(u)
  /\ grantor' = s
  /\ session' = [session EXCEPT ![s] =
       [@ EXCEPT !.phase = "granting", !.user = u,
                 !.verdict = IF enabled THEN "grant" ELSE "revoke"]]
  /\ UNCHANGED <<clocks, rates, tables, registrar, challenge>>

CommitGrant(s) ==
  /\ session[s].phase = "granting"
  /\ users' = [users EXCEPT ![session[s].user].operator = session[s].verdict = "grant"]
  /\ grantor' = None
  /\ Close(s)
  /\ UNCHANGED <<clocks, rates, nonces, uses, registrar, challenge>>

-----------------------------------------------------------------------------
Tick ==
  /\ now < MaxTime
  /\ now' = now + 1
  /\ latest' = IF now' > latest THEN now' ELSE latest
  /\ worst' = IF worst > Rate THEN worst - Rate ELSE 0
  /\ UNCHANGED <<backs, bucket, admittedAt, tables, locks, challenge, session>>

(* The clock is set back.                                                  *)
StepBack ==
  /\ now > 0 /\ backs < MaxBack
  /\ now' = now - 1
  /\ backs' = backs + 1
  /\ UNCHANGED <<latest, rates, tables, locks, challenge, session>>

Next ==
  \/ Tick \/ StepBack
  \/ \E s \in Session :
       \/ Attempt(s) \/ PasswordLogin(s) \/ Spend(s) \/ SignIn(s)
       \/ Judge(s) \/ Finish(s) \/ Abort(s) \/ CommitGrant(s)
       \/ \E e \in Address : CheckRegistration(s, e)
       \/ \E n \in Nonce : IssueChallenge(s, n)
       \/ \E n \in Nonce, g \in Subject, e \in Address : Verify(s, n, g, e)
       \/ \E u \in DOMAIN users, b \in BOOLEAN : BeginGrant(s, u, b)

Spec == Init /\ [][Next]_vars

-----------------------------------------------------------------------------
(* Properties                                                              *)

(* In no window of time, however it is placed, are more requests admitted  *)
(* than the burst plus what the window refills (app/auth/admission.py: one *)
(* bounded token bucket for all hosts), also when the clock is set back.   *)
AttemptsAreBounded == worst <= Burst * Unit

(* Rejected attempts cannot starve sign-in: once the clock has advanced by *)
(* the price of a request since the last admission, the next is admitted.  *)
PatienceIsAdmitted == (now - admittedAt) * Rate >= Unit => Refilled >= Unit

Distinct ==
  \A i, j \in DOMAIN users : i # j =>
    /\ Lower[users[i].email] # Lower[users[j].email]
    /\ users[i].subject # None => users[i].subject # users[j].subject

(* Whatever registrations and first sign-ins meet: no two accounts share   *)
(* an address in any spelling, or a Google subject, and there are never    *)
(* more accounts than the capacity.                                        *)
RegistrationsAreSerial == Distinct /\ Len(users) <= Capacity

(* The demo has at most one operator, whoever grants at the same time.     *)
OneOperator == Cardinality({i \in DOMAIN users : users[i].operator}) <= 1

(* Until the database's clock has passed its expiry, a challenge pays for  *)
(* one sign-in, of all that present it to any replica.                     *)
ChallengeSpentOnce == \A n \in Nonce : uses[n].timely <= 1

(* What app/auth/google.py says without that limit.  The challenge is      *)
(* judged before the network wait and by the host's clock, and the sweep   *)
(* by the database's, so a spent challenge can be forgotten before the     *)
(* last session that accepted it has looked.                               *)
ChallengeSingleUse == \A n \in Nonce : uses[n].timely + uses[n].late <= 1

=============================================================================
