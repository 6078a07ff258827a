----------------------- MODULE ExecutionHistory_proofs ------------------------
(***************************************************************************)
(* Proofs about ExecutionHistory, for any number of sessions, runtimes,    *)
(* capabilities, configurations and findings.  The inductive invariant     *)
(* says what a session may rely on for the locks it holds: an edit on the  *)
(* project it loaded, an armed session on its runtime, feedback on the     *)
(* verdicts it read.                                                       *)
(***************************************************************************)
EXTENDS ExecutionHistory, SequenceTheorems, TLAPS

USE HistoryAssumption

State == {"unborn", "alive", "deleted"}
Task == {"none"} \cup {TaskOf[p] : p \in Profile} \cup {OptionTask[o] : o \in Option}
Edits == {"pick", "configure", "prefs", "rename", "fetch", "legacy"}
Phase == {"idle", "locked", "armed", "rating", "rated"}
ProjectRow == [state : State, revision : Nat, option : Option \cup {None}, task : Task]
SelectionRow == [runtime : Runtime, option : Option \cup {None}]
RevisionRow == [selection : Nat, profile : Profile, config : Config \cup {Default},
                given : Sendable]
RunRow == [revision : Nat, verdict : [Finding -> Verdict], quality : Quality]
SessionState ==
  [phase : Phase, op : Edits \cup {"none", "create"}, runtime : Runtime \cup {None},
   config : Sendable, option : Option \cup {None}, base : Nat, run : Nat,
   finding : Finding \cup {None}, verdict : Verdict, quality : Quality]

TypeInv ==
  /\ project \in ProjectRow
  /\ selections \in Seq(SelectionRow) /\ revisions \in Seq(RevisionRow)
  /\ served \in Seq(Nat)
  /\ runs \in Seq(RunRow) /\ Len(runs) <= MaxRuns
  /\ runnable \in [Runtime -> BOOLEAN]
  /\ projectLock \in Session \cup {None}
  /\ runtimeLock \in [Runtime -> Session \cup {None}]
  /\ runLock \in [RunId -> Session \cup {None}]
  /\ session \in [Session -> SessionState]

-----------------------------------------------------------------------------
(* What a session may rely on.                                             *)

(* An edit or a fetch works on the project that it locked and loaded.      *)
Loaded(s) ==
  /\ projectLock = s /\ project.state = "alive" /\ session[s].base = project.revision
  /\ session[s].op = "pick" => session[s].runtime \in Runtime
  /\ session[s].op = "legacy" => session[s].option \in Option
  /\ session[s].op \in {"configure", "prefs", "rename", "fetch"} =>
       project.revision # 0 /\ session[s].runtime = CurrentRuntime

(* Nobody else sees a project that is being created.                       *)
Creating(s) ==
  /\ project.state = "unborn" /\ session[s].base = 0 /\ session[s].runtime \in Runtime
  /\ \A q \in Session : session[q].op = "create" => q = s

Armed(s) ==
  LET r == session[s].runtime
  IN  session[s].op # "legacy" /\ r \in Runtime /\ runtimeLock[r] = s /\ runnable[r]

Rating(s) ==
  /\ session[s].run \in DOMAIN runs /\ runLock[session[s].run] = s
  /\ session[s].finding \in Finding

(* The verdict on the run that the session is about to commit.             *)
Read(s) == [runs[session[s].run].verdict EXCEPT ![session[s].finding] = session[s].verdict]

SessionOK(s) ==
  /\ session[s].phase \in {"locked", "armed"} =>
       IF session[s].op = "create" THEN Creating(s) ELSE session[s].op \in Edits /\ Loaded(s)
  /\ session[s].phase = "armed" => Armed(s)
  /\ session[s].phase \in {"rating", "rated"} => Rating(s)
  /\ session[s].phase = "rated" => session[s].quality = QualityOf(Read(s))
  /\ session[s].op = "create" => session[s].phase \in {"locked", "armed"}

(* The tables: what is only true of a project that lives, and the named    *)
(* properties.                                                             *)
TablesOK ==
  /\ project.state # "alive" => project.revision = 0
  /\ project.revision = 0 => selections = <<>> /\ revisions = <<>>
  /\ project.revision # 0 => selections # <<>>
  /\ ProjectIsItsPick /\ ConfigIsChosen /\ QualityIsRecomputed

IInv == TypeInv /\ TablesOK /\ \A s \in Session : SessionOK(s)

-----------------------------------------------------------------------------

LEMMA IdleType == Idle \in SessionState
BY DEF Idle, SessionState, Sendable, Phase, Verdict, Quality

LEMMA InitInvariant == Init => IInv
<1> SUFFICES ASSUME Init PROVE IInv
  OBVIOUS
<1>1. TypeInv
  BY IdleType DEF Init, TypeInv, ProjectRow, State, Task
<1>2. TablesOK
  BY DEF Init, TablesOK, ProjectIsItsPick, ConfigIsChosen, QualityIsRecomputed
<1>3. ASSUME NEW s \in Session PROVE SessionOK(s)
  BY DEF Init, SessionOK, Idle
<1> QED BY <1>1, <1>2, <1>3 DEF IInv

(* The gate of a set of verdicts.                                          *)
LEMMA QualityType == \A v : QualityOf(v) \in Quality
BY DEF QualityOf, Quality

LEMMA EndType ==
  ASSUME TypeInv, NEW s \in Session, EndSession(s)
  PROVE  /\ session' \in [Session -> SessionState]
         /\ projectLock' \in Session \cup {None}
         /\ runtimeLock' \in [Runtime -> Session \cup {None}]
         /\ runLock' \in [RunId -> Session \cup {None}]
         /\ session'[s] = Idle
         /\ \A q \in Session \ {s} :
              /\ session'[q] = session[q]
              /\ projectLock = q => projectLock' = q
              /\ \A r \in Runtime : runtimeLock[r] = q => runtimeLock'[r] = q
              /\ \A i \in RunId : runLock[i] = q => runLock'[i] = q
BY IdleType DEF EndSession, TypeInv

(* What a session takes over when it locks the project.                    *)
LEMMA LockType ==
  ASSUME TypeInv, NEW s \in Session, NEW c \in SessionState, LockProject(s, c)
  PROVE  /\ TypeInv'
         /\ session'[s] = [c EXCEPT !.phase = "locked", !.base = project.revision]
         /\ session[s] = Idle /\ project.state = "alive" /\ projectLock = None /\ projectLock' = s
         /\ \A q \in Session \ {s} : session'[q] = session[q]
<1> DEFINE d == [c EXCEPT !.phase = "locked", !.base = project.revision]
<1>1. session' = [session EXCEPT ![s] = d]
  BY DEF LockProject
<1>2. d \in SessionState
  BY DEF SessionState, Phase, TypeInv, ProjectRow
<1>3. session' \in [Session -> SessionState]
  BY <1>1, <1>2 DEF TypeInv
<1> QED BY <1>1, <1>3 DEF LockProject, TypeInv, history

-----------------------------------------------------------------------------
(* The frame of a session that takes no step.                              *)

(* What an edit, an armed session and feedback need of another's step.     *)
EditKept(q) ==
  session[q].phase \in {"locked", "armed"} =>
    /\ UNCHANGED history
    /\ projectLock = q => projectLock' = q
    /\ session[q].op = "create" => \A p \in Session : session'[p].op = "create" => p = q

RuntimeKept(q) ==
  session[q].phase = "armed" =>
    \A r \in Runtime : runtimeLock[r] = q => runtimeLock'[r] = q /\ runnable'[r] = runnable[r]

VerdictsKept(q) ==
  session[q].phase \in {"rating", "rated"} =>
    \A i \in DOMAIN runs : runLock[i] = q =>
      /\ i \in DOMAIN runs' /\ runs'[i].verdict = runs[i].verdict /\ runLock'[i] = q

LEMMA Kept ==
  ASSUME NEW q \in Session, SessionOK(q), session'[q] = session[q],
         EditKept(q), RuntimeKept(q), VerdictsKept(q)
  PROVE  SessionOK(q)'
<1>1. session[q].phase \in {"locked", "armed"} /\ session[q].op = "create" => Creating(q)'
  BY DEF SessionOK, EditKept, Creating, history
<1>2. session[q].phase \in {"locked", "armed"} /\ session[q].op # "create" => Loaded(q)'
  BY DEF SessionOK, EditKept, Loaded, CurrentRuntime, history
<1>3. session[q].phase = "armed" => Armed(q)'
  BY DEF SessionOK, RuntimeKept, Armed
<1>4. session[q].phase \in {"rating", "rated"} =>
        /\ Rating(q)' /\ runs'[session[q].run].verdict = runs[session[q].run].verdict
  BY DEF SessionOK, VerdictsKept, Rating
<1>5. session[q].phase = "rated" => session[q].quality = QualityOf(Read(q)')
  BY <1>4 DEF SessionOK, Read
<1> QED BY <1>1, <1>2, <1>3, <1>4, <1>5 DEF SessionOK

(* Two edits never work at the same time, nor an edit and a creation.      *)
LEMMA Alone ==
  ASSUME IInv, NEW s \in Session, NEW q \in Session, s # q,
         session[s].phase \in {"locked", "armed"}
  PROVE  session[q].phase \notin {"locked", "armed"}
BY DEF IInv, SessionOK, Creating, Loaded

(* A step that ends the session of s, whether or not it commits.           *)
Releases(s) ==
  /\ EndSession(s) /\ runnable' = runnable
  /\ session[s].phase \in {"locked", "armed"} \/ history' = history
  /\ runs' = runs \/ (session[s].phase = "rated" /\ CommitFeedback(s))

LEMMA Ends ==
  ASSUME IInv, NEW s \in Session, Releases(s), NEW x \in Session
  PROVE  SessionOK(x)'
<1> USE DEF Releases
<1>0. TypeInv /\ (\A q \in Session : SessionOK(q)) /\ None \notin Session
  BY DEF IInv
<1>1. CASE x = s
  BY <1>0, <1>1, EndType DEF SessionOK, Idle
<1>2. ASSUME NEW q \in Session, q # s PROVE SessionOK(q)'
  <2>1. /\ session'[q] = session[q] /\ session'[s] = Idle
        /\ projectLock = q => projectLock' = q
        /\ \A r \in Runtime : runtimeLock[r] = q => runtimeLock'[r] = q
        /\ \A i \in RunId : runLock[i] = q => runLock'[i] = q
        /\ \A p \in Session \ {s} : session'[p] = session[p]
    BY <1>0, <1>2, EndType
  <2>2. EditKept(q)
    <3>1. session[q].phase \in {"locked", "armed"} => UNCHANGED history
      BY <1>2, Alone
    <3>2. session[q].phase \in {"locked", "armed"} /\ session[q].op = "create" => Creating(q)
      BY <1>0 DEF SessionOK
    <3> QED BY <2>1, <3>1, <3>2 DEF EditKept, Creating, Idle
  <2>3. RuntimeKept(q)
    BY <2>1 DEF RuntimeKept
  <2>4. VerdictsKept(q)
    <3>0. DOMAIN runs \subseteq RunId
      BY <1>0 DEF TypeInv, RunId
    <3>1. CASE UNCHANGED runs
      BY <2>1, <3>0, <3>1 DEF VerdictsKept
    <3>2. CASE session[s].phase = "rated" /\ CommitFeedback(s)
      <4> DEFINE k == session[s].run
                 e == [runs[k] EXCEPT !.verdict[session[s].finding] = session[s].verdict,
                                      !.quality = session[s].quality]
      <4>1. k \in DOMAIN runs /\ runLock[k] = s
        BY <1>0, <3>2 DEF SessionOK, Rating
      <4>2. DOMAIN runs' = DOMAIN runs /\ \A i \in DOMAIN runs \ {k} : runs'[i] = runs[i]
        BY <1>0, <3>2 DEF CommitFeedback, TypeInv
      <4> QED BY <1>2, <2>1, <3>0, <4>1, <4>2 DEF VerdictsKept
    <3> QED BY <3>1, <3>2
  <2> QED BY <1>0, <2>1, <2>2, <2>3, <2>4, Kept
<1> QED BY <1>1, <1>2

-----------------------------------------------------------------------------
(* The steps, one lemma for every kind.                                    *)

LEMMA LockStep ==
  ASSUME IInv, NEW s \in Session, NEW c \in SessionState, LockProject(s, c),
         c.op \in Edits,
         c.op = "pick" => c.runtime \in Runtime,
         c.op = "legacy" => c.option \in Option,
         c.op \in {"configure", "prefs", "rename", "fetch"} =>
           project.revision # 0 /\ c.runtime = CurrentRuntime
  PROVE  IInv'
<1>0. TypeInv /\ TablesOK /\ (\A q \in Session : SessionOK(q)) /\ None \notin Session
  BY DEF IInv
<1> DEFINE d == [c EXCEPT !.phase = "locked", !.base = project.revision]
<1>1. /\ TypeInv' /\ session'[s] = d /\ session[s] = Idle /\ project.state = "alive"
      /\ projectLock = None /\ projectLock' = s
      /\ \A q \in Session \ {s} : session'[q] = session[q]
  BY <1>0, LockType
<1>2. UNCHANGED <<history, runnable, served, runs, runtimeLock, runLock>>
  BY DEF LockProject
<1>3. TablesOK'
  BY <1>0, <1>2 DEF TablesOK, ProjectIsItsPick, ConfigIsChosen, QualityIsRecomputed, history
<1>4. SessionOK(s)'
  <2>1. /\ d.phase = "locked" /\ d.op = c.op /\ d.base = project.revision
        /\ d.runtime = c.runtime /\ d.option = c.option
    BY DEF SessionState
  <2>2. Loaded(s)'
    BY <1>1, <1>2, <2>1 DEF Loaded, CurrentRuntime, history
  <2> QED BY <1>1, <2>1, <2>2 DEF SessionOK, Edits
<1>5. ASSUME NEW q \in Session, q # s PROVE SessionOK(q)'
  <2>1. session'[q] = session[q] /\ SessionOK(q)
    BY <1>0, <1>1, <1>5
  <2>2. session[q].phase \in {"locked", "armed"} => FALSE
    BY <1>0, <1>1, <2>1 DEF SessionOK, Loaded, Creating
  <2>3. EditKept(q) /\ RuntimeKept(q) /\ VerdictsKept(q)
    BY <1>2, <2>2 DEF EditKept, RuntimeKept, VerdictsKept
  <2> QED BY <2>1, <2>3, Kept
<1> QED BY <1>1, <1>3, <1>4, <1>5 DEF IInv

(* The commit of an edit or a creation.                                    *)
LEMMA SaveStep ==
  ASSUME IInv, NEW s \in Session, Save(s)
  PROVE  IInv'
<1> DEFINE c == session[s]
           picks == c.op \in {"create", "pick"}
           profile == ProfileOf[c.runtime]
           selection == IF picks THEN Len(selections) + 1 ELSE revisions[c.base].selection
           pick == [runtime |-> c.runtime, option |-> project.option]
           row == [selection |-> selection, profile |-> profile, config |-> Effective(c),
                   given |-> c.config]
           n == Len(revisions) + 1
<1>0. /\ TypeInv /\ TablesOK /\ (\A q \in Session : SessionOK(q))
      /\ c \in SessionState /\ c.phase = "armed" /\ c.op # "fetch" /\ Armed(s)
      /\ project \in ProjectRow /\ selections \in Seq(SelectionRow)
      /\ revisions \in Seq(RevisionRow)
  BY DEF IInv, Save, SessionOK, TypeInv
<1>1. ASSUME NEW q \in Session PROVE SessionOK(q)'
  <2>1. Releases(s)
    BY <1>0 DEF Save, Releases
  <2> QED BY <2>1, Ends
<1>2. c.base = project.revision /\ project.state \in {"unborn", "alive"}
  BY <1>0 DEF SessionOK, Creating, Loaded, TablesOK
<1>3. project.revision # 0 => project.revision = Len(revisions) /\ Len(revisions) >= 1
  BY <1>0 DEF TablesOK, ProjectIsItsPick, ProjectRow
<1>4. project.revision = 0 => revisions = <<>> /\ selections = <<>>
  BY <1>0 DEF TablesOK
<1>5. project.revision # 0 => revisions[project.revision].selection = Len(selections)
  BY <1>0 DEF TablesOK, ProjectIsItsPick
<1>6. c.runtime \in Runtime /\ profile \in Profile
  BY <1>0 DEF Armed
<1>7. Effective(c) \in Config \cup {Default}
  <2>1. c.base # 0 => revisions[c.base] \in RevisionRow
    BY <1>0, <1>2, <1>3
  <2> QED BY <1>0, <2>1 DEF Effective, Carries, SessionState, Sendable, RevisionRow
<1>8. ~picks => project.revision # 0
  BY <1>0 DEF SessionOK, Loaded, Armed, Edits
<1>9. selection \in Nat /\ pick \in SelectionRow /\ row \in RevisionRow
  <2>1. selection \in Nat
    BY <1>0, <1>2, <1>5, <1>8
  <2>2. pick \in SelectionRow
    BY <1>0, <1>6 DEF SelectionRow, ProjectRow
  <2>3. c.config \in Sendable
    BY <1>0 DEF SessionState
  <2> HIDE DEF c, profile, selection
  <2>4. row \in RevisionRow
    BY <1>6, <1>7, <2>1, <2>3 DEF RevisionRow
  <2> QED BY <2>1, <2>2, <2>4
<1>10. CASE UNCHANGED history
  <2>1. TypeInv'
    BY <1>0, <1>10, EndType DEF Save, TypeInv, history
  <2>2. TablesOK'
    BY <1>0, <1>10 DEF Save, TablesOK, ProjectIsItsPick, ConfigIsChosen, QualityIsRecomputed, history
  <2> QED BY <1>1, <2>1, <2>2 DEF IInv
<1>11. CASE ~UNCHANGED history
  <2>1. /\ selections' = IF picks THEN Append(selections, pick) ELSE selections
        /\ revisions' = Append(revisions, row)
        /\ project' = [state |-> "alive", revision |-> n, option |-> None, task |-> TaskOf[profile]]
        /\ UNCHANGED <<runnable, served, runs>>
    BY <1>11 DEF Save
  <2>2. /\ revisions' \in Seq(RevisionRow) /\ Len(revisions') = n /\ revisions'[n] = row
        /\ \A i \in 1 .. Len(revisions) : revisions'[i] = revisions[i]
        /\ DOMAIN revisions' = 1 .. n /\ DOMAIN revisions = 1 .. Len(revisions)
        /\ Len(revisions) \in Nat
    <3> HIDE DEF row
    <3> QED BY <1>0, <1>9, <2>1, AppendProperties
  <2>3. /\ selections' \in Seq(SelectionRow) /\ Len(selections') = selection /\ selections' # <<>>
    <3>1. CASE picks
      <4>1. selection = Len(selections) + 1 /\ selections' = Append(selections, pick)
        BY <2>1, <3>1
      <4> HIDE DEF pick, selection
      <4> QED BY <1>0, <1>9, <4>1, AppendProperties
    <3>2. CASE ~picks
      BY <1>0, <1>2, <1>5, <1>8, <2>1, <3>2 DEF TablesOK
    <3> QED BY <3>1, <3>2
  <2>4. TypeInv'
    <3>1. project' \in ProjectRow
      BY <1>6, <2>1, <2>2 DEF ProjectRow, State, Task
    <3>2. TypeInv => /\ runs' \in Seq(RunRow) /\ Len(runs') <= MaxRuns /\ served' \in Seq(Nat)
                     /\ runnable' \in [Runtime -> BOOLEAN]
      BY <2>1 DEF TypeInv
    <3> QED BY <1>0, <2>2, <2>3, <3>1, <3>2, EndType DEF Save, TypeInv
  <2>5. ProjectIsItsPick'
    <3>1. row.selection = selection /\ row.profile = profile
      OBVIOUS
    <3>2. project'.revision = n /\ project'.option = None /\ project'.task = TaskOf[profile]
      BY <2>1
    <3> HIDE DEF row, selection, profile, n
    <3>3. revisions'[project'.revision].selection = Len(selections')
          /\ TaskOf[revisions'[project'.revision].profile] = TaskOf[profile]
          /\ project'.revision = Len(revisions')
      BY <2>2, <2>3, <3>1, <3>2
    <3>4. project'.revision # 0
      BY <2>2, <3>2 DEF n
    <3> QED BY <3>2, <3>3, <3>4 DEF ProjectIsItsPick
  <2>6. ConfigIsChosen'
    <3>1. /\ row.config = Effective(c) /\ row.given = c.config /\ row.profile = profile
      OBVIOUS
    <3>2. \/ row.config = row.given
          \/ /\ row.given = None
             /\ row.config = IF n > 1 /\ revisions[n - 1].profile = row.profile
                             THEN revisions[n - 1].config ELSE Default
      <4>1. c.base = n - 1 /\ n \in Nat /\ (n > 1 <=> c.base # 0)
        BY <1>0, <1>2, <1>3, <1>4
      <4> QED BY <3>1, <4>1 DEF Effective, Carries
    <3> HIDE DEF row
    <3>3. ASSUME NEW i \in 1 .. n
          PROVE  \/ revisions'[i].config = revisions'[i].given
                 \/ /\ revisions'[i].given = None
                    /\ revisions'[i].config =
                         IF i > 1 /\ revisions'[i - 1].profile = revisions'[i].profile
                         THEN revisions'[i - 1].config ELSE Default
      <4>1. i > 1 => i - 1 \in 1 .. Len(revisions)
        BY <2>2
      <4>2. CASE i = n
        BY <2>2, <3>2, <4>1, <4>2
      <4>3. CASE i # n
        <5>1. i \in 1 .. Len(revisions)
          BY <2>2, <4>3
        <5> QED BY <1>0, <2>2, <4>1, <5>1 DEF TablesOK, ConfigIsChosen
      <4> QED BY <4>2, <4>3
    <3> QED BY <2>2, <3>3 DEF ConfigIsChosen
  <2>7. TablesOK'
    <3>1. QualityIsRecomputed'
      BY <1>0, <2>1 DEF TablesOK, QualityIsRecomputed
    <3>2. project'.state = "alive" /\ project'.revision # 0
      BY <2>1, <2>2
    <3> QED BY <2>3, <2>5, <2>6, <3>1, <3>2 DEF TablesOK
  <2> QED BY <1>1, <2>4, <2>7 DEF IInv
<1> QED BY <1>10, <1>11

(* Only the types of the tables matter to what a session may rely on.      *)
LEMMA TablesKept ==
  ASSUME TablesOK, UNCHANGED <<history, runs>>
  PROVE  TablesOK'
BY DEF TablesOK, ProjectIsItsPick, ConfigIsChosen, QualityIsRecomputed, history

(* The rollbacks, and the fetch.                                           *)
LEMMA AbortStep ==
  ASSUME IInv, NEW s \in Session, EndSession(s), UNCHANGED <<history, runnable, runs>>,
         served' \in Seq(Nat)
  PROVE  IInv'
<1>1. ASSUME NEW q \in Session PROVE SessionOK(q)'
  <2>1. Releases(s)
    BY DEF Releases
  <2> QED BY <2>1, Ends
<1>2. TypeInv'
  BY EndType DEF IInv, TypeInv, history
<1> QED BY <1>1, <1>2, TablesKept DEF IInv

LEMMA ServeStep ==
  ASSUME IInv, NEW s \in Session, Serve(s)
  PROVE  IInv'
<1>1. session[s].base \in Nat
  BY DEF IInv, TypeInv, SessionState
<1>2. served' \in Seq(Nat)
  BY <1>1 DEF Serve, IInv, TypeInv
<1> QED BY <1>2, AbortStep DEF Serve

(* The commit of a legacy edit.                                            *)
LEMMA SaveLegacyStep ==
  ASSUME IInv, NEW s \in Session, SaveLegacy(s)
  PROVE  IInv'
<1> DEFINE c == session[s]
<1>0. /\ TypeInv /\ TablesOK /\ c.phase = "locked" /\ c.op = "legacy" /\ SessionOK(s)
  BY DEF IInv, SaveLegacy
<1>1. project.state = "alive" /\ c.base = project.revision /\ c.option \in Option
  BY <1>0 DEF SessionOK, Loaded
<1>2. ASSUME NEW q \in Session PROVE SessionOK(q)'
  <2>1. Releases(s)
    BY <1>0 DEF SaveLegacy, Releases
  <2> QED BY <2>1, Ends
<1>3. CASE UNCHANGED project
  <2>1. UNCHANGED <<history, runs>>
    BY <1>3 DEF SaveLegacy, history
  <2>2. TypeInv'
    BY <1>0, <1>3, EndType DEF SaveLegacy, TypeInv
  <2> QED BY <1>0, <1>2, <2>1, <2>2, TablesKept DEF IInv
<1>4. CASE ~UNCHANGED project
  <2>1. /\ c.base = 0 /\ UNCHANGED <<selections, revisions, runs>>
        /\ project' = [project EXCEPT !.option = c.option, !.task = OptionTask[c.option]]
    BY <1>4 DEF SaveLegacy, LegacyOpen
  <2>2. /\ project'.state = "alive" /\ project'.revision = 0 /\ project'.option = c.option
        /\ project'.task = OptionTask[c.option] /\ project' \in ProjectRow
    BY <1>0, <1>1, <2>1 DEF TypeInv, ProjectRow, Task
  <2>3. TypeInv'
    BY <1>0, <2>2, EndType DEF SaveLegacy, TypeInv
  <2>4. c.option # None
    BY <1>1
  <2>5. TablesOK'
    BY <1>0, <1>1, <2>1, <2>2, <2>4
       DEF TablesOK, ProjectIsItsPick, ConfigIsChosen, QualityIsRecomputed
  <2> QED BY <1>2, <2>3, <2>5 DEF IInv
<1> QED BY <1>3, <1>4

LEMMA CreateLegacyStep ==
  ASSUME IInv, NEW o \in Option, CreateLegacy(o)
  PROVE  IInv'
<1>0. TypeInv /\ TablesOK /\ (\A q \in Session : SessionOK(q)) /\ o # None
  BY DEF IInv
<1>1. /\ project'.state = "alive" /\ project'.revision = 0 /\ project'.option = o
      /\ project'.task = OptionTask[o] /\ project' \in ProjectRow
  BY DEF CreateLegacy, ProjectRow, State, Task
<1>2. TypeInv'
  BY <1>0, <1>1 DEF CreateLegacy, TypeInv, locks
<1>3. TablesOK'
  BY <1>0, <1>1 DEF CreateLegacy, TablesOK, ProjectIsItsPick, ConfigIsChosen, QualityIsRecomputed
<1>4. ASSUME NEW q \in Session PROVE SessionOK(q)'
  <2>1. session[q].phase \notin {"locked", "armed"}
    BY <1>0 DEF CreateLegacy, SessionOK, Loaded
  <2>2. EditKept(q) /\ RuntimeKept(q) /\ VerdictsKept(q) /\ session'[q] = session[q]
    BY <2>1 DEF CreateLegacy, EditKept, RuntimeKept, VerdictsKept, locks
  <2> QED BY <1>0, <2>2, Kept
<1> QED BY <1>2, <1>3, <1>4 DEF IInv

LEMMA DeleteStep ==
  ASSUME IInv, DeleteProject
  PROVE  IInv'
<1>0. TypeInv /\ TablesOK /\ (\A q \in Session : SessionOK(q)) /\ None \notin Session
  BY DEF IInv
<1>1. /\ project'.state = "deleted" /\ project'.revision = 0 /\ project' \in ProjectRow
  BY <1>0 DEF DeleteProject, TypeInv, ProjectRow, State
<1>2. TypeInv'
  BY <1>0, <1>1 DEF DeleteProject, TypeInv, locks
<1>3. TablesOK'
  BY <1>1 DEF DeleteProject, TablesOK, ProjectIsItsPick, ConfigIsChosen, QualityIsRecomputed
<1>4. ASSUME NEW q \in Session PROVE SessionOK(q)'
  <2>1. session[q].phase \notin {"locked", "armed"}
    BY <1>0 DEF DeleteProject, SessionOK, Loaded, Creating
  <2>2. session[q].phase \notin {"rating", "rated"}
    <3>1. 0 \notin DOMAIN runs
      BY <1>0 DEF TypeInv
    <3> QED BY <1>0, <3>1 DEF DeleteProject, SessionOK, Rating
  <2>3. EditKept(q) /\ RuntimeKept(q) /\ VerdictsKept(q) /\ session'[q] = session[q]
    BY <2>1, <2>2 DEF DeleteProject, EditKept, RuntimeKept, VerdictsKept
  <2> QED BY <1>0, <2>3, Kept
<1> QED BY <1>2, <1>3, <1>4 DEF IInv

LEMMA SwitchStep ==
  ASSUME IInv, NEW r \in Runtime, SwitchRuntime(r)
  PROVE  IInv'
<1>0. TypeInv /\ TablesOK /\ (\A q \in Session : SessionOK(q)) /\ None \notin Session
  BY DEF IInv
<1>1. TypeInv' /\ TablesOK'
  BY <1>0, TablesKept DEF SwitchRuntime, TypeInv, history, locks
<1>2. ASSUME NEW q \in Session PROVE SessionOK(q)'
  <2>1. \A x \in Runtime : runtimeLock[x] = q => runnable'[x] = runnable[x]
    BY <1>0 DEF SwitchRuntime, TypeInv
  <2>2. session[q].op = "create" => Creating(q)
    BY <1>0 DEF SessionOK
  <2>3. EditKept(q) /\ RuntimeKept(q) /\ VerdictsKept(q) /\ session'[q] = session[q]
    BY <2>1, <2>2 DEF SwitchRuntime, EditKept, RuntimeKept, VerdictsKept, Creating, locks
  <2> QED BY <1>0, <2>3, Kept
<1> QED BY <1>1, <1>2 DEF IInv

(* A session takes the row of its runtime.                                 *)
LEMMA RequireStep ==
  ASSUME IInv, NEW s \in Session, RequireRuntime(s)
  PROVE  IInv'
<1> DEFINE r == session[s].runtime
           d == [session[s] EXCEPT !.phase = "armed"]
<1>0. /\ TypeInv /\ TablesOK /\ (\A q \in Session : SessionOK(q)) /\ None \notin Session
      /\ session[s] \in SessionState /\ session[s].phase = "locked" /\ session[s].op # "legacy"
  BY DEF IInv, TypeInv, RequireRuntime
<1>1. CASE EndSession(s)
  BY <1>0, <1>1, AbortStep DEF RequireRuntime, TypeInv
<1>2. CASE ~EndSession(s)
  <2>1. /\ runnable[r] /\ runtimeLock[r] = None /\ runtimeLock' = [runtimeLock EXCEPT ![r] = s]
        /\ session' = [session EXCEPT ![s] = d]
        /\ UNCHANGED <<history, runnable, served, runs, projectLock, runLock>>
    BY <1>2 DEF RequireRuntime, RuntimeLocked
  <2>2. r \in Runtime
    <3>1. CASE session[s].op = "create"
      BY <1>0, <3>1 DEF SessionOK, Creating
    <3>2. CASE session[s].op = "pick"
      BY <1>0, <3>2 DEF SessionOK, Loaded
    <3>3. CASE session[s].op \notin {"create", "pick"}
      <4>1. project.revision # 0 /\ r = CurrentRuntime
        BY <1>0, <3>3 DEF SessionOK, Loaded, Edits
      <4>2. /\ revisions[project.revision].selection = Len(selections) /\ selections # <<>>
        BY <1>0, <4>1 DEF TablesOK, ProjectIsItsPick
      <4>3. selections[Len(selections)] \in SelectionRow
        BY <1>0, <4>2 DEF TypeInv
      <4>4. r = selections[Len(selections)].runtime
        BY <4>1, <4>2 DEF CurrentRuntime
      <4>5. r \in Runtime \cup {None}
        BY <1>0 DEF SessionState
      <4> QED BY <4>3, <4>4 DEF SelectionRow
    <3> QED BY <3>1, <3>2, <3>3
  <2>3. d \in SessionState /\ d.phase = "armed" /\ d.op = session[s].op /\ d.base = session[s].base
        /\ d.runtime = r /\ d.option = session[s].option
    BY <1>0 DEF SessionState, Phase
  <2>4. TypeInv'
    <3> HIDE DEF d, r
    <3> QED BY <1>0, <2>1, <2>2, <2>3 DEF TypeInv, history
  <2>5. session'[s] = d /\ \A q \in Session \ {s} : session'[q] = session[q]
    BY <1>0, <2>1 DEF TypeInv
  <2>6. SessionOK(s)'
    <3>1. Armed(s)'
      <4>1. runtimeLock'[r] = s /\ runnable'[r]
        BY <1>0, <2>1, <2>2 DEF TypeInv
      <4> QED BY <1>0, <2>2, <2>3, <2>5, <4>1 DEF Armed
    <3>2. session[s].op = "create" => Creating(s)'
      BY <1>0, <2>1, <2>3, <2>5 DEF SessionOK, Creating, history
    <3>3. session[s].op # "create" => session[s].op \in Edits /\ Loaded(s)'
      BY <1>0, <2>1, <2>3, <2>5 DEF SessionOK, Loaded, CurrentRuntime, history
    <3> HIDE DEF d
    <3> QED BY <2>3, <2>5, <3>1, <3>2, <3>3 DEF SessionOK
  <2>7. ASSUME NEW q \in Session, q # s PROVE SessionOK(q)'
    <3>1. session[q].phase \notin {"locked", "armed"}
      BY <1>0, <2>7, Alone
    <3>2. EditKept(q) /\ RuntimeKept(q) /\ VerdictsKept(q)
      BY <2>1, <3>1 DEF EditKept, RuntimeKept, VerdictsKept
    <3> QED BY <1>0, <2>5, <2>7, <3>2, Kept
  <2> QED BY <1>0, <2>1, <2>4, <2>6, <2>7, TablesKept DEF IInv
<1> QED BY <1>1, <1>2

LEMMA BeginCreateStep ==
  ASSUME IInv, NEW s \in Session, NEW r \in Runtime, NEW k \in Config \cup {None},
         BeginCreate(s, r, k)
  PROVE  IInv'
<1> DEFINE d == [Idle EXCEPT !.phase = "locked", !.op = "create", !.runtime = r, !.config = k]
<1>0. TypeInv /\ TablesOK /\ (\A q \in Session : SessionOK(q)) /\ None \notin Session
  BY DEF IInv
<1>1. /\ session' = [session EXCEPT ![s] = d] /\ session[s] = Idle /\ project.state = "unborn"
      /\ \A q \in Session : session[q].op # "create"
      /\ UNCHANGED <<history, runnable, served, runs, projectLock, runtimeLock, runLock>>
  BY DEF BeginCreate, locks
<1>2. /\ d \in SessionState /\ d.phase = "locked" /\ d.op = "create" /\ d.runtime = r
      /\ d.base = 0
  BY DEF Idle, SessionState, Sendable, Phase, Verdict, Quality
<1> HIDE DEF d
<1>3. TypeInv'
  BY <1>0, <1>1, <1>2 DEF TypeInv, history
<1>4. session'[s] = d /\ \A q \in Session \ {s} : session'[q] = session[q]
  BY <1>0, <1>1 DEF TypeInv
<1>5. SessionOK(s)'
  <2>1. Creating(s)'
    BY <1>1, <1>2, <1>4 DEF Creating, history
  <2> QED BY <1>2, <1>4, <2>1 DEF SessionOK
<1>6. ASSUME NEW q \in Session, q # s PROVE SessionOK(q)'
  <2>1. session[q].phase \notin {"locked", "armed"}
    BY <1>0, <1>1 DEF SessionOK, Loaded
  <2>2. EditKept(q) /\ RuntimeKept(q) /\ VerdictsKept(q)
    BY <1>1, <2>1 DEF EditKept, RuntimeKept, VerdictsKept
  <2> QED BY <1>0, <1>4, <1>6, <2>2, Kept
<1> QED BY <1>0, <1>1, <1>3, <1>5, <1>6, TablesKept DEF IInv

(* The edits and the fetch that lock a project.                            *)
LEMMA BeginStep ==
  ASSUME IInv, NEW s \in Session,
         \/ BeginFetch(s)
         \/ \E o \in Option : BeginLegacy(s, o)
         \/ \E r \in Runtime, k \in Sendable : BeginPick(s, r, k)
         \/ \E op \in {"configure", "prefs", "rename"}, k \in Sendable : BeginEdit(s, op, k)
  PROVE  IInv'
<1>0. TypeInv /\ TablesOK
  BY DEF IInv
<1>1. project.revision # 0 => CurrentRuntime \in Runtime
  <2>1. project.revision # 0 =>
          /\ project.state = "alive" /\ selections # <<>>
          /\ revisions[project.revision].selection = Len(selections)
    BY <1>0 DEF TablesOK, ProjectIsItsPick
  <2>2. selections # <<>> => selections[Len(selections)] \in SelectionRow
    BY <1>0 DEF TypeInv
  <2> QED BY <2>1, <2>2 DEF CurrentRuntime, SelectionRow
<1>2. CASE BeginFetch(s)
  <2> DEFINE c == [Idle EXCEPT !.op = "fetch", !.runtime = CurrentRuntime]
  <2>1. project.revision # 0 /\ LockProject(s, c)
    BY <1>2 DEF BeginFetch
  <2>2. c \in SessionState /\ c.op = "fetch" /\ c.runtime = CurrentRuntime
    BY <1>1, <2>1 DEF Idle, SessionState, Sendable, Phase, Verdict, Quality, Edits
  <2> HIDE DEF c
  <2> QED BY <2>1, <2>2, LockStep DEF Edits
<1>3. ASSUME NEW o \in Option, BeginLegacy(s, o) PROVE IInv'
  <2> DEFINE c == [Idle EXCEPT !.op = "legacy", !.option = o]
  <2>1. LockProject(s, c)
    BY <1>3 DEF BeginLegacy
  <2>2. c \in SessionState /\ c.op = "legacy" /\ c.option = o
    BY DEF Idle, SessionState, Sendable, Phase, Verdict, Quality, Edits
  <2> HIDE DEF c
  <2> QED BY <2>1, <2>2, LockStep DEF Edits
<1>4. ASSUME NEW r \in Runtime, NEW k \in Sendable, BeginPick(s, r, k) PROVE IInv'
  <2> DEFINE c == [Idle EXCEPT !.op = "pick", !.runtime = r, !.config = k]
  <2>1. LockProject(s, c)
    BY <1>4 DEF BeginPick
  <2>2. c \in SessionState /\ c.op = "pick" /\ c.runtime = r
    BY DEF Idle, SessionState, Sendable, Phase, Verdict, Quality, Edits
  <2> HIDE DEF c
  <2> QED BY <2>1, <2>2, LockStep DEF Edits
<1>5. ASSUME NEW op \in {"configure", "prefs", "rename"}, NEW k \in Sendable,
             BeginEdit(s, op, k)
      PROVE  IInv'
  <2> DEFINE c == [Idle EXCEPT !.op = op, !.runtime = CurrentRuntime, !.config = k]
  <2>1. project.revision # 0 /\ LockProject(s, c)
    BY <1>5 DEF BeginEdit
  <2>2. c \in SessionState /\ c.op = op /\ c.runtime = CurrentRuntime
    BY <1>1, <2>1 DEF Idle, SessionState, Sendable, Phase, Verdict, Quality, Edits
  <2> HIDE DEF c
  <2> QED BY <2>1, <2>2, LockStep DEF Edits
<1> QED BY <1>2, <1>3, <1>4, <1>5

-----------------------------------------------------------------------------
(* Runs and feedback.                                                      *)

LEMMA IngestStep ==
  ASSUME IInv, NEW rev \in Nat, IngestRun(rev)
  PROVE  IInv'
<1> DEFINE row == [revision |-> rev, quality |-> "unrated", verdict |-> [f \in Finding |-> "none"]]
<1>0. TypeInv /\ TablesOK /\ (\A q \in Session : SessionOK(q))
  BY DEF IInv
<1>1. /\ runs \in Seq(RunRow) /\ runs' = Append(runs, row) /\ Len(runs) < MaxRuns
      /\ UNCHANGED <<history, runnable, served, locks, session>>
  BY <1>0 DEF IngestRun, TypeInv
<1>2. row \in RunRow /\ row.quality = QualityOf(row.verdict)
  <2>1. {f \in Finding : row.verdict[f] # "none"} = {}
    OBVIOUS
  <2>2. QualityOf(row.verdict) = "unrated"
    BY <2>1 DEF QualityOf
  <2> QED BY <2>2 DEF RunRow, Verdict, Quality
<1>3. /\ runs' \in Seq(RunRow) /\ Len(runs') = Len(runs) + 1
      /\ \A i \in 1 .. Len(runs) : runs'[i] = runs[i]
      /\ runs'[Len(runs) + 1] = row
  <2> HIDE DEF row
  <2> QED BY <1>1, <1>2, AppendProperties
<1> HIDE DEF row
<1>4. TypeInv'
  <2>1. Len(runs') <= MaxRuns
    BY <1>1, <1>3
  <2> QED BY <1>0, <1>1, <1>3, <2>1 DEF TypeInv, history, locks
<1>5. TablesOK'
  <2>1. QualityIsRecomputed'
    <3>1. ASSUME NEW i \in DOMAIN runs' PROVE runs'[i].quality = QualityOf(runs'[i].verdict)
      <4>1. CASE i \in 1 .. Len(runs)
        BY <1>0, <1>1, <1>3, <4>1 DEF TablesOK, QualityIsRecomputed
      <4>2. CASE i \notin 1 .. Len(runs)
        <5>1. i = Len(runs) + 1
          BY <1>1, <1>3, <4>2
        <5> QED BY <1>2, <1>3, <5>1
      <4> QED BY <4>1, <4>2
    <3> QED BY <3>1 DEF QualityIsRecomputed
  <2> QED BY <1>0, <1>1, <2>1 DEF TablesOK, ProjectIsItsPick, ConfigIsChosen, history
<1>6. ASSUME NEW q \in Session PROVE SessionOK(q)'
  <2>1. VerdictsKept(q)
    BY <1>1, <1>3 DEF VerdictsKept, locks
  <2>2. session[q].op = "create" => Creating(q)
    BY <1>0 DEF SessionOK
  <2>3. EditKept(q) /\ RuntimeKept(q) /\ session'[q] = session[q]
    BY <1>1, <2>2 DEF EditKept, RuntimeKept, Creating, locks
  <2> QED BY <1>0, <2>1, <2>3, Kept
<1> QED BY <1>4, <1>5, <1>6 DEF IInv

(* Feedback locks the row of its run.                                      *)
LEMMA FeedbackStep ==
  ASSUME IInv, NEW s \in Session, NEW i \in DOMAIN runs, NEW f \in Finding,
         NEW v \in Verdict \ {"none"}, BeginFeedback(s, i, f, v)
  PROVE  IInv'
<1> DEFINE d == [Idle EXCEPT !.phase = "rating", !.run = i, !.finding = f, !.verdict = v]
<1>0. /\ TypeInv /\ TablesOK /\ (\A q \in Session : SessionOK(q)) /\ None \notin Session
      /\ DOMAIN runs \subseteq RunId /\ i \in RunId
  BY DEF IInv, TypeInv, RunId
<1>1. /\ session' = [session EXCEPT ![s] = d] /\ runLock[i] = None
      /\ runLock' = [runLock EXCEPT ![i] = s]
      /\ UNCHANGED <<history, runnable, served, runs, projectLock, runtimeLock>>
  BY DEF BeginFeedback, RunFree
<1>2. /\ d \in SessionState /\ d.phase = "rating" /\ d.op = "none" /\ d.run = i /\ d.finding = f
  <2>1. i \in Nat /\ v \in Verdict
    BY <1>0 DEF RunId
  <2>2. d.phase = "rating" /\ d.op = "none" /\ d.run = i /\ d.finding = f
    BY DEF Idle
  <2>3. Idle \in SessionState
    BY IdleType
  <2> QED BY <2>1, <2>2, <2>3 DEF SessionState, Phase
<1> HIDE DEF d
<1>3. TypeInv'
  BY <1>0, <1>1, <1>2 DEF TypeInv, history
<1>4. session'[s] = d /\ \A q \in Session \ {s} : session'[q] = session[q]
  BY <1>0, <1>1 DEF TypeInv
<1>5. runLock'[i] = s /\ \A q \in Session, x \in RunId : runLock[x] = q => runLock'[x] = q
  BY <1>0, <1>1 DEF TypeInv
<1>6. SessionOK(s)'
  BY <1>1, <1>2, <1>4, <1>5 DEF SessionOK, Rating
<1>7. ASSUME NEW q \in Session, q # s PROVE SessionOK(q)'
  <2>1. VerdictsKept(q)
    BY <1>0, <1>1, <1>5 DEF VerdictsKept
  <2>2. session[q].op = "create" => Creating(q)
    BY <1>0 DEF SessionOK
  <2>3. EditKept(q) /\ RuntimeKept(q)
    BY <1>1, <1>2, <1>4, <2>2 DEF EditKept, RuntimeKept, Creating
  <2> QED BY <1>0, <1>4, <1>7, <2>1, <2>3, Kept
<1> QED BY <1>0, <1>1, <1>3, <1>6, <1>7, TablesKept DEF IInv

LEMMA RecomputeStep ==
  ASSUME IInv, NEW s \in Session, Recompute(s)
  PROVE  IInv'
<1> DEFINE d == [session[s] EXCEPT !.phase = "rated", !.quality = QualityOf(Read(s))]
<1>0. /\ TypeInv /\ TablesOK /\ (\A q \in Session : SessionOK(q))
      /\ session[s] \in SessionState /\ session[s].phase = "rating"
  BY DEF IInv, TypeInv, Recompute
<1>1. /\ session' = [session EXCEPT ![s] = d]
      /\ UNCHANGED <<history, runnable, served, runs, locks>>
  BY DEF Recompute, Read
<1>2. /\ d \in SessionState /\ d.phase = "rated" /\ d.op = session[s].op /\ d.run = session[s].run
      /\ d.finding = session[s].finding /\ d.verdict = session[s].verdict
      /\ d.quality = QualityOf(Read(s))
  BY <1>0, QualityType DEF SessionState, Phase
<1> HIDE DEF d
<1>3. TypeInv'
  BY <1>0, <1>1, <1>2 DEF TypeInv, history, locks
<1>4. session'[s] = d /\ \A q \in Session \ {s} : session'[q] = session[q]
  BY <1>0, <1>1 DEF TypeInv
<1>5. SessionOK(s)'
  <2>1. Read(s)' = Read(s)
    BY <1>1, <1>2, <1>4 DEF Read
  <2>2. Rating(s)' /\ session[s].op # "create"
    BY <1>0, <1>1, <1>2, <1>4 DEF SessionOK, Rating, locks
  <2> QED BY <1>2, <1>4, <2>1, <2>2 DEF SessionOK
<1>6. ASSUME NEW q \in Session, q # s PROVE SessionOK(q)'
  <2>1. session[q].op = "create" => Creating(q)
    BY <1>0 DEF SessionOK
  <2>2. EditKept(q) /\ RuntimeKept(q) /\ VerdictsKept(q)
    BY <1>0, <1>1, <1>2, <1>4, <2>1 DEF EditKept, RuntimeKept, VerdictsKept, Creating, locks, SessionOK
  <2> QED BY <1>0, <1>4, <1>6, <2>2, Kept
<1> QED BY <1>0, <1>1, <1>3, <1>5, <1>6, TablesKept DEF IInv

LEMMA CommitFeedbackStep ==
  ASSUME IInv, NEW s \in Session, CommitFeedback(s)
  PROVE  IInv'
<1> DEFINE c == session[s]
           k == c.run
           new == [runs[k].verdict EXCEPT ![c.finding] = c.verdict]
           row == [runs[k] EXCEPT !.verdict = new, !.quality = c.quality]
<1>0. /\ TypeInv /\ TablesOK /\ c \in SessionState /\ c.phase = "rated" /\ SessionOK(s)
      /\ runs \in Seq(RunRow)
  BY DEF IInv, TypeInv, CommitFeedback
<1>1. k \in DOMAIN runs /\ c.finding \in Finding /\ c.quality = QualityOf(new)
  BY <1>0 DEF SessionOK, Rating, Read
<1>2. runs[k] \in RunRow
  BY <1>0, <1>1
<1>3. row \in RunRow /\ row.quality = QualityOf(row.verdict)
  <2>1. new \in [Finding -> Verdict] /\ c.quality \in Quality
    BY <1>0, <1>1, <1>2 DEF RunRow, SessionState
  <2> DEFINE x == runs[k]
             g == c.quality
             r == [x EXCEPT !.verdict = new, !.quality = g]
  <2>2. x \in RunRow /\ g \in Quality /\ g = QualityOf(new)
    BY <1>1, <1>2, <2>1
  <2> HIDE DEF new, x, g
  <2>3. r \in RunRow /\ r.verdict = new /\ r.quality = g
    BY <2>1, <2>2 DEF RunRow
  <2> HIDE DEF r
  <2>4. r \in RunRow /\ r.quality = QualityOf(r.verdict)
    BY <2>2, <2>3
  <2> QED BY <2>4 DEF r, x, g
<1>4. runs' = [runs EXCEPT ![k] = row]
  <2>1. runs' = [runs EXCEPT ![k].verdict[c.finding] = c.verdict, ![k].quality = c.quality]
    BY DEF CommitFeedback
  <2> QED BY <1>0, <1>1, <1>2, <2>1 DEF RunRow
<1>5. /\ runs' \in Seq(RunRow) /\ Len(runs') = Len(runs)
      /\ \A j \in DOMAIN runs : runs'[j] = IF j = k THEN row ELSE runs[j]
  <2> HIDE DEF row, k
  <2> QED BY <1>0, <1>1, <1>3, <1>4, ExceptSeq
<1> HIDE DEF row
<1>6. TypeInv'
  BY <1>0, <1>5, EndType DEF CommitFeedback, TypeInv, history
<1>7. TablesOK'
  <2>1. QualityIsRecomputed'
    <3>1. DOMAIN runs' = DOMAIN runs
      BY <1>0, <1>5
    <3> HIDE DEF k
    <3> QED BY <1>0, <1>3, <1>5, <3>1 DEF TablesOK, QualityIsRecomputed
  <2> QED BY <1>0, <2>1 DEF CommitFeedback, TablesOK, ProjectIsItsPick, ConfigIsChosen, history
<1>8. ASSUME NEW q \in Session PROVE SessionOK(q)'
  <2>1. Releases(s)
    BY <1>0 DEF CommitFeedback, Releases
  <2> QED BY <2>1, Ends
<1> QED BY <1>6, <1>7, <1>8 DEF IInv

-----------------------------------------------------------------------------

LEMMA StutterStep == IInv /\ UNCHANGED vars => IInv'
<1> SUFFICES ASSUME IInv, UNCHANGED vars PROVE IInv'
  OBVIOUS
<1>1. ASSUME NEW q \in Session PROVE SessionOK(q)'
  BY DEF IInv, vars, history, locks, SessionOK, Creating, Loaded, CurrentRuntime, Armed, Rating, Read
<1> QED BY <1>1, TablesKept DEF IInv, TypeInv, vars, history, locks

LEMMA NextStep == IInv /\ [Next]_vars => IInv'
<1> SUFFICES ASSUME IInv, [Next]_vars PROVE IInv'
  OBVIOUS
<1>1. \A rev \in 0 .. Len(revisions) : rev \in Nat
  OBVIOUS
<1>2. ASSUME NEW s \in Session, Abort(s) PROVE IInv'
  BY <1>2, AbortStep DEF Abort, IInv, TypeInv
<1> QED BY <1>1, <1>2, CreateLegacyStep, DeleteStep, SwitchStep, IngestStep, SaveLegacyStep,
           RequireStep, SaveStep, ServeStep, RecomputeStep, CommitFeedbackStep, BeginStep,
           BeginCreateStep, FeedbackStep, StutterStep DEF Next

(* Every variable stays in its type, and a session may rely on what its    *)
(* locks protect.                                                          *)
THEOREM SessionsAreSound == Spec => []IInv
BY InitInvariant, NextStep, PTL DEF Spec

(* The task configuration of a revision is the one that was sent with it,  *)
(* the one in force just before for the same capability, or the default    *)
(* (update_project).                                                       *)
THEOREM ConfigsAreChosen == Spec => []ConfigIsChosen
<1>1. IInv => ConfigIsChosen
  BY DEF IInv, TablesOK
<1> QED BY <1>1, SessionsAreSound, PTL

(* A project follows one of the two contracts, its newest pick, and has    *)
(* the task of that pick.                                                  *)
THEOREM ProjectsFollowTheirPick == Spec => []ProjectIsItsPick
<1>1. IInv => ProjectIsItsPick
  BY DEF IInv, TablesOK
<1> QED BY <1>1, SessionsAreSound, PTL

(* The quality gate of a run is the one of all verdicts on its findings    *)
(* (submit_feedback, recompute_quality).                                   *)
THEOREM QualityAlwaysRecomputed == Spec => []QualityIsRecomputed
<1>1. IInv => QualityIsRecomputed
  BY DEF IInv, TablesOK
<1> QED BY <1>1, SessionsAreSound, PTL

-----------------------------------------------------------------------------
(* Nothing is saved or served for a runtime that is switched off.          *)

RunnableStep ==
  /\ Len(revisions') > Len(revisions) =>
       runnable[selections'[revisions'[Len(revisions')].selection].runtime]
  /\ Len(served') > Len(served) =>
       runnable[selections[revisions[served'[Len(served')]].selection].runtime]

LEMMA SaveIsRunnable ==
  ASSUME IInv, NEW s \in Session, Save(s), Len(revisions') > Len(revisions)
  PROVE  runnable[selections'[revisions'[Len(revisions')].selection].runtime]
<1> DEFINE c == session[s]
           picks == c.op \in {"create", "pick"}
           profile == ProfileOf[c.runtime]
           selection == IF picks THEN Len(selections) + 1 ELSE revisions[c.base].selection
           pick == [runtime |-> c.runtime, option |-> project.option]
           row == [selection |-> selection, profile |-> profile, config |-> Effective(c),
                   given |-> c.config]
<1>0. /\ TypeInv /\ TablesOK /\ SessionOK(s) /\ c \in SessionState
      /\ c.phase = "armed" /\ c.op # "fetch" /\ Armed(s)
      /\ selections \in Seq(SelectionRow) /\ revisions \in Seq(RevisionRow)
  BY DEF IInv, Save, SessionOK, TypeInv
<1>1. revisions' # revisions
  BY <1>0
<1>2. /\ selections' = IF picks THEN Append(selections, pick) ELSE selections
      /\ revisions' = Append(revisions, row) /\ c.op # "rename"
  BY <1>1 DEF Save, history
<1>3. revisions'[Len(revisions')].selection = selection
  <2>1. revisions'[Len(revisions')] = row
    <3> HIDE DEF row
    <3> QED BY <1>0, <1>2
  <2> QED BY <2>1
<1>4. CASE picks
  <2>1. selections'[selection] = pick
    <3>1. selection = Len(selections) + 1 /\ selections' = Append(selections, pick)
      BY <1>2, <1>4
    <3> HIDE DEF pick, selection
    <3> QED BY <1>0, <3>1
  <2> QED BY <1>0, <1>3, <2>1 DEF Armed
<1>5. CASE ~picks
  <2>1. selections'[selection].runtime = c.runtime
    BY <1>0, <1>2, <1>5 DEF SessionOK, Loaded, CurrentRuntime, Armed, Edits
  <2> QED BY <1>0, <1>3, <2>1 DEF Armed
<1> QED BY <1>4, <1>5

LEMMA ServeIsRunnable ==
  ASSUME IInv, NEW s \in Session, Serve(s)
  PROVE  runnable[selections[revisions[served'[Len(served')]].selection].runtime]
<1>0. /\ SessionOK(s) /\ session[s].phase = "armed" /\ session[s].op = "fetch" /\ Armed(s)
      /\ served \in Seq(Nat) /\ session[s].base \in Nat
  BY DEF IInv, Serve, SessionOK, TypeInv, SessionState
<1>1. served'[Len(served')] = session[s].base
  BY <1>0 DEF Serve
<1>2. selections[revisions[session[s].base].selection].runtime = session[s].runtime
  BY <1>0 DEF SessionOK, Loaded, CurrentRuntime, Edits
<1> QED BY <1>0, <1>1, <1>2 DEF Armed

LEMMA OthersSaveNothing ==
  ASSUME IInv, [Next]_vars,
         \A s \in Session : ~Save(s) /\ ~Serve(s)
  PROVE  ~(Len(revisions') > Len(revisions)) /\ ~(Len(served') > Len(served))
<1>0. revisions \in Seq(RevisionRow) /\ served \in Seq(Nat)
  BY DEF IInv, TypeInv
<1>1. CASE UNCHANGED <<revisions, served>>
  BY <1>0, <1>1
<1>2. CASE DeleteProject
  BY <1>0, <1>2 DEF DeleteProject
<1> QED BY <1>1, <1>2 DEF Next, vars, history, CreateLegacy, SwitchRuntime, IngestRun, SaveLegacy,
           RequireRuntime, BeginFetch, Recompute, CommitFeedback, Abort, BeginLegacy, BeginCreate,
           BeginPick, BeginEdit, LockProject, BeginFeedback

(* Nothing is saved or handed out for a runtime that is not enabled and    *)
(* verified at the commit, whenever the operator switches it               *)
(* (require_runtime, agent_config).                                        *)
THEOREM CommitsAreRunnable == Spec => CommitsWhileRunnable
<1>1. IInv /\ [Next]_vars => [RunnableStep]_vars
  <2> SUFFICES ASSUME IInv, [Next]_vars PROVE RunnableStep
    OBVIOUS
  <2>1. ASSUME NEW s \in Session, Save(s) PROVE RunnableStep
    <3>1. ~(Len(served') > Len(served))
      BY <2>1 DEF Save, IInv, TypeInv
    <3> QED BY <2>1, <3>1, SaveIsRunnable DEF RunnableStep
  <2>2. ASSUME NEW s \in Session, Serve(s) PROVE RunnableStep
    <3>1. ~(Len(revisions') > Len(revisions))
      BY <2>2 DEF Serve, history, IInv, TypeInv
    <3> QED BY <2>2, <3>1, ServeIsRunnable DEF RunnableStep
  <2> QED BY <2>1, <2>2, OthersSaveNothing DEF RunnableStep
<1> QED BY <1>1, SessionsAreSound, PTL DEF Spec, CommitsWhileRunnable, RunnableStep

=============================================================================
