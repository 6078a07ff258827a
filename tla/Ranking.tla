------------------------------ MODULE Ranking ------------------------------
(***************************************************************************)
(* The candidates of a selection: candidates, comparison_group and         *)
(* order_scores of app/selections/.  The evidence is read without an       *)
(* order; scores compare only within one group, which stands for a         *)
(* snapshot, evaluator, settings and metric coverage.                      *)
(***************************************************************************)
EXTENDS Integers, SequencesExt

CONSTANTS
  Rows,       \* evidence: [obs, model, group, score], one metric of an observation
  Runtimes,   \* enabled and verified runtimes of the task: [id, model]
  NoGroup     \* comparison_group's None

ASSUME RowsAreSources ==
  /\ IsFiniteSet(Rows) /\ \A x \in Rows : x.obs \in Nat /\ x.model \in Nat /\ x.score \in Int
  /\ \A x, y \in Rows : x.obs = y.obs => x.model = y.model
ASSUME RuntimesAreKnown ==
  IsFiniteSet(Runtimes) /\ \A r \in Runtimes : r.id \in Nat /\ r.model \in Nat

VARIABLES
  evidence,   \* the rows in the catalog
  group,      \* the group asked for
  answers     \* what candidates returned, whatever the order of the rows

rankingVars == <<evidence, group, answers>>

Groups == {x.group : x \in Rows} \ {NoGroup}

RankingInit ==
  /\ evidence \in SUBSET Rows /\ group \in Groups \cup {NoGroup}
  /\ answers = {}

-----------------------------------------------------------------------------

\* The elements of S in the order R.
InOrder(S, R) ==
  [n \in 1 .. Cardinality(S) |-> CHOOSE x \in S : Cardinality({y \in S : <<y, x>> \in R}) = n - 1]

\* order_scores: competition ranks of a sorted sequence, 1, 1, 3.
Ranks(sorted) ==
  LET rank[i \in DOMAIN sorted] ==
        IF i > 1 /\ sorted[i].score = sorted[i - 1].score THEN rank[i - 1] ELSE i
  IN rank

Better(S) ==
  {p \in S \X S : \/ p[1].score > p[2].score
                  \/ p[1].score = p[2].score /\ p[1].obs < p[2].obs}

\* The comparable rows as they were read; the last one of an observation counts.
Comparable(read) == {i \in DOMAIN read : read[i].group # NoGroup}

AmbiguousIgnored(read) == {}

\* An observation with several comparable rows is compared in none of them.
Ambiguous(read) ==
  {read[i].obs : i \in {j \in Comparable(read) :
     \E k \in Comparable(read) : k # j /\ read[k].obs = read[j].obs}}

Scored(read) ==
  {read[i] : i \in {j \in Comparable(read) :
     /\ read[j].obs \notin Ambiguous(read)
     /\ \A k \in Comparable(read) : read[k].obs = read[j].obs => k <= j}}

\* Where an observation stands among all results of its group.
SourceRank(read, row) ==
  LET peers  == {x \in Scored(read) : x.group = row.group}
      sorted == InOrder(peers, Better(peers))
      place  == CHOOSE i \in DOMAIN sorted : sorted[i] = row
  IN Ranks(sorted)[place]

\* Every runtime with every observation of its model.
Item(read, g, rt, obs) ==
  LET mine == {s \in Scored(read) : s.obs = obs}
  IN [runtime |-> rt.id, model |-> rt.model, obs |-> obs,
      score |-> {s.score : s \in mine}, group |-> {s.group : s \in mine},
      sourceRank |-> {SourceRank(read, s) : s \in mine},
      ranked |-> g # NoGroup /\ \E s \in mine : s.group = g,
      rank |-> {}, position |-> {}]

Items(read, g) ==
  {Item(read, g, p[1], p[2].obs) :
     p \in {q \in Runtimes \X ToSet(read) : q[1].model = q[2].model}}

\* The identifiers that make an order total.
First(a, b) ==
  \/ a.model < b.model
  \/ a.model = b.model /\ (a.runtime < b.runtime \/ (a.runtime = b.runtime /\ a.obs < b.obs))

Precedes(S) == {p \in S \X S : First(p[1], p[2])}

RankedBefore(S) ==
  LET score(i) == CHOOSE n \in i.score : TRUE
  IN {p \in S \X S : \/ score(p[1]) > score(p[2])
                     \/ score(p[1]) = score(p[2]) /\ First(p[1], p[2])}

\* The ranked items and the others, as a list; a group without an item is
\* refused.
Candidates(read, g) ==
  LET items  == Items(read, g)
      chosen == {i \in items : i.ranked}
      ranked == InOrder(chosen, RankedBefore(chosen))
      others == items \ chosen
  IN IF g # NoGroup /\ \A i \in items : g \notin i.group THEN <<>>
     ELSE [i \in DOMAIN ranked |->
             [ranked[i] EXCEPT !.rank = {Ranks(ranked)[i]}, !.position = {i}]]
            \o InOrder(others, Precedes(others))

\* A page of the list.
Page(list, offset, limit) ==
  SubSeq(list, offset + 1, IF offset + limit < Len(list) THEN offset + limit ELSE Len(list))

-----------------------------------------------------------------------------

\* A request, for any order in which the rows are read.
Ask ==
  /\ \E read \in SetToSeqs(evidence) : answers' = answers \cup {Candidates(read, group)}
  /\ UNCHANGED <<evidence, group>>

RankingNext == Ask

RankingSpec == RankingInit /\ [][RankingNext]_rankingVars

-----------------------------------------------------------------------------

\* The results that an observation is compared with.
Peers(row) ==
  {x \in evidence : x.group = row.group /\
     \A y \in evidence : y.obs = x.obs /\ y.group # NoGroup => y = x}

\* The answer does not depend on the order in which the database returns the
\* rows; a rank counts the strictly better items of one group and no other,
\* and the rank among all results counts the strictly better ones of those;
\* an observation with several comparable rows has neither ("do not silently
\* select whichever database row was returned last", app/selections/service.py);
\* and pages, whatever their size, are together the list.
RanksAreEarned ==
  /\ Cardinality(answers) <= 1
  /\ \A list \in answers :
       /\ \A i \in DOMAIN list :
            /\ \A n \in list[i].rank : n = 1 + Cardinality(
                 {j \in DOMAIN list : list[j].rank # {} /\ list[j].score # list[i].score
                                        /\ \A a \in list[j].score, b \in list[i].score : a > b})
            /\ list[i].rank # {} => list[i].group = {group}
            /\ \A row \in {x \in evidence : x.obs = list[i].obs /\ x.group # NoGroup} :
                 list[i].sourceRank =
                   IF row \in Peers(row)
                     THEN {1 + Cardinality({x \in Peers(row) : x.score > row.score})} ELSE {}
       /\ \A limit \in 1 .. 2 :
            list = FlattenSeq([k \in 1 .. Len(list) |-> Page(list, (k - 1) * limit, limit)])
=============================================================================
