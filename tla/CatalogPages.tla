---------------------------- MODULE CatalogPages ----------------------------
(***************************************************************************)
(* Walks through the pages of the public catalog (app/catalog/queries.py,  *)
(* pagination.py, app/api/catalog.py) while importers and operators change *)
(* what is listed.  Every page is a transaction of its own; a walk goes on *)
(* from the key of the last row it was shown.                              *)
(*                                                                         *)
(* A listing orders its rows by a key: observations by id, named entities  *)
(* by name and id, search results by match rank, name and id.  Models      *)
(* stand for all named entities; the text searched for is fixed, and a     *)
(* model matches it with a rank of its own or that of a resolved alias.    *)
(***************************************************************************)
EXTENDS Integers, Sequences, FiniteSets

CONSTANTS
  Source,      \* sources whose importers run during the walk
  Model,       \* catalog models: [id, name, own, alias]
  PageSize,    \* the query's limit
  MaxId        \* bound: observations

NoMatch == 3   \* 0 exact, 1 prefix, 2 contained

\* The id is the primary key of catalog_model.
ASSUME ModelsAreModels ==
  /\ Model \subseteq [id : Nat, name : Nat, own : 0 .. NoMatch, alias : 0 .. NoMatch]
  /\ IsFiniteSet(Model) /\ \A m, n \in Model : m.id = n.id => m = n
ASSUME PagesHaveRows == PageSize \in Nat \ {0} /\ MaxId \in Nat

VARIABLES
  nextId,    \* the sequence of observation ids
  rows,      \* committed observations: [id, source, snapshot]
  active,    \* active_snapshot_id, by source; 0 is none
  drafts,    \* ids inserted by the open import of every source
  aliases,   \* ids of models whose alias is resolved
  walk,      \* the client's walk
  steady     \* history: keys that were in a listing ever since the walk began

pagesVars == <<nextId, rows, active, drafts, aliases, walk, steady>>

Query == {"history", "active", "models", "matching models", "search"}

PagesInit ==
  /\ nextId = 1 /\ rows = {} /\ aliases = {}
  /\ active = [s \in Source |-> 0] /\ drafts = [s \in Source |-> {}]
  /\ walk = [query |-> "none", state |-> "none", last |-> <<>>, page |-> <<>>, listed |-> <<>>, labels |-> {}]
  /\ steady = [q \in Query |-> {}]

-----------------------------------------------------------------------------
(* What a query lists. *)

Rank(m, resolved) ==
  IF m.id \in resolved /\ m.alias < m.own THEN m.alias ELSE m.own

Matching(resolved) == {m \in Model : Rank(m, resolved) < NoMatch}

\* The keys of the rows that match a query; the last component is the id.
Listing(q, obs, pointers, resolved) ==
  CASE q = "history" -> {<<o.id>> : o \in obs}
    [] q = "active"  -> {<<o.id>> : o \in {x \in obs : x.snapshot = pointers[x.source]}}
    [] q = "models"  -> {<<m.name, m.id>> : m \in Model}
    [] q = "matching models" -> {<<m.name, m.id>> : m \in Matching(resolved)}
    [] q = "search"  -> {<<Rank(m, resolved), m.name, m.id>> : m \in Matching(resolved)}

Listed(q) == Listing(q, rows, active, aliases)

Id(key) == key[Len(key)]

Before(a, b) ==
  \E i \in DOMAIN a : a[i] < b[i] /\ \A j \in 1 .. i - 1 : a[j] = b[j]

\* ORDER BY the key, LIMIT n.
FirstRows(keys, n) ==
  LET position(k) == Cardinality({x \in keys : Before(x, k)}) + 1
      count == IF Cardinality(keys) < n THEN Cardinality(keys) ELSE n
  IN [i \in 1 .. count |-> CHOOSE k \in keys : position(k) = i]

-----------------------------------------------------------------------------
(* What changes the listings.  Rows only stay steady while they are listed. *)

Changes ==
  steady' = [q \in Query |-> steady[q] \cap Listing(q, rows', active', aliases')]

\* Ids are drawn at the insert, and rows are seen from the commit.
InsertRow(s) ==
  /\ nextId <= MaxId
  /\ drafts' = [drafts EXCEPT ![s] = @ \cup {nextId}] /\ nextId' = nextId + 1
  /\ UNCHANGED <<rows, active, aliases, walk, steady>>

\* A promotion: a snapshot with its rows becomes the active one, and aliases
\* it has a reviewed mapping for are resolved.  Its number is its first id.
CommitImport(s) ==
  /\ drafts[s] # {}
  /\ LET snapshot == CHOOSE i \in drafts[s] : \A j \in drafts[s] : i <= j
     IN /\ rows' = rows \cup [id : drafts[s], source : {s}, snapshot : {snapshot}]
        /\ active' = [active EXCEPT ![s] = snapshot]
  /\ \E ids \in SUBSET {m.id : m \in Model} : aliases' = aliases \cup ids
  /\ drafts' = [drafts EXCEPT ![s] = {}]
  /\ UNCHANGED <<nextId, walk>> /\ Changes

RollbackImport(s) ==
  /\ drafts[s] # {} /\ drafts' = [drafts EXCEPT ![s] = {}]
  /\ UNCHANGED <<nextId, rows, active, aliases, walk, steady>>

\* select_snapshot of the operator.
SelectSnapshot(s) ==
  /\ drafts[s] = {}
  /\ \E o \in rows : o.source = s /\ active' = [active EXCEPT ![s] = o.snapshot]
  /\ UNCHANGED <<nextId, rows, drafts, aliases, walk>> /\ Changes

-----------------------------------------------------------------------------
(* A walk. *)

StartWalk(q) ==
  /\ walk.state \in {"none", "done"}
  /\ walk' = [query |-> q, state |-> "ready", last |-> <<>>, page |-> <<>>, listed |-> <<>>, labels |-> {}]
  /\ steady' = [x \in Query |-> Listed(x)]
  /\ UNCHANGED <<nextId, rows, active, drafts, aliases>>

CursorOnExtraRow(found) == found[Len(found)]

\* The cursor holds the last row that is shown, not the extra one.
CursorOf(found) == found[PageSize]

\* A cursor is refused (422) with any other query than its own.
ReadPage ==
  /\ walk.state = "ready"
  /\ LET after == {k \in Listed(walk.query) : walk.last = <<>> \/ Before(walk.last, k)}
         found == FirstRows(after, PageSize + 1)
         more == Len(found) > PageSize
         page == IF more THEN SubSeq(found, 1, PageSize) ELSE found
     IN walk' = [walk EXCEPT !.page = page, !.listed = @ \o page,
                   !.last = IF more THEN CursorOf(found) ELSE <<>>,
                   !.state = IF walk.query \in {"history", "active"} THEN "label"
                             ELSE IF more THEN "ready" ELSE "done"]
  /\ UNCHANGED <<nextId, rows, active, drafts, aliases, steady>>

\* _observation_outs reads the import states after the rows.
LabelPage ==
  /\ walk.state = "label"
  /\ walk' = [walk EXCEPT
       !.labels = {[id |-> o.id, active |-> active[o.source] = o.snapshot] :
                     o \in {x \in rows : \E i \in DOMAIN walk.page : x.id = Id(walk.page[i])}},
       !.state = IF walk.last = <<>> THEN "done" ELSE "ready"]
  /\ UNCHANGED <<nextId, rows, active, drafts, aliases, steady>>

PagesNext ==
  \/ \E s \in Source :
       InsertRow(s) \/ CommitImport(s) \/ RollbackImport(s) \/ SelectSnapshot(s)
  \/ \E q \in Query : StartWalk(q)
  \/ ReadPage \/ LabelPage

PagesSpec == PagesInit /\ [][PagesNext]_pagesVars

-----------------------------------------------------------------------------
(* Properties. *)

\* Whatever is imported, activated or resolved between its pages, a walk
\* never shows a row twice, and when it ends it has shown every row that was
\* listed under one key all the while.
WalkIsComplete ==
  /\ \A i, j \in DOMAIN walk.listed : Id(walk.listed[i]) = Id(walk.listed[j]) => i = j
  /\ walk.state = "done" =>
       \A key \in steady[walk.query] : \E i \in DOMAIN walk.listed : walk.listed[i] = key

\* A row of the active view is labelled active
\* ("opts into the importer active pointers", app/catalog/PUBLIC-EXPLORER.md).
ActiveIsLabelled ==
  walk.query = "active" => \A l \in walk.labels : l.active
=============================================================================
