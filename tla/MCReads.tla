------------------------------ MODULE MCReads ------------------------------
(* Small instances of Billing, Ranking and CatalogPages in one run: they     *)
(* share no state, and a behaviour is about one of them.  Prices are          *)
(* distinct, so that no category can stand for another.  Ranks: two           *)
(* observations of one group with equal scores, a better one of a model       *)
(* without a runtime, a second comparable row, and one of another group.      *)
(* Pages: two models of one name, of which one moves from the last rank to    *)
(* the first by its alias, and one that matches by its alias only.            *)
EXTENDS Billing, Ranking, CatalogPages

VARIABLE subject    \* which of the three a behaviour is about

MCPrices(k) ==
  [c \in Category |-> k * CASE c = "input" -> 3 [] c = "output" -> 17 [] c = "reasoning" -> 29
     [] c = "cache_read" -> 1 [] c = "cache_write" -> 5 [] c = "cache_write_5m" -> 7 [] OTHER -> 11]

MCTier(bound, prices) == [upTo |-> bound, rates |-> prices]

MCSchedules ==
  { [tier |-> "standard", tiers |-> <<MCTier({1}, MCPrices(1)), MCTier({}, MCPrices(2))>>],
    [tier |-> "all", tiers |-> <<MCTier({}, MCPrices(1))>>],
    [tier |-> "priority", tiers |-> <<MCTier({}, [c \in {"input", "output", "cache_read"} |-> MCPrices(1)[c]])>>] }

MCTruths ==
  [fresh : 0 .. 1, read : 0 .. 1, write5 : 0 .. 1, write1 : 0 .. 1, visible : {1}, reasoning : 0 .. 1,
   tier : {"standard", "priority"}, model : {"selected"}]
  \cup [fresh : {1}, read : {1}, write5 : {0}, write1 : {0}, visible : {1}, reasoning : {0},
   tier : {"standard"}, model : {"other"}]

MCHidden ==
  {s \in SUBSET {"input", "output", "reasoning", "read", "write", "write5", "write1", "tier", "model", "total"} :
     Cardinality(s) <= 2}

MCRow(obs, model, g, score) == [obs |-> obs, model |-> model, group |-> g, score |-> score]

MCRows ==
  { MCRow(1, 1, "g", 2), MCRow(2, 2, "g", 2), MCRow(3, 3, "g", 3), MCRow(2, 2, "g", 1),
    MCRow(4, 1, "h", 1), MCRow(5, 2, "none", 0) }

MCRuntimes == {[id |-> 1, model |-> 1], [id |-> 2, model |-> 2], [id |-> 3, model |-> 2]}

MCModel(id, name, own, alias) == [id |-> id, name |-> name, own |-> own, alias |-> alias]

MCModels == { MCModel(1, 2, 2, 0), MCModel(2, 2, 1, 3), MCModel(3, 1, 3, 1) }

MCInit ==
  /\ Init /\ RankingInit /\ PagesInit
  /\ subject \in {"prices", "ranks", "pages"}
  /\ subject # "ranks" => evidence = {} /\ group = NoGroup

MCNext ==
  /\ \/ subject = "prices" /\ Next /\ UNCHANGED <<rankingVars, pagesVars>>
     \/ subject = "ranks" /\ RankingNext /\ UNCHANGED <<vars, pagesVars>>
     \/ subject = "pages" /\ PagesNext /\ UNCHANGED <<vars, rankingVars>>
  /\ UNCHANGED subject

MCSpec == MCInit /\ [][MCNext]_<<subject, vars, rankingVars, pagesVars>>
=============================================================================
