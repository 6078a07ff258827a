------------------------------ MODULE Billing ------------------------------
(***************************************************************************)
(* Prices of reported runs: app/billing/rates.py and pricing.py, and the   *)
(* places that pin a schedule (new_revision of app/selections/service.py)  *)
(* and price a report by it (ingest_run of app/ci/service.py).             *)
(*                                                                         *)
(* What a run really used is a record of disjoint categories of tokens.    *)
(* The provider's answer groups them in its own way and may leave counters *)
(* out; the estimate sees that answer only.  An optional value is a set of *)
(* at most one element.                                                    *)
(***************************************************************************)
EXTENDS Integers, Sequences, FiniteSets

CONSTANTS
  Schedules,   \* schedules an operator registers
  Truths,      \* what runs really used
  Hidden,      \* sets of fields that an answer leaves out
  MaxTime,     \* bound: the clock
  MaxRates     \* bound: registered rates

Category == {"input", "output", "reasoning", "cache_read", "cache_write", "cache_write_5m", "cache_write_1h"}
Provider == {"openai", "anthropic", "google"}

\* Tiers increase and end with an unbounded one; rates are not negative.
ASSUME SchedulesAreOrdered ==
  \A s \in Schedules :
    /\ DOMAIN s.tiers = 1 .. Len(s.tiers) /\ Len(s.tiers) \in Nat \ {0}
    /\ s.tiers[Len(s.tiers)].upTo = {}
    /\ \A i \in 1 .. Len(s.tiers) - 1 : \E n \in s.tiers[i].upTo : n \in Nat
    /\ \A i \in DOMAIN s.tiers : \A c \in DOMAIN s.tiers[i].rates :
         c \in Category /\ s.tiers[i].rates[c] \in Nat
ASSUME TruthsAreCounts ==
  \A t \in Truths : {t.fresh, t.read, t.write5, t.write1, t.visible, t.reasoning} \subseteq Nat
\* An answer always says whose it is.
ASSUME ProvidersAreKnown == \A fields \in Hidden : fields \cap {"basis", "provider"} = {}
ASSUME TimeIsCounted == MaxTime \in Nat /\ MaxRates \in Nat

VARIABLES
  now,        \* the clock
  rates,      \* billing_rate: [from, until, schedule]
  revision,   \* the current revision's billing_snapshot, and its provider
  run         \* the last report: its truth, basis, pinned rate and billing

vars == <<now, rates, revision, run>>

Init == now = 0 /\ rates = {} /\ revision = {} /\ run = {}

Plus(a, b) == {x + y : x \in a, y \in b}

\* A sum over the categories: what is unknown adds nothing.
Total(f) ==
  LET at(c) == IF c \in DOMAIN f /\ f[c] # {} THEN CHOOSE n \in f[c] : TRUE ELSE 0
  IN at("input") + at("output") + at("reasoning") + at("cache_read")
       + at("cache_write") + at("cache_write_5m") + at("cache_write_1h")

-----------------------------------------------------------------------------
(* What is reported of a run. *)

Prompt(t) == t.fresh + t.read + t.write5 + t.write1

\* The counters a provider returns for its request.
Native(p, t) ==
  [basis |-> "native", provider |-> p, tier |-> {t.tier}, model |-> {t.model},
   input  |-> {IF p = "anthropic" THEN t.fresh ELSE Prompt(t)},
   output |-> {IF p = "google" THEN t.visible ELSE t.visible + t.reasoning},
   reasoning |-> {t.reasoning}, read |-> {t.read},
   write  |-> IF p = "google" THEN {} ELSE {t.write5 + t.write1},
   write5 |-> IF p = "anthropic" THEN {t.write5} ELSE {},
   write1 |-> IF p = "anthropic" THEN {t.write1} ELSE {},
   total  |-> IF p = "anthropic" THEN {} ELSE {Prompt(t) + t.visible + t.reasoning}]

\* The disjoint counters of the runner's events.
Normalized(p, t) ==
  [basis |-> "opencode_normalized", provider |-> p, tier |-> {}, model |-> {},
   input |-> {t.fresh}, output |-> {t.visible}, reasoning |-> {t.reasoning}, read |-> {t.read},
   write |-> {t.write5 + t.write1}, write5 |-> {}, write1 |-> {}, total |-> {}]

\* Fields are left out by a provider, and set to zero or left out by the runner.
Without(u, fields, filler) == [f \in DOMAIN u |-> IF f \in fields THEN filler ELSE u[f]]

Answers(p, t, fields) ==
  {Without(Native(p, t), fields, {})}
    \cup {Without(Normalized(p, t), fields \cap {"input", "output", "reasoning", "read", "write"}, x) :
            x \in {{}, {0}}}
    \cup {[Native(p, t) EXCEPT !.basis = "unreported"]}

-----------------------------------------------------------------------------
(* estimate. *)

\* One tier, or for a single request the tier of its context length.
Context(u) ==
  IF u.provider = "anthropic" THEN Plus(u.input, Plus(u.read, u.write)) ELSE u.input

TierOf(tiers, context) ==
  IF Len(tiers) = 1 THEN {tiers[1]}
  ELSE {tiers[i] : i \in {j \in DOMAIN tiers : \E n \in context :
          /\ \A bound \in tiers[j].upTo : n <= bound
          /\ \A k \in 1 .. j - 1 : \E bound \in tiers[k].upTo : n > bound}}

Tier(u, schedule) ==
  TierOf(schedule.tiers, IF u.basis = "native" THEN Context(u) ELSE {})

\* Cached tokens are part of the input of OpenAI and Google.
InputIsFresh(u) == u.input

FreshInput(u) ==
  IF u.provider = "anthropic" THEN u.input
  ELSE {i - r : i \in u.input, r \in u.read}

Counts(u) ==
  IF u.basis = "opencode_normalized"
    THEN [input |-> u.input, output |-> u.output, reasoning |-> u.reasoning,
          cache_read |-> u.read, cache_write |-> u.write]
  ELSE CASE u.provider = "anthropic" ->
              [input |-> FreshInput(u), output |-> u.output, cache_read |-> u.read,
               cache_write_5m |-> IF u.write = {0} THEN {0} ELSE u.write5,
               cache_write_1h |-> IF u.write = {0} THEN {0} ELSE u.write1]
         [] u.provider = "google" ->
              [input |-> FreshInput(u), output |-> u.output, cache_read |-> u.read,
               reasoning |-> u.reasoning]
         [] OTHER ->
              [input |-> IF u.write \in {{}, {0}} THEN FreshInput(u) ELSE {},
               output |-> u.output, cache_read |-> u.read]

\* The runner drops the lifetime of Anthropic's cache writes.
Tariff(u, prices) ==
  IF u.basis = "opencode_normalized" /\ u.provider = "anthropic" /\ u.write # {0}
    THEN [c \in DOMAIN prices \ {"cache_write"} |-> prices[c]]
    ELSE prices

Cost(count, c, prices) ==
  IF count = {0} THEN {0}
  ELSE {n * prices[c] : n \in {x \in count : x >= 0 /\ c \in DOMAIN prices}}

Unavailable == [status |-> "unavailable", known |-> {}]

Estimate(u, pinned, expected) ==
  IF \/ u.basis = "unreported" \/ pinned = {}
     \/ \E r \in pinned :
          \/ r.schedule.tier # "all" /\ (u.basis # "native" \/ u.tier # {r.schedule.tier})
          \/ Tier(u, r.schedule) = {}
     \/ u.basis = "native" /\ u.model # {expected}
    THEN Unavailable
  ELSE LET counts == Counts(u)
           prices == Tariff(u, (CHOOSE t \in Tier(u, (CHOOSE r \in pinned : TRUE).schedule) : TRUE).rates)
           costs  == [c \in DOMAIN counts |-> Cost(counts[c], c, prices)]
           all    == \A c \in DOMAIN counts : counts[c] # {}
           complete == /\ u.basis = "native"
                       /\ \A c \in DOMAIN costs : costs[c] # {}
                       /\ u.basis = "native" /\ all => u.total \in {{}, {Total(counts)}}
           useful == \E c \in DOMAIN costs : costs[c] # {} /\ counts[c] # {0}
       IN CASE complete -> [status |-> "complete", known |-> {Total(costs)}]
            [] ~complete /\ useful -> [status |-> "partial", known |-> {Total(costs)}]
            [] OTHER -> Unavailable

-----------------------------------------------------------------------------

\* register_rate: rates are added and never changed; one per effective time.
RegisterRate ==
  /\ Cardinality(rates) < MaxRates
  /\ \E s \in Schedules, from \in 0 .. MaxTime, until \in 1 .. MaxTime + 1 :
       /\ from < until /\ \A r \in rates : r.from # from
       /\ rates' = rates \cup {[from |-> from, until |-> until, schedule |-> s]}
  /\ UNCHANGED <<now, revision, run>>

\* snapshot_for: the latest schedule in force.
InForce == {r \in rates : r.from <= now /\ now < r.until}
Snapshot == {r \in InForce : \A x \in InForce : x.from <= r.from}

NewRevision ==
  /\ \E p \in Provider : revision' = {[provider |-> p, pinned |-> Snapshot]}
  /\ UNCHANGED <<now, rates, run>>

\* Google has no cache writes to report; OpenAI reports them if there are any.
WritesAreReported(p, t, fields) ==
  t.write5 + t.write1 > 0 => p # "google" /\ (p = "openai" => "write" \notin fields)

\* The report of a run is priced by the revision it executed, unless the
\* pinned schedule has expired by then.
IngestRun ==
  /\ run = {}
  /\ \E v \in revision, t \in Truths, fields \in Hidden :
       /\ WritesAreReported(v.provider, t, fields)
       /\ \E u \in Answers(v.provider, t, fields) :
            run' = {[truth |-> t, provider |-> v.provider, basis |-> u.basis, pinned |-> v.pinned, at |-> now,
                     billing |-> IF \E r \in v.pinned : now >= r.until
                                   THEN Unavailable ELSE Estimate(u, v.pinned, "selected")]}
  /\ UNCHANGED <<now, rates, revision>>

Tick == now < MaxTime /\ now' = now + 1 /\ UNCHANGED <<rates, revision, run>>

Next == RegisterRate \/ NewRevision \/ IngestRun \/ Tick

Spec == Init /\ [][Next]_vars

-----------------------------------------------------------------------------
(* Properties. *)

\* How a provider's tariff classes what was really used.  Cache writes of
\* OpenAI have no tariff; the runner's are of unknown lifetime.
Used(x) ==
  LET t == x.truth
      thinking == IF x.basis = "opencode_normalized" \/ x.provider = "google" THEN t.reasoning ELSE 0
      writes == IF x.provider = "anthropic" /\ x.basis = "native" THEN 0 ELSE t.write5 + t.write1
  IN [input |-> t.fresh, cache_read |-> t.read, reasoning |-> thinking,
      output |-> t.visible + t.reasoning - thinking, cache_write |-> writes,
      cache_write_5m |-> IF writes = 0 THEN t.write5 ELSE 0,
      cache_write_1h |-> IF writes = 0 THEN t.write1 ELSE 0]

\* What the pinned schedule charges for it; what has no price is left out.
Charge(x, r) ==
  LET prices == (CHOOSE t \in TierOf(r.schedule.tiers, {Prompt(x.truth)}) : TRUE).rates
  IN Total([c \in Category |-> {IF c \in DOMAIN prices THEN prices[c] * Used(x)[c] ELSE 0}])

\* A run gets a cost only from a schedule that was in force and that its
\* service tier and model fall under, whatever the answer left out; the cost
\* is never more than the schedule charges for what was really used, and is
\* called complete only if it is all of that (app/billing/CONTRACT.md, "zero-
\* filled counters ... cannot establish full provider consumption").
CostsAreTrue ==
  \A x \in run : \A cost \in x.billing.known :
    \E r \in x.pinned :
      /\ x.at < r.until
      /\ r.schedule.tier \in {"all", x.truth.tier}
      /\ x.basis = "native" => x.truth.model = "selected"
      /\ cost <= Charge(x, r)
      /\ x.billing.status = "complete" =>
           /\ cost = Charge(x, r) /\ x.basis = "native"
           /\ \A c \in Category : Used(x)[c] > 0 =>
                c \in DOMAIN (CHOOSE t \in TierOf(r.schedule.tiers, {Prompt(x.truth)}) : TRUE).rates
=============================================================================
