# Verification of driftplain-backend in TLA+

driftplain-backend recommends models for CI tasks, configures the agents that
run them in a project's Jenkins, and keeps the evidence behind the
recommendations. It is a FastAPI service on PostgreSQL, run in several
replicas, plus an agent image that Jenkins starts. Nearly all of its state is
in the database, so concurrency means: HTTP requests, scheduled jobs, operator
commands and agents, each with database sessions of their own, that meet in
rows, row locks, advisory locks and unique constraints. The models take a
transaction that locks first and commits once as one step, and everything that
is read, committed or sent separately as separate steps.

Every definition that models code is mapped to its lines in `PROJECT.json`;
the same file lists runs, mutants, hazards, findings and theorems.

## Inventory

| Component | State | Operations | What is hard | What makes it correct |
|---|---|---|---|---|
| Catalog import and refresh (`app/catalog/imports/pipeline.py`, `refresh.py`, `scheduled.py`) | state row per source, snapshots and lifecycles, report artifacts, audit, session advisory lock | import, refresh, record report, review, select, health | network inside the session, validators, rollback then bookkeeping, skewed host clocks, crashes | one live snapshot, no stale write-back, honest 304, honest freshness, append-only evidence, lock released |
| Fetch and adapters (`imports/fetch.py`, `adapters.py`, `b4.py`) | none | fetch, parse | redirects, limits, formats | bytes or one failure code |
| CI token and setup (`app/ci/service.py`, `app/projects/jenkins_service.py`, `app/auth/deps.py`, `app/api/execution.py`) | Jenkins connection with token hash | connect, setup, rotate, issue, authenticate | rows read before the lock, contract change under way, answer after commit | mint once and show it, explicit tokens change by rotation only |
| CI run ingest (`app/ci/service.py`) | runs, findings | ingest | duplicates, old contract, old revisions | checks hold at the insert; a run binds what it executed |
| Selections and revisions (`app/selections/service.py`) | selections, revisions, current pointer, runtimes | create, re-pick, edit, fetch configuration | locks on project, runtime, lifecycle | revisions immutable, evidence held |
| Failure diagnosis (`app/selections/diagnosis.py`, `agent/diagnosis.py`, `agent/execution.py`) | claims; an agent's progress | fetch, claim, invoke, report | lost and late answers, second launches, edits meanwhile | one invocation per failure; a finished report stays valid |
| Hourly LLM budget (`app/llm_budget.py`) | tally per hour | reserve, reconcile, release | replicas at the cap, hour boundary, kills | exact tally, admitted calls fit |
| LLM ingestion of sources (`app/ingest/service.py`) | documents, calls, catalog rows | ingest | check-then-act, three commits | one document per content |
| Chat (`app/chat/pipeline.py`) | messages, traces, calls | turn, opener | failures between commits | a turn is recorded with what it cost |
| Authentication and admission (`app/auth/`) | users, rate bucket, used challenges, operator | limit, register, log in, grant | capacity at the limit, first logins at once | capacity, unique identity, single use, one operator |
| Projects (`app/projects/service.py`) | projects | create, edit, delete | delete cascade, contract change | history survives edits |
| Quality feedback (`app/quality/service.py`) | verdicts, a run's gate | feedback | aggregate over concurrent verdicts | gate equals the recomputed one |
| Billing and savings (`app/billing/`, `app/savings/`) | none of their own | estimate, aggregate | missing usage, expired rates | never invent a cost |
| Catalog queries (`app/catalog/queries.py`, `pagination.py`) | none of their own | list, page, search | listings that change between pages | a walk is complete |
| Candidates and recommendation (`app/selections/policy.py`, `app/recommend/`) | none of their own | score, rank | ties, ambiguous evidence, order of rows | ranks do not depend on the order |
| Agent runners (`agent/`) | a child process, its event stream, a disposable tree, a mailbox | fetch, claim, run, bound, validate, report, deliver | ceilings racing exit, an editor that edits during checks, lost answers, hanging children | the result is about the final tree, never better than the evidence, and accepted |
| Demo, observability, schemas, storage, configuration, migrations, data | settings, serialisation, I/O | | | |

Interactions: a selection holds evidence that imports promote (shared lifecycle
rows); revisions made by selections are what agents fetch, claim and report;
the token and the contract of the project guard all three; chat and ingestion
spend from the budget; catalog readers page through what importers change. The
hazards each of these meets are listed, with their lines, under `hazards` in
`PROJECT.json`; those without a property carry the reason.

## Modules

| Module | Models |
|---|---|
| `EvidencePointer` | abstract: what readers of one catalog source may rely on |
| `CatalogImport` | import, refresh, review and selection of one source |
| `CiToken` | the CI token of one project and the requests that mint, rotate and use it |
| `AtMostOnce` | abstract: what the pre-invocation claim promises |
| `DiagnosisClaim` | agents, claim endpoint, report endpoint and owner around the failures of one project |
| `LlmBudget` | the hourly tally and the calls it fences |
| `LlmWork` | extends `LlmBudget`: ingestion, chat turns and posted catalog rows that make those calls |
| `Accounts` | admission, registration, Google sign-in and the operator |
| `ExecutionHistory` | one project: picks, revisions, runtimes, runs and feedback |
| `TaskContract` | what a configuration may ask for and what the server accepts as its result |
| `OpencodeStream` | what the reader makes of each event of OpenCode |
| `AgentRun` | one run of the agent by an execution configuration |
| `LegacyAgent` | one run of the agent's older review and scan |
| `AgentMain` | composes the two: the agent's command |
| `Billing` | rates, pinned schedules and the price of a run |
| `Ranking` | the candidates of a selection |
| `CatalogPages` | walks through listings that change meanwhile |
| `MC...` | symmetry and named sets for TLC |
| `..._proofs` | theorems, checked by TLAPS |

Each module has a section of faulty variants of some of its operators. They are
not used by the specification: each stands for a plausible bug, and
`PROJECT.json` (`mutants`) says which property detects it.

### CatalogImport

A worker is a process with one database session. `BeginCheck` is the
beginning of `_run`: the source's session advisory lock, then the host's clock,
then the state row (`view`), in this order. `Respond` is the network round
trip, with the ETag or Last-Modified rules of `_run` (`Sent`, `NextValidator`);
a validator is represented by the body it names. `Commit` is the success path
with `_promote` or `record_report`, one transaction. `Rollback` and
`RecordFailure` are the two halves of the failure path: the second is a new
transaction that reloads the row, so a crash can come between. `Release`
unlocks, `Crash` drops session and lock together as PostgreSQL does.
`BeginCommand`, `ReviewReport`, `SelectSnapshot` and `RejectCommand` are the
operator's commands; `select_snapshot` reads its clock before it waits for the
lock, so its time may be old. `Hold` is what `save_selection` does to the
lifecycle row. Times are natural numbers, 0 is NULL; a host's clock is within
`Skew` of the true one. Failure counters are reduced to zero or not zero, which
is all the code tells apart.

Left out: `last_promoted_at` and the audit rows of selections (nothing reads
them), retention reports (read-only), the content of snapshots.

### CiToken

A request has a session, and what it has loaded (`seen`) stays as loaded until
it ends: this is SQLAlchemy's identity map. `ci_setup` and `rotate_ci_token`
load the connection first and then lock the project (`BeginLegacy`,
`LockLegacy`); `_issue_token` locks first (`LockExplicit`). `MintToken` commits
and thereby unlocks; `Answer` builds the answer afterwards, which the legacy
endpoints may refuse. `Connect` is the unlocked read and write of
`connect_jenkins`; only the columns that it assigns are written.
`Authenticate` is `require_project_token`, `CheckReport` and `InsertRun` are
the two halves of `ingest_run` under the project lock. `AdoptExplicit` is the
first explicit selection of the project. A hash is represented by its token.

Left out: requests whose answer is lost on the way (the owner rotates), the
snippet, the cascade when a project is deleted.

### DiagnosisClaim and AtMostOnce

An agent is one launch of `explicit_main` for one failure, and `server` is its
claim request, which runs on whether or not the agent still waits. `CheckClaim`
and `InsertClaim` are two steps because `agent_config` commits in between.
`EndClaim` is any end of the wait: the answer, or a timeout at any moment, after
which the agent reports a skip. `Invoke` is the paid model call. `Deliver`
posts the report, `DeliverOther` posts any other well-formed report, such as an
archived one that is sent again by hand, with whatever it claims.
`NewRevision` and `SwitchRuntime` are the owner and the operator; a new revision may
concern another stage. `AtMostOnce` keeps only claims and invocations:
`Claimed` and `Invokers` are the refinement mapping.

Left out: logs, prompts, patches and usage (data of the report), projects that
move between tasks other than diagnosis, redaction.

### LlmBudget and LlmWork

`Reserve` is the atomic upsert of `reserve_tokens`, `Settle` the one of
`reconcile` or `release`, also of the release of a refused reservation, which
is a commit of its own. `Complete` and `FailCall` are the provider, `Die` a
killed replica or a failed settlement. `NextHour` is the clock.
`spent`, `calls` and `leaked` are history.

In `LlmWork` a request (`req`) goes through the steps of an ingestion, a chat
turn, a posted row or an opener, and makes its calls by the actions of
`LlmBudget`. `BookIngest`, `PutBlob`, `FlushDocument`, `CheckRow` and
`CommitRow` are the commits of `ingest_source` with what can fail between them;
the document is visible only with the first row's commit, and a second
ingestion of the source waits for it. `CommitRow` is `upsert_catalog_row` with
`_mirror_legacy_observation`: the figure is replaced, the observation is added
unless one with the same fingerprint exists. `Retrieve`, `Generate` and
`Persist` are a turn; its calls are booked together at the end. `Kill` may
come anywhere. `booked` is the sum of the `llm_call` rows, and `dropped` what the code may
lose (`Unbooked`): the calls of a replica that is killed before it books, and those of a question
that ends without a turn. What any other failure lost would break `BookedIsCharged`.
That a source is paid for twice is not prevented by the code, and no property forbids it.

### Accounts

`Attempt` is the upsert of `limit_auth_requests`: a bucket of tokens that
refills by the database's clock, which also may be set back (`StepBack`).
A registration is judged under its advisory lock in one step (`Judge`) and
written, committed and unlocked in another (`Finish`); the route's unlocked
look at the exact address comes before (`CheckRegistration`). A Google sign-in
is `Verify`, before any transaction and by the host's clock, then `Spend`, which
sweeps expired challenges and inserts its own, uncommitted, so that others that
want the key wait (`KeyFree`); then a sign-in, or a registration in the same
transaction. `BeginGrant` and `CommitGrant` are the operator command. `worst`
is the cost admitted less the refill, over the worst window of time that ends
now; `uses` counts the sign-ins a challenge paid for. The price of a request and
the refill are multiples of one unit, instead of floats.

### ExecutionHistory

A session that edits or fetches locks the project row (`LockProject`), then
the runtime row (`RequireRuntime`), and commits (`Save`, `Serve`, `SaveLegacy`);
`SwitchRuntime` waits for the runtime row only. `BeginFeedback` locks the run,
`Recompute` reads the verdicts, `CommitFeedback` writes. `DeleteProject` is
the cascade. A configuration is the default or one of `Config`; `Fits` says
what it is valid for. A request sends a configuration, an explicit null (`Default`)
or nothing (`None`), which `model_fields_set` tells apart: what is sent counts,
a null resets, and nothing carries the current one over where the capability
stays (`Effective`). The triggers that keep selections and revisions
immutable are what makes `Append` their only change.

### TaskContract, OpencodeStream and AgentRun

`TaskContract` has the two sides of the contract: `Configurable`, what
`configure` lets a selection ask for, and `Accepts`, what the ingest accepts
for it (status, evidence, checks, usage, gate). `OpencodeStream` is
`run_stream` of `agent/security_stream.py` as a function of its state and one event.

`AgentRun` is three processes: the agent (`pc`), the editor container with its
bridge (`editor`, `mail`, `tree`), and the clock (`Expire`). `Fetch` to
`Claim` precede any model. `Call` is the single request of a review or a custom
report; `Launch`, `ReadEvent`, `Tick` and `EndStream` are the launcher around OpenCode;
`Capture`, `Check` and `Settle` are `validate()`, first called while the editor
is frozen for a question of its own, and at last on the final tree.
`BuildResult` and `Deliver` are `agent/execution.py`. Errors are taken with the
status and exit code they end with; two errors that end alike are one
alternative. Every profile is `pending` at this commit, so no model would be
invoked: `Verified` says for which tasks the profile is taken as verified, and
the runs verify all.

A command whose name has more than 53 characters (`LongNames`) leaves no room
for the name of its log, and every validation with it fails (`CheckUnnamed`); a
configuration the API accepts without the environment of a test run is refused before
the model (`Launchable`; `MCBare` is such a start).

`AcceptedByTheServer` also relies on the environment assumption that digests
are of what they name, and not of redacted text (see the hazards).

### LegacyAgent and AgentMain

`LegacyAgent` is the review of one diff, and the scan: a loop of OpenCode
attempts that share their ceilings, with what an attempt said taken for a
refusal, findings or neither (`Heard`). An attempt may give several answers: the last that
parses is heard, and where stray text (`"junk"`) came before one, that one may be
lost and an earlier one (`earlier`), or none, be what is found. A row that the ingest would reject is
dropped before the gate. `AgentMain` chooses between the two as `main` does.

### Billing, Ranking and CatalogPages

`Billing` prices what a run really used (`Truths`) from what its provider's
answer shows of it: `Native` and `Normalized` group the categories as the
providers do, `Without` leaves counters out. A revision pins the schedule in
force (`Snapshot`), a report is priced by it unless it has expired.
`CostsAreTrue` compares the estimate with a reference that prices the truth.
`Ranking` computes the candidates for every order in which the evidence may be
read; `RanksAreEarned` states ranks without reference to an order. In
`CatalogPages` a page is a transaction of its own. A listing is a set of
keys; `steady` is what was listed ever since the walk began. A row whose key
moves (a model whose alias is resolved, in a search) may be missed, and a row
whose id is drawn before others but committed after them too: `WalkIsComplete`
claims neither.

## Runs

| Run | Question | Result |
|---|---|---|
| `catalog_structured` | structured feed, two processes on skewed hosts, three bodies of which one invalid | one live snapshot, honest 304; what looks healthy was answered within the limit on age and the skew |
| `catalog_report` | reviewed report source with two pages and holds, a server that answers 304 to anything | no stale write-back, attestations cover, evidence kept, refines `EvidencePointer` |
| `catalog_liveness` | two processes, two pages, every failure | the lock is always released; a page that stays is noticed |
| `token_lifecycle` | three requests, three tokens, contract change | checks hold, explicit tokens stable, tokens survive |
| `token_mint_once` | what `ci_setup` says: mint once | **violated** |
| `diagnosis` | two launches, two stages of one build, one re-pick | claimed authority, refines `AtMostOnce`, runs bind their claim, reports stay valid |
| `accounts` | two sessions, three addresses of which two are one, two subjects, one challenge | bounded and patient admission, distinct accounts within capacity, one operator, one timely sign-in per challenge |
| `history` | two sessions, a runtime that needs a configuration and one that does not, four revisions; configurations sent, null or left out | commits while runnable, configurations chosen, projects follow their pick, gates recomputed |
| `agents` | seven task profiles and the older review and scan, two steps, three tokens | accepted, about the final tree, within ceilings, zero is a delivered pass, clean is scanned, reported is paid; every explicit run ends |
| `config_accepted` | what `app/billing/CONTRACT.md` says: the field is negotiated | **violated** |
| `llm_work` | two replicas, one source, two benchmarks, two hours, calls that overrun their estimate | exact tally, the cap passed by overruns only, figures backed, charges booked |
| `reads` | every provider and pair of missing counters; every evidence; walks with two importers | costs true, ranks earned, walks complete |

Bounds. Two processes per source suffice for every conflict of two sessions,
as the lock admits one at a time; the clock goes to 2 where an order of three
times matters, and 1 elsewhere. In `catalog_structured` it runs on to 5 while the source
has had one body only (`OldIsPlain`, a constraint in `MCCatalogImport`): a refresh
is then missed by its age, and one tick short of it, with a skew of one either way.
Three requests allow one to overtake two that
are under way; three tokens allow two replacements. Two launches allow a
winner and a duplicate, of which either may have timed out; two stages of one
build allow a report to take the run of another's failure; two revisions allow
one re-pick, to another stage or back to the same (no guard compares more than
two). The theorems hold for all of these numbers.

`accounts`: two sessions suffice for every pair that meets under a lock or a
key; capacity 2 lets the last place be contended; a burst of three half-units
over a price of two reaches the cap, the empty bucket and a refill that is not
a multiple of the price; one step back shows each effect of a clock that moves
back. `history`: four revisions let a configuration be sent, carried, reset by a
null and left out again, and a re-pick skip over one of another capability.
A run is rated beside the first revision and an edit of it (`RatedEarly`), which
shares no row with the verdicts. `llm_work`: two estimates of 1 fill a cap of 2, and
calls cost up to 2, so that the bound 2 + 1 of `AdmittedCallsFit` is reached; one
completed call per hour and two hours let a reservation settle in
another hour than its own, and a request meet the leftovers of one that died;
extractions have nothing, a row and its correction, or rows of two benchmarks.
`agents`: two steps let a validation come between two events, three tokens lie
between what one step and two steps use; a step report is plain, with hidden
tokens, over a ceiling, incomplete or contradictory. `reads`: `MaxTime` 1 and two rates let a
schedule be superseded and expire around a report; pages of one row make every
boundary fall between two pages; three ids let an id be committed late.
`MaxCalls`, `MaxLost`, `MaxObserved`, `MaxServed` and `MaxRuns` bound history only. Symmetry is used in safety
runs only, over sets that no constant or operator tells apart.

All passing runs check for deadlock. A run that is over (`AgentRun`,
`AgentMain`) stutters explicitly; everywhere else something may always happen.

Type invariants of the modules with theorems, and what the theorems state beyond
the runs (`ChecksAgree`, `CheckTimesAdvance`, `SupersededAfterActivated`,
`PointerMovesExplained`, `OneInvocation`), are proved and not run again.

### Findings

Two findings have a run:

- `token_mint_once`: `ci_setup` reads the hash before it waits for the project
  lock and never refreshes it. Two concurrent first fetches both mint; the token
  shown first is dead. The explicit endpoint takes the lock first.
- `config_accepted`: the API puts `billingContractVersion` into every
  configuration; the agent accepts one exact set of keys without it and exits
  with 4. Only because every profile is pending does nobody meet this today. The
  run `agents` leaves the field out (`Besides = {}`), so that what comes after is checked.

The others are stated in the modules and listed under `findings`; TLC finds each
violated when it is added to the cfg of the run that instantiates its module
(`HardCap` with `MaxCalls = 2`):

- `MintedTokenIsShown` (`CiToken`): the hash is committed before the rest of the
  answer, which may be refused.
- `ClaimIsCurrent` (`DiagnosisClaim`): the locks under which a claim is judged
  are released before the claim is inserted. `OneInvocation` and `ReportsStayValid` hold all the same.
- `HardCap` (`LlmBudget`): a call can cost more than was reserved.
  `AdmittedCallsFit` has the bound that holds.
- `ChallengeSingleUse` (`Accounts`): a spent challenge can be swept while a
  session that accepted it is still on the network. `ChallengeSpentOnce` holds.
- `InvocationsAreReported` (`AgentRun`): contradictory counters of a broken
  event end the security run without a result.
- `ScanEnds` (`LegacyAgent`): the clock of a scan is looked at when a line arrives.
- `LastAnswerCounts` (`LegacyAgent`): the candidates of `extract_results` are blocks
  that a counter of quotes and braces finds in the whole text. A stray quote between
  two answers hides the later one, and the earlier is what the gate judges: clean,
  then a quote, then blocking is exit 0. `CleanMeansScanned` says what holds.
- `CeilingsAreShared` (`LegacyAgent`): one token and one step per further attempt
  beyond the ceilings; `ReportedIsPaid` has the bound that holds.
- `CriticalFails` (`LegacyAgent`): a critical row without a usable path is dropped
  before the gate.
- `SkippedIsStored`, `TaskOwnsOneGroup`, `OneOpener` (`LlmWork`): rows lost behind a
  known document; two benchmarks of one task; two openers.
- `ActiveIsLabelled` (`CatalogPages`): rows and the states that label them are
  read apart.

### Fairness

`FairSpec` of `CatalogImport` assumes that a process that holds the lock goes
on to answer, fail, commit or unlock: requests, statements and the job have
timeouts. `PageIsNoticed` assumes more, as its premise `Scheduled`: the
scheduler keeps starting refreshes, and upstream and database are not failing
during every one of them (strong fairness, as each attempt may fail).

`AgentRun` and `MainSpec` assume weak fairness of the agent's own steps, each of
which the program bounds by a timeout, and of time. Nothing is assumed of the
editor, the model, the provider or the bridge: `RunEnds` holds although any of
them may hang for ever. No other module states liveness: requests may be killed
and nothing retries them, by design.

## Proofs

Eight modules hold theorems, for every value of the constants, from the named
assumptions of the modules. `ImportAssumption`, `TokenAssumption`,
`DiagnosisAssumption`, `AccountsAssumption` and `HistoryAssumption` say that
NULL is none of the identifiers, and the types of the numbers; `BudgetAssumption`
that the callers are finitely many and tokens counted, `RowsAreRows` and
`RetriesAreCounted` (`LlmWork`) the types of what is extracted and posted;
`SetupsAreSetups`, `CeilingsArePositive` and `StepTokensAreCounts` (`LegacyAgent`) that
ceilings are positive and tokens counted; `StartsAreConfigurable`,
`ConfigurationsAreTyped` and `StepReportsAreCounts` (`AgentRun`) that a run
starts with a configuration the API accepts and that reports are counts;
`SchedulesAreOrdered`, `TruthsAreCounts`, `ProvidersAreKnown` and `TimeIsCounted`
(`Billing`) that the last tier of a schedule is unbounded, rates and counters are
natural numbers, and an answer always names its provider and basis;
`ModelsAreModels` and `PagesHaveRows` (`CatalogPages`) that models are finitely
many with unique ids and a page has at least one row; `RowsAreSources` and
`RuntimesAreKnown` (`Ranking`) that evidence and runtimes are finitely many, with
numbers for ids and scores, and an observation is of one model. TLC evaluates them all.

- `CatalogImport_proofs`. `SessionInv` is the core: the process that is not
  idle holds the lock (`HolderIsBusy`), and the row it loaded is the committed
  row (`SessionNotStale`), together with what a job carries in each phase. With it
  every write of the state row is a function of the committed row, and the
  others follow, each with the strengthening it needs: `ActiveIsTheLiveSnapshot`,
  `ChecksAgree`, `CheckTimesAdvance`, `SupersededAfterActivated`,
  `PointerMovesExplained`, `EvidenceIsKept`, `AttestationCoversActive`, and the
  refinement of `EvidencePointer`. `NotModifiedMeansAccepted` needs `ValidatorInv`
  (the validators of the row, and of a 304 in flight, are of what was accepted
  last), `HealthyMeansServed` needs `ServedInv` (the time a check read, and the
  recorded refresh, are ahead of the answer by no more than the skew): the limit holds up to
  the skew of the host that checked and of the one that reads, added.
- `CiToken_proofs`. `SessionOK` says what a holder of the project lock may rely
  on: the contract it checked and, for the explicit endpoints only, the hash it
  loaded. The asymmetry is exactly the finding `MintOnce`. From it follow
  `ChecksHoldAtInsert`, `ExplicitTokenIsStable` and `TokenSurvivesReconnect`.
- `DiagnosisClaim_proofs`. `AgentOK` ties a launch's phase to its request: only
  a granted request leads to the model, and a granted request's claim is in the
  table for good (`ClaimsAreFinal`). `OneInvocation` is not inductive by
  itself: it follows because a failure has one claim and the claim one holder.
  `ClaimsOK` is needed for foreign reports. The refinement of `AtMostOnce`
  follows action by action.
- `Accounts_proofs`. `Moves` states what any step may do to the rows, and
  `LockInv` that a session past its lock holds it. `GrantInv` and
  `RegistrationInv` follow from them: what was read under the lock (no operator
  yet, a free place, a free address) still holds at the write (`Fresh`).
  `SpendInv` follows a challenge: one session at most has spent it and not yet
  committed, and one that is swept is past its time. `RateInv` is arithmetic: what the
  worst window took beyond its refill and what the bucket holds lie within the burst, also
  when the clock steps back.
- `ExecutionHistory_proofs`. `IInv` is `TypeInv`, `TablesOK` (revisions, runs and
  the pointer refer to each other) and `SessionOK`, one part for each thing a
  session carries (`Loaded`, `Creating`, `Armed`, `Rating`, `Read`). Lemma `Alone`
  says what a session that holds a row may rely on; `Ends` that one that
  gives up relies on nothing. `IInv` was checked on the instance of `history` first.
- `LlmWork_proofs`. The tally is a sum over the open calls, so the module begins with
  what `SumFunctionOnSet` of the community modules is: `SumTakeOut`, `SumChange`,
  `SumSplit` and `SumSubset`. No induction theorem is used: a counterexample
  to a fact about sums would be a nonempty set of finite sets and have a smallest
  member (`SmallestSet`), from which one element can be taken out. `BudgetInv` is the
  types, `Fenced` (an idle caller holds nothing), `Covered` (what the callers
  may still take out of an hour is in it) and `TallyIsExact`: the last is not inductive
  without the others, as a settlement may subtract. `AdmittedCallsFit` holds
  for every overrun: `Metered` says that an answered call used at most its estimate
  and one overrun, and `Backed` that what an hour spent and what its calls still hold lie
  within its tally and one overrun for each call. `HardCap`, without the
  overrun, is the finding. `WorkUsesBudget` shows that requests reach
  the tally only by actions of `LlmBudget`, so what holds there holds here.
  `RequestsInv` says what a request may carry at each step (`Proper`) and carries
  `BookedIsCharged` as a balance; `CatalogInv` (one figure per benchmark, each
  observation under its own fingerprint) carries `FiguresAreBacked`. All of these were checked
  on the instance of `llm_work` first.
- `AgentMain_proofs`, in four parts.
  `LegacyAgent`: attempts share their ceilings, of which every further one is left
  at least one token and one step: `SharedBounds` says that what precedes
  attempt k used at most k-2 tokens and steps beyond the ceilings.
  `ReportedIsPaid` follows, and `CleanMeansScanned` from `VerdictIsSound` (what is
  judged was heard in the last attempt, `Cleared`) and `AnswerIsSaid` (an earlier
  answer can be found only where stray text was said).
  `AgentRun`: the core is `EditorInv`, the container runs exactly while
  its events are read, so the last validation sees a tree nobody edits any more.
  `TreeInv` says of which tree the evidence is, in every phase of a validation, and
  yields `CompletedNamesTheFinalTree` and `AnswersAreAboutOneTree`.
  `CompletedWithinCeilings` follows from `Sound`, an invariant of the event
  reader that every event preserves (one lemma for each), `SeenInv` for the
  requests and `FinishInv` from the end of the stream to the result.
  The result: `ClaimInv` (a diagnosis that runs has its claim), `EmptyInv` (a failed
  execution keeps no evidence and no report) and `CheckedInv` (the evidence of a
  completed one is `Validated`: a permitted tree, its patch, its artifacts under
  different names, one verdict for each command) say what a result is built from; one
  lemma for each part of `Accepts` then yields `AcceptedByTheServer`.
  `ZeroIsADeliveredPass` adds `ExitInv`.
  The command: `MainInv` says that the path not taken has nothing to show
  (`NoExecution`, `NoScanRun`), and `MainIsSafe` that `AgentMain`, which the runs
  check, keeps all of the above. The set of numbers in `Usages` is small there; all
  else is any value the assumptions allow.
- `Reads_proofs`. A walk (`WalksAreComplete`): keys are ordered totally (`BeforeOne` to
  `BeforeThree`), and the rows of a page are the first ones after the cursor, since
  counting the rows before a row is a bijection onto its places (`PlacesAreTaken`).
  `PagesInv` then says that what was shown is in order and ends at the cursor
  (`WalkInOrder`), that a row shown in a search never moves behind where it was,
  because aliases are only added and only raise a row (`RowsOnlyRise`), and that a
  row listed all the while is shown or still ahead (`SteadyIsShown`).
  A price (`CostsStayTrue`): for each category the count of the estimate is
  either unknown or what was really used (`NativeCounts`, `NormalizedCounts`),
  the tier chosen is the one of the true prompt (`TierIsRight`), so each known
  charge is true and an unknown one adds nothing (`TotalGrows`). `BillingInv` adds
  that what a revision pinned are schedules.
  Ranks (`RanksStayEarned`): what is scored does not depend on the order of the rows
  (`ReadingsAgree`), since the rows of one order are those of any other;
  `InOrder` sorts what is strictly and totally ordered (`InOrderSorts`), a rank
  computed along a sorted list counts the better ones (`RanksCount`), and pages add up
  to the list (`PagesAreTheList`). The last two concern recursive functions; their
  inductions go over a set of numbers (`Counting`), as a well-founded minimum,
  because the induction theorems of the library cannot be instantiated.

Only model-checked: what needs fairness (`LockIsReleased`, `PageIsNoticed`,
`RunEnds`), which is, like ENABLED, out of the prover's reach.

## Plan

In the order of what they would add:

1. An abstract register of accounts, refined by `Accounts`.
2. The sums of the savings dashboard over runs in several currencies.
3. Capability recommendation (`app/recommend/`), above `Ranking`.

## Not modelled

- Prompts, extraction schemas and the adapters of LLM providers: they turn text
  into text; what the system may conclude from an answer is modelled by the
  answers it may be (`Outputs`, `Answers`, `StepReports`).
- The text of SQL that the chat lets a model write and the read-only role
  that runs it: a guard on strings, behind a guard of the database.
- Redaction, cut and layout of logs and excerpts. A digest is of what it names.
- Storage clients, settings, serialisation, logging, metrics and tracing: I/O
  without decisions on shared state.
- Demo accounts, seeds, catalog data files and build scripts: data, and programs that run
  once by hand. Migrations are modelled where their triggers and constraints
  are guards of the models; the order in which they ran is not.
- A chat that is answered 429 after its first call has spent tokens is an
  interleaving of `LlmWork` (the call stays charged), but what the user sees is not
  stated.
- Scores of a benchmark that go back to an earlier value: the catalog keeps one
  observation per value, and no property says what its date should be.
