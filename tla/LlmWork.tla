------------------------------ MODULE LlmWork ------------------------------
(***************************************************************************)
(* The requests that work with the in-cluster LLM and the legacy catalog:  *)
(* ingestions of a source (app/ingest/service.py), questions of the chat   *)
(* (app/chat/pipeline.py, retrieve.py), the chat's opener, and rows posted *)
(* by an operator (app/catalog/service.py).  Their calls are the fenced    *)
(* calls of LlmBudget, whose callers they are; everything else happens     *)
(* between the calls, in transactions that may fail or never be finished.  *)
(*                                                                         *)
(* A row gives a model's score on a benchmark; the model is always the     *)
(* same one, and so is the task type, which owns at most one benchmark.    *)
(***************************************************************************)
EXTENDS LlmBudget, SequencesExt

CONSTANTS
  Source,      \* sources that may be ingested, after normalisation
  Benchmark,   \* benchmarks a row may be about
  Score,       \* scores a row may report
  Outputs,     \* what is valid in an extraction: sequences of rows
  Posts,       \* rows an operator may post
  Retries,     \* chat_retry_max
  MaxObserved  \* bound: observations up to which an operator posts

Row == [benchmark : Benchmark, score : Score]

ASSUME RowsAreRows == Outputs \subseteq Seq(Row) /\ Posts \subseteq Row
ASSUME RetriesAreCounted == Retries \in Nat /\ MaxObserved \in Nat

VARIABLES
  req,        \* the request every caller is in
  results,    \* benchmark_result: by benchmark, the score and its document
  observed,   \* catalog_observation: fingerprints, by benchmark
  docs,       \* committed source documents
  blobs,      \* sources whose bytes are stored
  extracted,  \* sources with a committed llm_call row
  booked,     \* tokens of the llm_call rows
  dropped,    \* history: tokens that were lost where they may be, see Unbooked
  chat        \* the project's conversation: openers, and whether there are turns

work == <<req, results, observed, docs, blobs, extracted, booked, dropped, chat>>
catalog == <<results, observed, docs, blobs>>

Idle == [kind |-> "none", at |-> "", source |-> {}, rows |-> <<>>, owner |-> {}, used |-> 0, tries |-> 0]

WorkInit ==
  /\ Init
  /\ req = [c \in Caller |-> Idle]
  /\ results = [b \in Benchmark |-> {}] /\ observed = [b \in Benchmark |-> {}]
  /\ docs = {} /\ blobs = {} /\ extracted = {}
  /\ booked = 0 /\ dropped = 0 /\ chat = [openers |-> 0, turns |-> FALSE]

Goes(c, step) == req' = [req EXCEPT ![c].at = step]

Asks(r) == r.kind \in {"sql", "answer"}

\* What is lost with a request that ends here: a question books its calls with
\* its turn, an ingestion its call before it does anything else.
Unbooked(c) == IF Asks(req[c]) \/ req[c].at = "answered" THEN req[c].used ELSE 0

Ends(c) ==
  /\ req' = [req EXCEPT ![c] = Idle]
  /\ dropped' = dropped + Unbooked(c)

At(c, kind, step) == pc[c] = "idle" /\ req[c].kind = kind /\ req[c].at = step

-----------------------------------------------------------------------------
(* The fenced call, as the requests make it. *)

WorkCall(c) ==
  /\ req[c].at = "call" /\ UNCHANGED <<catalog, extracted, booked, chat>>
  /\ \/ /\ \/ \E e \in Estimate : Reserve(c, e)
           \/ \E n \in 0 .. held[c].estimate + Overrun : Complete(c, n)
           \/ FailCall(c)
        /\ UNCHANGED <<req, dropped>>
     \/ /\ Settle(c)
        /\ IF pc[c] = "answered"
             THEN /\ req' = [req EXCEPT ![c].at = "answered", ![c].used = @ + actual[c]]
                  /\ UNCHANGED dropped
             ELSE Ends(c)

\* The replica is killed, in a call or elsewhere.
Kill(c) ==
  /\ req[c].kind # "none"
  /\ UNCHANGED <<catalog, extracted, booked, chat>>
  /\ req' = [req EXCEPT ![c] = Idle]
  /\ dropped' = dropped + Unbooked(c) + actual[c]
  /\ Die(c) \/ (pc[c] = "idle" /\ UNCHANGED vars)

-----------------------------------------------------------------------------
(* Ingestion. *)

\* A source whose document is known is skipped, before any call.
StartIngest(c, s) ==
  /\ At(c, "none", "") /\ s \notin docs
  /\ req' = [req EXCEPT ![c] = [Idle EXCEPT !.kind = "ingest", !.at = "call", !.source = {s}]]
  /\ UNCHANGED <<vars, catalog, extracted, booked, dropped, chat>>

BookIngestUncommitted(c) ==         \* rolled back with what comes next
  /\ At(c, "ingest", "answered")
  /\ extracted' = extracted \cup req[c].source /\ Goes(c, "put")
  /\ UNCHANGED <<vars, catalog, booked, dropped, chat>>

\* The call is booked in a transaction of its own.
BookIngest(c) ==
  /\ At(c, "ingest", "answered")
  /\ booked' = booked + req[c].used /\ extracted' = extracted \cup req[c].source
  /\ req' = [req EXCEPT ![c].at = "put", ![c].used = 0]
  /\ UNCHANGED <<vars, catalog, dropped, chat>>

\* The output is parsed, and the bytes are stored; storage may fail.
PutBlob(c) ==
  /\ At(c, "ingest", "put")
  /\ \/ /\ blobs' = blobs \cup req[c].source
        /\ \E rows \in Outputs : req' = [req EXCEPT ![c].at = "document", ![c].rows = rows]
        /\ UNCHANGED dropped
     \/ Ends(c) /\ UNCHANGED blobs
  /\ UNCHANGED <<vars, results, observed, docs, extracted, booked, chat>>

\* The document is flushed, and not committed before its first row is: a
\* second ingestion of the source waits for that, and then fails.
Flushed(s) ==
  \E c \in Caller : req[c].at \in {"first", "first row"} /\ req[c].source = {s}

FlushDocument(c) ==
  /\ At(c, "ingest", "document")
  /\ \E s \in req[c].source :
       /\ ~Flushed(s)
       /\ IF s \in docs THEN Ends(c) /\ UNCHANGED docs
          ELSE IF req[c].rows = <<>> THEN Ends(c) /\ docs' = docs \cup {s}
          ELSE Goes(c, "first") /\ UNCHANGED <<docs, dropped>>
  /\ UNCHANGED <<vars, results, observed, blobs, extracted, booked, chat>>

-----------------------------------------------------------------------------
(* One row: the check, then the writes and the commit. *)

SumOfObservations == SumFunction([b \in Benchmark |-> Cardinality(observed[b])])

\* A row posted by an operator, without a document.
StartPost(c) ==
  /\ At(c, "none", "") /\ SumOfObservations < MaxObserved
  /\ \E row \in Posts :
       req' = [req EXCEPT ![c] = [Idle EXCEPT !.kind = "post", !.at = "next", !.rows = <<row>>]]
  /\ UNCHANGED <<vars, catalog, extracted, booked, dropped, chat>>

\* The benchmarks that measure the task now.
Owners == {b \in Benchmark : results[b] # {}}

\* _assert_task_owns_one_group reads any one row of the task.
CheckRow(c) ==
  /\ pc[c] = "idle" /\ req[c].at \in {"first", "next"} /\ req[c].rows # <<>>
  /\ LET benchmark == Head(req[c].rows).benchmark
     IN \/ /\ Owners = {} \/ benchmark \in Owners
           /\ Goes(c, IF req[c].at = "first" THEN "first row" ELSE "row") /\ UNCHANGED dropped
        \/ Owners \ {benchmark} # {} /\ Ends(c)
  /\ UNCHANGED <<vars, catalog, extracted, booked, chat>>

\* The document a row is linked to; one without leaves an earlier link alone.
Linked(c, b) ==
  IF req[c].source # {} THEN req[c].source ELSE UNION {r.doc : r \in results[b]}

FingerprintWithoutScore(b, r) == <<b>> \o SetToSeq(r.doc)

\* Non-null values, in order.
Fingerprint(b, r) == <<b, r.score>> \o SetToSeq(r.doc)

\* The row replaces the figures of its identity and is mirrored as an
\* observation, unless one with these values exists; an error rolls back.
CommitRow(c) ==
  /\ pc[c] = "idle" /\ req[c].at \in {"first row", "row"}
  /\ \/ LET b == Head(req[c].rows).benchmark
            r == [score |-> Head(req[c].rows).score, doc |-> Linked(c, b)]
            seen == \E o \in observed[b] : o.fingerprint = Fingerprint(b, r)
            rest == Tail(req[c].rows)
        IN /\ results' = [results EXCEPT ![b] = {r}]
           /\ observed' = IF seen THEN observed
                          ELSE [observed EXCEPT ![b] = @ \cup
                                  {[fingerprint |-> Fingerprint(b, r), figures |-> r]}]
           /\ docs' = docs \cup req[c].source
           /\ IF rest = <<>> THEN Ends(c)
              ELSE req' = [req EXCEPT ![c].at = "next", ![c].rows = rest] /\ UNCHANGED dropped
     \/ Ends(c) /\ UNCHANGED <<results, observed, docs>>
  /\ UNCHANGED <<vars, blobs, extracted, booked, chat>>

-----------------------------------------------------------------------------
(* The chat. *)

StartQuestion(c) ==
  /\ At(c, "none", "")
  /\ req' = [req EXCEPT ![c] = [Idle EXCEPT !.kind = "sql", !.at = "call", !.tries = 1]]
  /\ UNCHANGED <<vars, catalog, extracted, booked, dropped, chat>>

\* The first model's output: off topic or blocked by the gate, both final;
\* no query needed, or a query that ran; a query that failed and is tried
\* again while retries are left.
Retrieve(c) ==
  /\ At(c, "sql", "answered")
  /\ req' \in { [req EXCEPT ![c].at = "persist"],
                [req EXCEPT ![c].kind = "answer", ![c].at = "call"],
                IF req[c].tries <= Retries
                  THEN [req EXCEPT ![c].at = "call", ![c].tries = @ + 1]
                  ELSE [req EXCEPT ![c].at = "persist"] }
  /\ UNCHANGED <<vars, catalog, extracted, booked, dropped, chat>>

Generate(c) ==
  /\ At(c, "answer", "answered") /\ Goes(c, "persist")
  /\ UNCHANGED <<vars, catalog, extracted, booked, dropped, chat>>

\* The turn and the tokens of all its calls, in one transaction.
Persist(c) ==
  /\ pc[c] = "idle" /\ req[c].at = "persist"
  /\ \/ /\ booked' = booked + req[c].used /\ chat' = [chat EXCEPT !.turns = TRUE]
        /\ req' = [req EXCEPT ![c] = Idle] /\ UNCHANGED dropped
     \/ Ends(c) /\ UNCHANGED <<booked, chat>>
  /\ UNCHANGED <<vars, catalog, extracted>>

\* A conversation that is read without messages gets an opener.
StartOpener(c) ==
  /\ At(c, "none", "") /\ chat = [openers |-> 0, turns |-> FALSE]
  /\ req' = [req EXCEPT ![c] = [Idle EXCEPT !.kind = "opener", !.at = "seed"]]
  /\ UNCHANGED <<vars, catalog, extracted, booked, dropped, chat>>

SeedOpener(c) ==
  /\ At(c, "opener", "seed")
  /\ chat' = [chat EXCEPT !.openers = @ + 1] /\ req' = [req EXCEPT ![c] = Idle]
  /\ UNCHANGED <<vars, catalog, extracted, booked, dropped>>

-----------------------------------------------------------------------------

WorkNext ==
  \/ \E c \in Caller :
       \/ WorkCall(c) \/ Kill(c) \/ BookIngest(c) \/ PutBlob(c) \/ FlushDocument(c)
       \/ StartPost(c) \/ CheckRow(c) \/ CommitRow(c)
       \/ StartQuestion(c) \/ Retrieve(c) \/ Generate(c) \/ Persist(c)
       \/ StartOpener(c) \/ SeedOpener(c)
       \/ \E s \in Source : StartIngest(c, s)
  \/ NextHour /\ UNCHANGED work

WorkSpec == WorkInit /\ [][WorkNext]_<<vars, work>>

\* Every figure the catalog shows has an observation of exactly that figure;
\* and a document a figure or a skip rests on is one whose bytes are stored
\* and whose extraction was booked, whatever failed or died in between
\* ("a failed put leaves no catalog change behind", app/blob_store.py).
FiguresAreBacked ==
  /\ \A b \in Benchmark : results[b] \subseteq {o.figures : o \in observed[b]}
  /\ docs \subseteq blobs \cap extracted
  /\ \A b \in Benchmark : \A r \in results[b] : r.doc \subseteq docs

\* The llm_call rows add up to what the provider charged, and a call is lost
\* to them only with a replica that is killed before it books, or with a question
\* that ends without a turn: an ingestion that fails after its call, however it
\* does, loses nothing, and a turn counts all its calls, the queries that failed
\* included (_persist_turn, ingest_source).
BookedIsCharged ==
  SumFunctionOnSet(spent, Hour)
    = booked + dropped + SumFunctionOnSet([c \in Caller |-> req[c].used + actual[c]], Caller)

\* A task type never has two benchmarks (TaskBenchmarkConflict).
TaskOwnsOneGroup == Cardinality(Owners) <= 1

\* An ingestion whose document is committed goes on to its last row: the source
\* is skipped from then on, so a row that is left is never stored ("One bad row
\* never sinks the whole ingest; the valid rows still upsert", app/ingest).
SkippedIsStored ==
  [][\A c \in Caller : req[c].kind = "ingest" /\ req[c].at = "next" => req'[c].at # ""]_req

\* A project without messages gets one opener.
OneOpener == chat.openers <= 1
=============================================================================
