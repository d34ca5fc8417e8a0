# A TLA+ model of invoice-ocr-poc

The program is a Go service. A client uploads the picture of an invoice or a
receipt to `POST /api/v1/image/processor` and gets a 202 with an id; a pipeline of three
worker stages reads the text (Tesseract, Ollama, OpenRouter), extracts items and
totals, asks an external judge (Jev) about them, and saves the outcome; the
client polls `GET /api/v1/invoices/:id`. This directory holds TLA+ specifications
of that code (paths below are relative to `src/`), the TLC configurations that
check them, and theorems about them that TLAPS proves.

Checking: `tlc -config X.cfg M` for the runs of the table below, `tlapm M.tla`
for a proof module.

## 1. Inventory

| Part | Code | State | Operations | What makes it correct |
|---|---|---|---|---|
| Worker pipeline | `internal/worker/pool.go` | three bounded channels, `started`, `stopped`, the base context of all jobs, goroutines | `Start`, `Enqueue`, `runStage`, the closers of `startStage`, `Shutdown` | no send on a closed channel, no double close; a job has one owner, is neither lost nor repeated, passes the stages in order; contexts are released once its work is over; `Shutdown` drains or forces, and returns |
| Store: write queue | `internal/store/store.go` | the channel `writes`, `stopped`, the SQL handle, the buffered `done` of every operation | `doWrite` (under `Create`, `Update`, `Delete`), `writerLoop`, `Close` | the answer is true; writes keep the order of their calls; `Close` waits for what was received; nobody is stuck |
| Store: PostgreSQL | `internal/store/postgres.go` | the same | batch operations through the same `doWrite` | as above |
| Invoice service: uploads and stages | `internal/invoice/service.go` | the upload on disk, the row, the shared `*store.Invoice`, hop and job contexts | `Enqueue`, `rollbackEnqueue`, `StagePreprocess`, `StageOCR`, `StageJev`, `fail` | file, row, job and HTTP answer agree; a client sees a status go forward only |
| Invoice service: what the stages compute | same file | text, extract, judgment, cache hit and charges of a job | `recognizeCascade`, `applyOpenRouterOCR`, `judgeWithAssist`, `applyCacheHit`, `applyOpenRouterUsage`, `applyJevUsage`, cache `Set` | what is saved as judged is what is saved as read, and what is charged is shown once |
| OCR cache | `internal/cache/` | entries by hash of the text, ages, counters; the Redis connection | `NewRedis`, `Get`, `Set`, `Close` | an entry belongs to the text it is filed under |
| Jev client and analysis | `internal/jev/` | attempts of a request | `Evaluate`, `post`, `compose`, `Explain` | bounded repetitions for the right reasons; the error says why; the analysis agrees with the stored verdict |
| Text cleaning and extraction | `internal/ocr/clean.go`, `internal/extract/extract.go` | loop variables | `CleanText`, `Parse`, `Incomplete` | an amount is an item or a total, under the right name; cleaning loses nothing |
| HTTP server | `internal/httpserver/server.go` | requests and their contexts | `processImage`, read-only handlers | a 202 has a job, a 503 leaves nothing |
| Start and stop | `cmd/api/main.go` | what is open, servers, signals, deferred closes | `run` with its early returns, `shutdown` | server, pipeline, cache and store stop in this order; whatever way `run` ends, what it opened is closed |
| OCR engines | `internal/ocr/` | none | `Recognize` | answer or error |
| OpenRouter assistant | `internal/openrouter/` | none | `Assist` | answer or error |
| Preprocessing | `internal/preprocess/` | none | `Prepare` | the path, or the end of its context |
| Configuration | `internal/config/config.go` | values read at the start | `Load`, `mergeDotEnv`, `dotenvValue`, `resolveWorkerCount`, `resolveDuration`, `resolveAPIKey`, `stripQuotes` | what is accepted is what the rest of the program can run with; precedence of the sources |
| HTTP client | `internal/httpclient/` | none | a constructor of transport settings | |
| Scripts, accuracy test, `.agents` | | none | | not part of the running program |

### How the parts interact

* A handler calls `Service.Enqueue`: write the file, `Store.Create` the row,
  `Pipeline.Enqueue` the job. If the pipeline refuses (full, stopped, request
  over), `rollbackEnqueue` deletes the row and the file.
* The handler and the workers hold the **same** `*store.Invoice`; `Update` saves
  it in full, from the writer goroutine, at the moment the writer runs.
* Each stage worker receives a job, runs its stage function and sends the job on
  the next channel, with no timeout but the forced stop. Stage functions
  save through `Store.Update`, which is a call of `doWrite`.
* `StageOCR` fills the job's text and looks in the cache; `StageJev` applies the
  hit, or calls OpenRouter, then assistant and judge in two goroutines, saves,
  and stores the cache entry.
* `main` loads the configuration, opens store and cache, starts the pipeline and then
  the listeners; each of these may fail and end the start. It stops the HTTP server, then the pipeline, and defers the closing of
  cache and store. A failing pprof server takes a shorter way, with the
  listener open.

### What is hard here

* **Interleavings**: handlers inside `Enqueue` while `Shutdown` closes the
  channel; workers blocked on full channels during a stop; a blocking send with
  a mutex held (`doWrite`); two goroutines that change and judge one extract;
  the handler reading an invoice that a worker is writing.
* **Contexts** that end at any time: of the request, of a hop, of a job, of all
  jobs. A call of the store abandoned by its caller may still commit.
* **Partial failure**: file, row, channel and cache change one after the other.
* **Stops**: graceful, forced after the drain timeout, by a failing server, by a
  kill. Nothing reads the rows an earlier process left.
* **External services** that lose, delay or garble answers.
* **Fallbacks on fallbacks**: a setting may come from the environment, from either of two
  files, from an older name, from a default, and for API keys in another order, for
  which the file is parsed a second time.
* **Two places for one rule**: `compose` and `Explain`; the key a text is filed
  under and the key it is looked up with.

`PROJECT.json` lists these as 36 hazards, each at its line.

## 2. Plan

| | Modules | State |
|---|---|---|
| A | `Pipeline`, abstract `JobService`, `PipelineRefinement`, proofs | done |
| B | `WriteQueue`, abstract `AtomicWrites`, `WriteQueueRefinement`, proofs | done |
| C | `InvoiceLifecycle` over the promises of A and B, `LifecycleRefinement`, proofs | done |
| D | `OcrCascade`: what the stages compute, with the cache; proofs | done |
| E | `JevClient`, `Verdict`, proofs | done |
| F | `ReceiptText`: the loops of cleaning and parsing; proofs | done |
| G | `Config` and `Service`: configuration, the start, the deferred calls; proofs | done |
| H | charges: what OpenRouter and the judge charge, over errors, a second judgment and cache hits (in `OcrCascade`) | done |
| I | the fields of the assistant's JSON (`parseAssist`, `extractChanged`) | left out, section 7 |

Order: first what every upload goes through (A, B, C), then what is computed for
it (D, E, F, H), then the periphery (G). Abstract specifications exist where a
package promises something to the others: `JobService` (pipeline) and
`AtomicWrites` (store). `InvoiceLifecycle` uses the two packages through these
promises rather than through their goroutines, and it is checked, and proved,
that it uses jobs as `JobService` allows and writes as `AtomicWrites` allows. `Service` composes `InvoiceLifecycle`
with `Config` and the rest of `main`, and implements `InvoiceLifecycle`.

## 3. Modules

**Pipeline** (`pool.go`). An actor with a program counter for every call of
`Enqueue` (`epc`), every worker (`wpc`, `held`), every closer goroutine
(`closed`) and every call of `Shutdown` (`spc`). A step ends at the next place
where another goroutine can be seen: a lock, a channel operation, the call of a
stage function, a wait. `chan` holds the contents of `ingest`, `s2`, `s3`, and
`closes` counts `close()` calls, so that a second close or a send on a closed
channel, which Go answers with a panic, are visible states. The mutex is a
predicate of the program counters (`MuFree`). A select with several ready cases
is several enabled actions; `default` requires that no other case is ready.
`Start` is called once by `main` before it serves; it is an action because
`Enqueue` and `Shutdown` test `started`. The job's deadline is not here: `pool.go`
creates it and never looks at it. The caller's context may be done at any time.

**JobService** is the same package without goroutines: jobs are accepted or
rejected, accepted jobs are finished, a stop ends the accepting, only a forced
stop drops jobs, and when the service is down nothing accepted is unfinished
unless it was forced. **PipelineRefinement** maps the pipeline to it.

**WriteQueue** (`store.go`). An actor for every `doWrite` call (`cpc`), the
writer and every `Close` (`kpc`). `Receive` is the rendezvous on the unbuffered
channel. `GiveUp` is the second case of the last select: the caller leaves and
the operation stays with the writer. `log` and `before` are history variables:
commits in order, and what had returned when a call was made. **AtomicWrites** says
the same without the queue: a write happens at once between call and return, or
after it if the caller's context ended; **WriteQueueRefinement** maps to it.

**InvoiceLifecycle** (`server.go`, `service.go`, `main.go`). For each upload the
handler (`hpc`, `resp`, `said`, `gone`), the three copies of its state (`file`,
`row`, `mem`), the job (`jpc`, `expired`) and its write (`op`, `ans`), then main's
`phase`. A write is in three steps, as the queue has it: handed over (or refused),
executed, its answer taken (or abandoned). `Update` saves the shared invoice as
it is when the writer runs, hence the row gets `mem[i]` in `Execute`.
A commit after the caller has left is possible; the driver's own look at the
context is covered by the error case of `Execute`. `UploadRefused`
stands for the refusals before anything is kept (method, type, size) and for a
file that cannot be written. A restart is not an action: the new process does not look at
the rows of the old one, so that what a kill leaves behind stays.
**LifecycleRefinement** maps jobs and stop to `JobService`, and each upload's four
writes (`create` and `delete` of the handler, `mark` and `save` of the stages) to
`AtomicWrites`: what the callers have been told is read off the places of handler and
job, what has been committed off the row. So the description of the store inside
`InvoiceLifecycle` (`Sends`, `Returns`, `Execute`, `Exit`) allows nothing that the write
queue is not shown to promise.

**Config** (`config.go`) is `Load` as operators, without state. A source says about a
key a word, or how a number stands to the key's range; `Setting` is the precedence
of environment, first file that is there, default; `KeyFrom` the other one,
for API keys; `Resolved` the fallback of a newer name on an older one; `Accepts` the
refusals; `ConfigOf` what `main` hands on, which parts it opens, and which source
an API key comes from. A file is a sequence of lines, because two readers disagree about
them: `Decoded` is viper's decoder (external; `export KEY=`, `KEY: `, any letter case,
trailing comments, the last of several lines), `DotenvValue` the program's own
(`KEY=` as it stands, comment included, the first of several lines).

**Service** (`main.go`) is the process: `InvoiceLifecycle` with three variables more.
`start` is the step of `run` that comes next, `cfg` what `Load` made of the sources, `open` what
holds connections. Each step of the start may fail; a `NewRedis` without an answer
leaves its client behind (`"unanswered"`); `Fail` is the deferred `st.Close` of a
start that does not get to the pipeline. From the pipeline's start on (`"pprof"`)
the port is open, so that uploads come before `run` is at its select; a signal
waits in the context until then (`Selects`). `PprofRefused` is a profiler's address
that is no loopback, which stops a service that has just begun. The deferred
calls run last to first: the cache (`CloseCache`), then the store.

**OcrCascade** (`service.go`, `internal/cache`). Two jobs (or more) through the
engine cascade, the lookup, OpenRouter, assistant and judge, the save and the
cache. A text is a member of a small set, classified by length and parse; an
extract stands for items and totals; a judgment is the pair of text and extract
that was judged, so that "the judgment is of this invoice" is an equation.
Engines and services answer anything, or an error. A reply of OpenRouter charges a
number, with its answer or with its error, and the judge charges what its question is
worth (`Tokens`); the invoice shows both (`router`, `jev`). A reading that comes to
nothing loses its charge (`OpenRouterRecognize`), an assistant's error keeps it, and
a second judgment brings its own (`UsageAgain`). `MemoryCache.Get` is in two steps
(`Lookup`, `Evict`): it deletes by key what it found too old some time before.

**JevClient** (`jev/client.go`) is one `Evaluate` with the loop of `post`; the
service may have judged a request whose reply is lost. **Verdict** has `Compose`
and the questions and determinants of `Explain` (`explain.go`). Probabilities are in
hundredths, totals in cents; `UnevenPairs` names the pairs of totals exactly 0.05
apart whose float64 difference is larger than 0.05, so both roundings are covered.

**ReceiptText** (`clean.go`, `extract.go`, `trimOCRFences` of `ollama.go`). A line is what
the regular expressions say of it; of a fence, what follows its mark (`json`; the
program knows only `markdown`, and reads any other word as text). The actions are the
branches of the two loops, the variables their flags: `KeepLine` and `SkipLine` are
`CleanText`'s, `Cleaned` hands what it has kept to `Parse`, whose branches the
others are. `Means` says what a text means without a loop: what a line is depends on the
last line before it that says anything.

`MC*` modules give the constants and symmetries of the runs; `*Proofs` modules
hold the theorems. The `Fault...` operators are the forms some definitions take
under a plausible bug; each property is known to fail under one of them
(`mutants` in `PROJECT.json`). Nothing else uses them.

## 4. Runs

| Run | Asks | Bounds and why they are enough |
|---|---|---|
| `pipeline_safety` | ownership, order, contexts, closing, both kinds of shutdown, refinement of `JobService` | 3 jobs, 2+1+1 workers, one-slot channels, 2 `Shutdown` calls: a full channel, a blocked sender, two workers of a stage in a race and a second `Shutdown` all occur. `IngestBuffer = 0` exercises `applyDefaults`. Jobs are interchangeable (symmetry) |
| `pipeline_live` | shutdown and enqueue return; jobs settle if stages come back | 3 jobs, one worker each: a hanging OCR worker, a full `s2` and a prep worker blocked on it. No symmetry, being liveness |
| `write_queue` | truth and order of the answers, closing, refinement of `AtomicWrites`, nobody is stuck | 3 calls, 2 `Close`: one with the writer, one in its send with the lock, one waiting for the lock; any may give up |
| `lifecycle_safety` | file, row, job, answer and stop agree; pipeline and store are used within `JobService` and `AtomicWrites` (`KeepsPromises`) | 2 uploads with every stop, leave, deadline and store error; they meet only in the stop, which waits for all. |
| `service` | what `Load` accepts can be run, with the file's API key; what is open when; an accepted upload gets its result; a stop ends | 1 upload, and every configuration that up to three lines out of 50 make, in every order, in the environment and two files (40,130 of them): a backend of each kind, values out of range and garbled, older names under newer ones, an API key in every form, a file that cannot be read. Keys are resolved one at a time, and no rule looks at more than three lines for one key. Of the second file four keys suffice: which file is read does not depend on them |
| `cascade_safety` | judgment, items, charges and cache entries agree | 2 jobs, 3 texts (too short; incomplete parse; complete parse), 3 extracts, every backend and configuration: one job fills the cache, the other finds, misses, or evicts. A reply of OpenRouter charges 0 or 1, the judge a different number for each extract: a lost, doubled or foreign charge differs |
| `jev` | repetitions, errors, return, explanation of the verdict | 3 attempts (the code's number); every combination of probabilities 0, 0.50, 0.60 (0 is also the missing answer; both bars are strict), so at and below each bar, and of totals equal, 0.05 and 0.10 apart |
| `receipt_text` | what the loops read against what a text means; what cleaning may change | all texts of up to 4 lines of 13 kinds: a flag is set by one line and used or reset by a later one, with two lines in between |
| `answer_says_queued`, `queue_full_rolls_back`, `timeout_is_failed`, `repeat_hits` | statements of tests and documents that the code does not keep (section 6) | one upload; two jobs |

`MaxRetries` and the buffers are bounds in the code; the only bound of a model
that is not in the code is `MaxLines` of `ReceiptText`. All other state spaces are
finite because the set of calls, jobs or uploads is.

`Finished`, `Terminated` and `Over` are the ends of the programs, written as
stuttering actions so that any other deadlock is found. `write_queue` is checked
without TLC's deadlock check: there a stuck goroutine is what `CallsReturn`
would report.

### Fairness

* `Pipeline!Fairness`: goroutines that can take a step take it; a timer
  fires; a stage function returns **once its context is cancelled** (it passes
  it to every engine, HTTP request and store call). No stage function has to return
  otherwise; `AcceptedSettles` has that assumption in its statement. Weak
  fairness is enough everywhere: no Go select is assumed to be fair between cases that
  come and go. Nobody has to upload or to call `Shutdown`.
* `WriteQueue!Fairness`: goroutines run and a statement ends (the drivers work
  under a busy timeout). The lock is assumed to be free again and
  taken in turn only as far as weak fairness goes: the calls are finite, as is
  every critical section. Nobody has to give up, or to close.
* `Service!SFairness`: handlers, stages, the writer, and `run` once it is stopping. A
  statement and an engine's call end, as each has a timeout of its own. No step of
  the start has to be taken (a database may not answer), no client, signal, timeout
  or kill has to come. So the result of an accepted upload does not depend on its
  deadline, nor the end of a stop on the drain timeout.
* `JevClient!FairSpec`: the client runs, its timer and its deadline fire
  (`evaluateJudge` sets one). The service need not answer.

## 5. Proofs

All theorems hold for every value of the constants, under the named assumptions
of the modules (sorts of the constants; `NoJob` is no job, counts are integers;
`MaxRetries` is positive; the invoices and calls may be infinitely many).

* **PipelineProofs**: `TypeOK` first, then `IInv`. `Control` ties lock, closes and
  exits together: a `Shutdown` that closes excludes an `Enqueue` at its select, stage
  `s + 1`'s channel is closed exactly if the closer of `s` is through, and a worker that
  left without a forced stop left an empty closed channel. `Progress` says for each
  place how many stage functions have succeeded. With `NeverShared`, `NeverLost` and
  `ContextLifetime` this is inductive. `GracefulDrain` alone is not: that every
  closer is through means something only because each worker's exit is
  remembered in `Control`. `NoSendOnClosed` follows for each of the two sends.
* **PipelineRefinementProofs**: every step of the pipeline is a step of
  `JobService` or a stutter, from `IInv`.
* **WriteQueueProofs**: `Gate` (closing and lock), `Place` (a call and its answer are in one
  place), `Answered` (a buffered "ok" is exactly a commit) and `Queued` (a call the
  writer has taken up finds no earlier one still with the writer) make
  `AnswersTrue` and `NoOvertaking` inductive. `QueueRefinement` maps to `AtomicWrites`.
* **LifecycleProofs**: the invariant says for each place of handler and job what
  row, shared invoice and pending write can be, and what main has waited
  for in each phase. An abandoned write (`Late`) keeps the old row until it
  commits, and no other write of that row starts meanwhile: that is `OneWriter`,
  and from it `StatusForward`. `UploadsAreWhole` and `ResultsAreSaved` follow, and both
  refinements use the same (`UsesPackages`). For `UsesAtomicWrites` each action has a lemma
  saying which call it begins, answers, abandons or commits. A late commit is a step of
  `AtomicWrites` only if its caller was told of its context and of nothing else, so
  `Late` says that too.
* **ServiceProofs**: every step of the process is a step of `InvoiceLifecycle` or none
  (`ServiceLives`), so that the safety theorems of `LifecycleProofs` hold of the process
  (`ProcessKeepsUploads`).
  `Opened` and `Kept` say what is open by the place in the start and by the phase of the
  stop; `PartsOutlive` needs both, and `InvoiceLifecycle`'s own invariant for which
  stages may still run. `LoadSound` is reasoning about
  constants, for any sources: what is handed on stands in `Positive` or under a name that
  falls back on one; and if all lines for a key are alike to both readers, then so is the
  first, the one `DotenvValue` takes. It exists because files are finite sequences, which
  is `SourcesAssumption`.
* **CascadeProofs**: the invariant is a conjunct per job and one per cache entry.
  A job's text is its invoice's, its extract the parse of that text until the assistant
  answers (`Readable`); what was judged in parallel was judged on that parse
  (`Judging`); what is about to be saved is of one piece (`Saving`), as is any entry a job
  holds (`Holding`) or the cache has (`CacheOK`); `Charged` compares the sums. None of
  the four properties is inductive: each speaks of places late in the job, and the cache
  carries what one job has made to another.
* **JevProofs**: the number of requests against the loop variable, for every
  `MaxRetries`; that `Compose` and `Explain` agree, for all answers and totals; the
  reasons for a repetition; the types.

* **ReceiptProofs**: for texts of any length. What a loop has done with the lines behind
  it is an invariant, so the loops themselves are the induction. `Parsing` says that
  items and total are what these lines mean and that the flags are what the last line
  that said something left; without the part on the flags it is not inductive. `Cleaning`
  says that what is kept is a selection of these lines, in their order, that leaves out
  silent ones only (`Keeps`). A selection has the same neighbours (`SelectedBefore`), sells the
  same things in the same order (`SelectedCount`, by a bijection), so it means the same
  (`KeepsMeaning`); trimming, stripping and cutting at fences are selections (`TrimKeeps`,
  `StripKeeps`, `Fenced`), and so are selections of them. The least element of a set of
  numbers comes from the library's `NatLessThanWellFounded` and `WFMin`, which speak of
  sets and not of operators.

Some properties of the runs are conjunctions of smaller promises, which the proofs
take one by one: `LoadIsSound` (positive limits, the file's key),
`ShutdownKeeps` (what a graceful stop drains, what a stop leaves
quiet), `ClosesSafely` (no send on a closed channel, no second close, the handle
outlives the writes), `UploadIsWhole`, `ResultsReachRow`, `ChargesAreShown`. The
inductive invariants as a whole are proved and are not properties of a run.

Only model-checked: the liveness properties `CallsReturn`, `AcceptedSettles`, `StopEnds` and
`EvaluateReturns` (fairness and ENABLED are beyond the prover). Every other property of a
passing run is a theorem.

## 6. Where code and documents disagree

Each is a run that TLC must find violated.

* `answer_says_queued`: `processImage` reads the status of the invoice after it handed
  it to the workers; the 202 can say `processing`, `done` or `failed`.
* `queue_full_rolls_back`: the rollback deletes under the request's context; if
  the client has left, the row stays `queued` and its file is gone.
* `timeout_is_failed`: `fail` saves under the context whose end it reports; a job
  that ran into its deadline stays `processing` in the database.
* `repeat_hits`: a text replaced by OpenRouter's is filed under the new text and looked up
  under the local one, so that the same receipt never hits.

Seen while modelling and not stated as runs:

* `README.md:108` says that a cache hit skips Ollama, but the lookup needs the text of
  the whole engine cascade (`Lookup` comes after `Ollama`).
* A job whose deadline passes while it waits is refused its first `Update`, and the `fail`
  after it its second: the row stays `queued`. `ResultsReachRow` and `AcceptedSettles` speak
  of jobs that were refused no write; of this one `StatusForward` says that no later stage takes it to a result.
* The memory cache's `Get` can delete an entry younger than the one it read (`Evict`).
* `JOB_QUEUE_SIZE` and `WORKER_COUNT` are validated and not used; `README.md:85` calls the
  first the job buffer, whose size is `INGEST_BUFFER`.
* `Load` "overlays process environment" over the file (`config.go:145`); for API keys
  it is the file that wins, where both of its readers read the line alike
  (`LoadIsSound`, and `config_test.go:163` with a plain line). Of
  `export TYPESAFE_API_KEY=new` only viper knows, so that `resolveAPIKey` gets nothing from
  `dotenvValue` (`config.go:546`) and falls back on viper's order, in which a stale key in
  the environment wins (`KeyFrom` says `"environment"`).
* A garbled `OCR_MIN_CONFIDENCE` is 0, which is in range and switches the bar off; a
  garbled count or duration is refused, as 0 is.
* A hop's default of 120 s for Ollama is longer than the job's 90 s, so that a stuck call
  does hold the job until `JOB_TIMEOUT` (`docs/performance.md:101` says it does not).
* PostgreSQL's writes go through the one writer goroutine, too
  (`docs/performance.md:17` says parallel writes).
* A reply of OpenRouter's engine without text is charged and not shown, and so is a
  first judgment that a second one replaces (`RouterIsCharged`, `ChargeIsOfJudgment`);
  `jevCostUSD` estimates anew where the judge reported 0.
* `NewRedis` drops the client whose ping fails without closing it (`"unanswered"`).
* `OpenPostgres` sets session parameters on one connection of its pool
  (`postgres.go:98`); `BatchCreate`'s "single transaction" (`postgres.go:140`) is one per
  batch of 100 under `SkipDefaultTransaction`. Nothing calls it.
* An empty pair of fences leaves one of them in the text; a payment line with an
  amount ("Dinheiro 7,00") is an item, as only one without an amount announces a total.

## 7. Not modelled

* Durations, the confidence number, the risk label and the text of notes: data that no
  step looks at. Token prices: a charge is one number.
* The fields of the assistant's JSON and of the judge's question: an extract is one value,
  and `extractChanged` is the difference of two. `FoundTotal` is no part of it: neither
  `extractChanged` nor the invoice looks at it, only `Incomplete` of a local parse.
* Errors of `json.Marshal` and `NewRequestWithContext` in the Jev client, which return
  before there is a request.
* Regular expressions and `parseMoney`: a line is given by their outcome.
* What the strings of the configuration say (models, addresses), beyond blank or not.
* Wording, JSON shapes, CORS, logging, the profiler's pages, cache statistics; the
  handlers that only read, but for the analysis they answer (`Verdict`).
* HTTP and cgo around the external engines, and the transport settings of
  `internal/httpclient`: any answer or error.
* PostgreSQL's batch operations and session settings: nothing calls the first, nothing
  in the models depends on the second.
* The lengths of timeouts: a context may end at any time, so no property depends
  on 90 s being shorter than 120 s.
* The database scripts, the accuracy test and `.agents`: not the running program.
