# Formal models of 智学协作台 (dianwu)

The program is a desktop learning assistant: an Electron shell and a Vue
renderer around a local FastAPI backend. The backend diagnoses a learner in a
conversation, saves a profile, generates learning resources with a language
model, and keeps a local knowledge base of imported textbooks. This directory
holds TLA+ models of the parts where order, failure and concurrency decide
whether the program is right, the TLC runs that check them, and TLAPS proofs.

    tlc -workers 2 -config SessionFull.cfg MCSessionWorkflow
    tlapm SessionProofs.tla

`PROJECT.json` lists the runs, the lines of the source each definition models,
the hazards, and for each property a mutated definition that breaks it.

Abbreviations used below: MS = `front/a3-front/docs/superpowers/specs/2026-07-15-multi-api-stability-design.md`,
LKB = `.../specs/2026-07-15-local-knowledge-base-design.md`,
KLM = `.../specs/2026-07-18-knowledge-library-management-design.md`,
RB = `.../specs/2026-07-16-five-resource-bundle-design.md`,
OCR = `.../specs/2026-07-18-offline-ocr-page-citations-design.md`,
S-00x = `codex/architecture/S-00x-*.md`. Python paths are below `backend/`.

## 1. Inventory

| Component | State it keeps | Operations | What makes it hard | What makes it correct |
|---|---|---|---|---|
| Model runtime router (`services/model_runtime.py`) | current snapshot of profiles; per snapshot a lease count, `retired`, gateways; per profile a breaker and `needs_attention` | apply_snapshot, complete, stream, close | requests of several coroutines keep an old snapshot while the desktop replaces it; failover, waits, cancellation at any await | gateways are closed once and never under a request; one answer is never spliced of two models; budgets hold; every request ends |
| Breaker and budget (`services/model_resilience.py`) | closed / open / half open, failures, cooldown, probe | allow_request, record_success, record_failure | answers of earlier calls arrive late | a probe is out only when half open; a cooldown does not outlast the Retry-After it was set for |
| Call slots (`services/content_safety/concurrency.py`) | two slots | model_call_slot | slots are held during waits and whole streams | nobody waits for ever |
| Knowledge import (`knowledge/import_service.py`, `repository.py`, `service.py`) | rows of documents, jobs and staged blocks; chunks and their index; executor threads with a worker process each | import, rebuild, retry, cancel, trash, restore, purge, shutdown, restart | threads write with compare-and-set, requests without; cancel posts coroutines to the loop of a thread | a working job has a worker or its interruption could not be recorded, a completed job is searchable, calls return |
| Session workflow (`services/orchestrator.py`, `db.py`) | row of a session: state, last stable state, turns, profile version; one asyncio lock per session | message, stream, rediagnose, delete, bundle route | each request works on its own copy of the row; three routes take no lock; streams are closed at any event | a profiled session has a profile; an answered session is stable; one generation at a time |
| Resource bundle (`services/resource_bundle/`) | stored bundles and artifacts, cancellation tokens | generate, retry_artifact, cancel | specialists run concurrently under two places; repair, regeneration and two reviews; a cancellation at any await; retries merge into copies; the session is deleted, made anew or its stream closed under a task; its last commit fails | the status of a bundle follows from its artifacts; a success was reviewed; a cancelled bundle says so; what a task leaves behind is a stable session, or known to be left |
| Content safety (`services/content_safety/`) | none but audit lines | gate_request, review_plan, review_text, review_artifact | a reviewer fails, or disagrees with the detectors | nothing unreviewed is shown |
| Reading a document (`knowledge/worker_main.py`, `worker_protocol.py`, `ocr.py`) | worker process, pipe of events; staged blocks and failed pages of the job as a checkpoint | parse, read pages, report, time out, cancel, retry | pages fail one by one, the worker hangs or dies, the pipe fills, a retry goes on from the checkpoint of a killed run | a search never sees part of a document; what a retry skips was staged; every run ends |
| Knowledge library (`knowledge/service.py`, `repository.py`, `search.py`, `context.py`, `object_store.py`) | rows of documents, collections, links, bindings of a session, chunks, search index; files in the object store | import, trash, restore, purge, rebuild, collections and links, bindings, the search for a question | a request is several transactions and the file system, any other may come between; cascades are declared and not enforced, ids are used again | what was imported stays reachable, purged text is gone, a question reads only what the session may use |
| Text of documents (`knowledge/parsers.py`, `chunking.py`, `context.py`) | none | parse_document, chunk_blocks, render_untrusted_context | boundaries: cuts, overlaps, limits | a phrase is found, a chunk names its place, the prompt keeps its budget |
| Learning (`services/learning.py`, `db.py`) | knowledge points, attempts, reviews; version of the learning state and the cache of resources it keys | submit_attempt, next action, notifications; a message that generates or reuses a resource | a client repeats an attempt; answers, deletions and new days come while a resource is generated | five counts of the same answers agree; a repeated key hears the same answer; the cache knows every answer |
| Semantic index (`knowledge/semantic.py`) | generations on disk, pointer, opened index | publish, query, quarantine | publication under a query, crash between two renames | what was published last is served; the pointer names a complete generation |
| Desktop backend process, proxy (`electron/backend-*.mjs`, `main.mjs`) | child process, streams by request id | start, stop, request, stream, abort | exit during start, abort during a stream | one backend; an aborted stream says nothing more |
| Desktop profiles (`electron/model-profile-*.mjs`) | encrypted vault, queue of changes, recoveryRequired; the snapshot the backend serves | upsert, upsertLegacy, delete, savePolicy, bootstrap | each await between reading, testing, saving, applying and rolling back can fail; the backend dies, the application ends | vault and backend agree, or every change is refused; a change is whole and sees all earlier ones |
| Renderer, pet, packaging, schemas, protocols, prompts, web search, demo, evaluation | views, files, texts | | | covered by unit tests; not modelled |

How they interact: the renderer calls the backend through the Electron proxy;
a message of a session goes through the safety gate, the workflow, and from
there into the router (each model call) and the knowledge search; the bundle
route enters `ResourceBundleService.generate`, which messages call as well; the
desktop sends a new snapshot to the router whenever profiles change; imports run
in threads of their own and share only the database with the rest.

## 2. Modules

| Module | Models | Instances and proofs |
|---|---|---|
| `CircuitBreaker` | the breaker as pure operators (`Admit`, `RecordSuccess`, `RecordRetryable`, ...) | `ModelRouterProofs` |
| `ModelRouter` | the router; EXTENDS `CircuitBreaker` | `MCModelRouter`, `ModelRouterProofs` |
| `SnapshotLeases` | abstract: who uses which snapshot, and when it may be disposed of | refined by `ModelRouter` |
| `ImportJobs` | documents, jobs, threads, requests, shutdown, restart | `MCImportJobs`, `ImportProofs` |
| `JobLifecycle` | abstract: the life of a job | refined by `ImportJobs` |
| `OcrImport` | the data of one document through the runs of its jobs: pages, pipe, checkpoint, index | `MCOcrImport`, `DocumentProofs` |
| `KnowledgeLibrary` | documents, collections, links, bindings, index, objects; what a question may read | `MCKnowledge`, `KnowledgeProofs` |
| `DocumentText` | the pure functions from a document to chunks and from hits to a prompt | `MCKnowledge`, `DocumentProofs` |
| `SemanticIndex` | publication, query and quarantine of vector indexes on disk | `MCKnowledge`, `KnowledgeProofs` |
| `LearningProgress` | answers, knowledge points, reviews, the versions and the cache of resources | `MCLearningProgress`, `LearningProofs` |
| `SessionWorkflow` | the session row, its lock, every request on it | `MCSessionWorkflow`, `SessionProofs` |
| `SessionLifecycle` | abstract: the transitions `db.py` allows | refined by `SessionWorkflow` (messages and deletions) |
| `SafetyReview` | what a check decides from detectors and reviewer | used by `BundlePipeline` |
| `BundlePipeline` | calls of generate and retry_artifact, the pipeline, tokens, stored bundles; EXTENDS `SafetyReview` | `MCBundlePipeline`, `BundleProofs` |
| `ModelVault` | vaults of model profiles as values: validity, which changes are refused, what they make of a vault | used by the next two |
| `ModelProfiles` | the queue of changes, the vault's file, the backend's snapshot, starts and ends | `MCModelProfiles`, `ProfileProofs` |
| `AtomicSettings` | abstract: one configuration, changed as a whole or not at all | refined by `ModelProfiles` |

### ModelRouter

A client is a coroutine with one request at a time. All coroutines run on one
event loop: `loop` names the one that runs, which keeps it from one await to the
next, so `_candidate_ids`, `allow_request` and the handling of an answer are not
interleaved and awaits (the slot, the call, a delta, the sleep) are. A snapshot is `config`,
`active` (active_requests), `retired`, `closed`. Gateways are external: a call answers, streams, fails
terminally, fails retryably with a Retry-After from `Delays`, or is cancelled.
Deadline, cooldowns and sleeps are countdowns moved by `Tick`.
Identifiers of closed snapshots are used again, so the number of
snapshots ever applied is not bounded. `disturbed` is a history: the sleepers over whose breaker another request has
had its answer. A sleep is not shorter than asked for, as asyncio's clock has it.

### ImportJobs

One step is one database transaction or one piece of code without an await. A
thread remembers the version of the row it loaded last (`seen`), and only
`transition_job` compares it. `request_cancel` and `reset_job_for_retry` are two
steps, load and write. `run` is the executor thread and its locals, `api` the
request of a client, `phase`/`pending` the two loops of the coordinator's
shutdown. The worker process is what it sends. `Restart` is both the next start
after shutdown and a crash, enabled in every state.
A statement of a job or client in `Faulty` may fail anywhere (`Fault`, `RequestFails`), also the one that records the
interruption: `unmarked` is a history of the jobs where the failing thread could do no more than log it. A coroutine that is posted to the loop of a
thread which has nothing left to run is served by a last round, cancelled, refused, or never looked at again (`Deliver`, `StopProcess`);
the request is then `lost`, and the shutdown `hung`, until the next start.
`JobLifecycle` lets a cancellation that is under way reach a parked job, because it looks at the row and writes it in two steps: with three clients a
trace of 18 states does that. `ImportCancel` has two and does not show it;
the refinement is proved for any number.

### OcrImport

`ImportJobs` has the threads and versions of many jobs, `OcrImport` the data of one document. `worker` is the
process (`worker_main.py`, `ocr.py`), which writes events into `pipe`, blocks when it is full, and ends (`Exit`) after its last one; `run` is the thread
in `run_job` and `_consume`; `row` and `staged` are the checkpoint. A page stands for the block it gives. The
worker may hang at any step: nothing is assumed of it, and the time-out of the thread (`MayThrow`) is always
possible while it waits. `Restart` is a crash of the application with its worker and pipe, `Terminate` what a cancellation or
the shutdown does to the worker. `Selected` is the set of pages the request of a run names, all of them if none failed before.

### KnowledgeLibrary, SemanticIndex and DocumentText

One step is one transaction, or one access of the object store. A client's request (`req`) is at one of the places
between them; requests of a single transaction have no place. A job (`job`) is what it reads and writes of
the library, at the steps where a deletion looks at it or waits for it. `NextId` is the rowid SQLite gives: the
highest and one, so the id of the last deleted row comes again. A file stands for its hash, its object and its text. `owed`, `gone`, `member` and `meant`
are histories of what users were told or asked for; `touched` marks a request that another one on the same thing has overtaken,
where a row takes an id still named (`reused`) the code does not keep its promises, and for purged text only if the
purge also met a running job (`raced`; section 5). `ReplaceIndex` writes index rows whether or not the document is still
there, since `db.get` of `search.py:109` is answered from the session of the job.
In `SemanticIndex` a step is one access of the file system. Opening and quarantine hold the lock, the renames of a
publication do not, so they come at any point of a query. It shares nothing with the library and runs beside it
in the same run, under its own `input`; `lost` is the case of section 5 in which a name is removed unseen.
`DocumentText` has no behaviour: `input` is any small text, outline or list of hits, an initial state of
the same run. A heading has its level and a line its text; what the libraries read from a file format is the input.
`HeadingsAreAbove` names the blocks by lines: those of Markdown are the runs of lines of text, those of Word its paragraphs,
each with the text of its lines and the set of headings above it.

### LearningProgress

An attempt is one step, since its route never awaits; a message that wants a resource is four: it
loads its copy of the row, looks into the cache, reads the learning state for the prompt and stores the answer. `gen` is
that message; the lock of the workflow lets one run at a time. `LearningContext` is what `learning_context` puts into the prompt: mastery and counts of the points, and
the recommendation. `told` is what clients were answered for each key. Mastery is counted in
ten-thousandths, to which the code rounds, time in days.

### SessionWorkflow

A request loads the row once into `mine` (`expire_on_commit=False`) and a commit
writes the columns it changed, `WHERE id = ...`: `Merged` does that and `Missing`
is an UPDATE that finds no row. `holding`/`waiting` are the asyncio lock of the session with
its queue. Messages (chat, stream) take it; `POST /resource-bundle`,
`/rediagnose` and DELETE do not. `Escape` is an exception no handler takes, or a
stream closed by its consumer; the task of a bundle then runs on (`detached`).
`Crash` forgets requests and keeps the row.
What a message leads to (a question, a profile, a cached answer, a resource, a
bundle, a new diagnosis) is a choice: texts are not modelled.

### BundlePipeline and SafetyReview

A task is one call of `ResourceBundleService.generate` and names the bundle it makes; `call` is its
locals, `token` its `BundleCancellation`, `spec[b][t]` the specialist of type t, `store` the
two tables of `resource_db.py`. A step reaches from one await to the next. Of a
text only which one it is counts (the first, the repaired, the regenerated) and which one a review let
pass. `_complete_or_cancel` is `Asks` before the call and `Unanswered` during it. `review_artifact` is
the operator `ReviewArtifact`, applied to every combination of what detectors and
reviewer can say, so the pipeline meets each pair of action and artifact the service
can return. The session is reduced to the id of its row and whether it is profiled or generating; a new session may have the
id of a deleted one, and a task that outlived the old one then commits into it (`HasRow`). A commit without a row fails, and
every commit may: the one that stores the bundle and finishes the session (`Store`), the one of `begin_generation`, and
that of `fail_to_stable_state`, after which the row says GENERATING and nobody ends it. The model calls that state `LEFT`, to tell
it from a session whose task is still at work; to the code both are GENERATING. A retry stores its temporary bundle and replaces it without an
await in between, so both are one step, of which the second commit may fail.

### ModelVault and ModelProfiles

A caller of a settings page asks for a change (`Ask`), which waits in `tail`, the chain of promises behind
`mutationTail`; only its head moves (`MayRun`). One step reaches from one await to the next: `Read` (the vault is
read, the change refused or worked out), `Test` (the candidate), then `commit`: `Remember` (what a
rollback needs), `Save`, `Apply`, and after a failure `Restore` and `Reapply`. Each can fail, and a
request may be served and still be reported as failed. `file` is the vault on disk, replaced by
renaming; `runtime` is what the backend serves, `NoBackend` when its process is gone, and `backendRuntime` what the desktop believes.
The step that serves a snapshot (`Serves`) is `ApplySnapshot` of `ModelRouter`, which in turn allows
any snapshot at any time. `Stop` is the end of the application at any point, a crash included. Of a profile
its identifier, its switch and its key are kept, the key standing for the other contents; the orders of profiles and
fallbacks are not. In the refinement the configuration that counts is the vault on disk, or, while a
change may still be taken back, the one before it.

## 3. Runs

| Run | Instance | Shows | Distinct states |
|---|---|---|---|
| `RouterSafety` | 2 requests, 2 slots, 2 snapshots, a profile and a disabled fallback, automatic and manual choice, threshold 1, a cooldown of 2, Retry-After 0 or 1, time-out 2 | no request runs on closed gateways, `SnapshotLeases` is implemented; a Retry-After is not slept in vain | 294 000 |
| `RouterLiveness` | 2 requests, 1 slot, 2 profiles, threshold 2, Retry-After 0 or 1, time-out 2 | no splice over waits and failover, every request ends | 18 000 |
| `ImportCancel` | 1 job, 2 clients, shutdown, crash; any statement of the job may fail | working jobs have a thread unless the interruption could not be recorded, `JobLifecycle` is implemented | 1 719 000 |
| `ImportIndex` | 2 jobs of 1 document, 1 client, 2 threads | after the last completed job its chunks are those indexed | 3 894 000 |
| `ImportLiveness` | 1 job, 1 client, any statement of which may fail | calls return or were posted too late, threads end | 39 000 |
| `OcrResume` | 3 pages, one blank, 3 runs, a pipe of 2 events | the index is all or nothing, what a retry skips is staged, a completed document is whole unless a run was cut short, runs end although the worker may hang | 124 000 |
| `KnowledgeSafety` | 2 files, 2 collections, 2 requests of several transactions, 1 job, ids used again; 2 publications, 2 queries and 3 generations of the vector index; all texts of up to 8 characters (of two kinds, up to 11) and all small documents, outlines and lists of hits | what was imported stays, purged text is gone, a prompt has only what the session may use; what was published last is served; phrases, places, headings and the budget of the prompt | 1 048 000 |
| `LearningSafety` | 2 knowledge points, 2 answers, 2 resources, 2 profiles, 2 days | the counts agree, a repeated key hears the same, a mistake is reviewed first, the cache is current | 621 000 |
| `SessionFull` | 3 clients, all kinds and calls and faults | profiled sessions have a profile, answered sessions are stable | 92 000 |
| `SessionLocked` | 2 clients, messages, deletion, faults | `SessionLifecycle` is implemented, resources belong to the current profile, messages end | 5 300 |
| `BundleSafety` | 2 tasks (a stream for the whole bundle; a route or retry for one artifact), 2 types of which one has its answers reviewed, 1 place, 1 row id | nothing unreviewed, bundles belong to the row of their task, the generating state to a task, a cancelled bundle says so, calls end | 109 000 |
| `ProfilesSafety` | 2 callers, 3 profiles of which a vault holds 2, every kind of change | vault and backend agree or changes are refused, changes that pass the checks are consistent, `AtomicSettings` is implemented, each change is answered | 156 000 |

**Bounds, and why they are enough.**
Symmetric clients that compete for one resource show their conflicts pairwise; three session requests add a third
copy of the row. A snapshot is current or an old one in use: two cover both, and what concerns more (the lease
invariants and the breakers) is proved for all values. Contention and failover are split: `RouterSafety`
has overlapping requests, late answers and waits on one enabled profile (breakers of different profiles do not touch each other),
`RouterLiveness` a primary and its fallback for requests that follow each other. A time-out of 2 lets a Retry-After of 1 be slept.
`RouterLiveness` has a threshold of 2, so that one failure leaves a breaker closed. `MaxTries` is 3 in the code and 2 or 3 here: it only counts lost
compare-and-sets. `Faulty` is empty in `ImportIndex`, where jobs fail, are cancelled and lose their worker and only the free faults are missing;
`CompletedIsSearchable` is proved for any `Faulty`. `MaxEvents` bounds progress events, each of which goes through
the same code. `MaxVersion` of a job bounds retries (no retry at that version).
`MaxTurns = 1` instead of 4 questions: more turns repeat the same step.
`MaxVersion = 2` and `MaxId = 2` allow a second profile and a row that was deleted and made again. No bound
blocks a step of a request that is under way, except that rediagnosis stops at
`MaxVersion`. In `SessionFull` and `SessionLocked` the id of a deleted row is not used
again (`ReuseIds = FALSE`), which holds when another session was created after it; see the deviations
for the other case. In the bundles, two tasks are one that
makes or cancels and one that overlaps it; with two types a bundle can be complete, partial or failed, and one
place for two specialists makes one of them queue (five types and two places in the code). Five types add
more specialists of the two sorts there are. With one row id a new session always has the
id of the old one; with two (`MaxRow = 2`, 531 000 states, safety only) it may have another, and the properties hold as well; the theorems cover any number. In `ProfilesSafety` two callers
are one that changes and one that waits behind it (more wait in the same way); of three profiles one is the migrated one, and the
third exceeds the limit (2 for 16), so that a save is refused. In `OcrResume` three pages give
one that fails, one that is read and a blank one, in each order that matters for the checkpoint; three runs are a first one, a
retry that fails again and a last one. In `KnowledgeSafety` six requests are enough to import, trash,
purge and import again, with bindings and a question in between (that an index row alone still names an id takes a seventh: with seven, 3 917 000 states,
the properties hold as well, and `PurgedIsGone` does not if `Named` leaves index rows out), and two ids for each kind of row let a deleted one come again; the chunk
limits are 7, 3 and 2 for 1000, 600 and 120 characters, so that texts of 11 characters have up to four pieces. Three generations
are the one a query puts away and two that are published meanwhile. In
`LearningSafety` two answers are a right and a wrong one in both orders, on one point or two; the second profile and the second
resource give the cache something to confuse. One key is enough: a kept key and a given one differ in whether the profile
was there. Symmetry is used for safety only, except that a
run with liveness declares none.

**Fairness.** Router: what is ready on the event loop runs (weak
fairness of `Choose` and `Try`); a call is answered because every gateway has a
timeout, a slot is given in order, a sleeper wakes and time passes (strong
fairness: the loop may be busy in between, but is free again and again). Imports: each thread, each request in service and shutdown
go on (weak fairness); the operating system schedules threads and the loop is
never blocked for good. Session: each await of a request returns or fails (weak fairness of
`Progress`), since model calls and searches have timeouts. Bundles: the same for
each task, whose specialists wake the next one when they leave their place. Profiles: files are read
and written, and a request of the backend on this machine is answered, or fails with its process (weak fairness of each caller's step). OCR: the thread goes on (weak fairness of `RunStep`, which
has the time-out); the worker has no fairness at all. Nothing is assumed
of users, of the desktop, or of faults.

## 4. Proofs

All theorems hold for every value of the constants that meets the named
assumptions of the modules (`RouterAssumption`, `BreakerAssumption`, `ImportAssumption`, `OcrAssumption`,
`LibraryAssumption`, `IndexAssumption`, `TextAssumption`, `LearningAssumption`, `SessionAssumption`, `BundleAssumption`,
`VaultAssumption`, `ProfilesAssumption`), and the session's theorems under the hypotheses they name.

- `ModelRouterProofs`: every operation of a breaker keeps its type and keeps it well formed; the
  router's proofs know no more of a breaker. `LeaseInvariant` is inductive. It adds to the lease count that a
  client holds a snapshot exactly when it is past the queue, that queue and slots
  agree, that the current snapshot is neither retired nor closed, and that a
  closed one is retired with no lessee. Without these, a leave on a closed snapshot could not
  be excluded. From it follow `LeaseCount`, `OpenWhileLeased`, `ClosedWhenUnused` and the
  refinement of `SnapshotLeases`. `TypeOK` and `BreakersWellFormed` hold for every snapshot. For `NoSplice`,
  `Keeping` says what each step owes each request: who has shown text stays with the
  profile that yielded it, or ends. `EmittedCalls` says that only a
  request in a call has shown text; without it one that waits or tries the next candidate could have.
  For `SleptIsRetried`, `SleptInv` says that a sleeper has an attempt left and, unless disturbed, an open breaker that
  cools down no later than it wakes; time moves both, a new snapshot never takes the place of one in use, and from waking
  to the call the request holds the loop.
- `ImportProofs`: all safety properties of `ImportJobs` and the refinement of `JobLifecycle`. `Typed` says
  that threads and requests work on rows that are there. `Safe` says that a job is scheduled
  at most once (`CallFits`, `OneEnqueue`) and that its thread alone moves the row, except for a cancellation under
  way (`StatusFits`): that one reaches a job only when no thread works on it, or when its thread was told to stop before it
  loaded the row (`Doomed`). So whoever finds a job to be retried finds it dead, and only a running
  job completes. `ActiveHasWorker` alone is not inductive: a retry or a
  cancellation writes the row in a step after it looked at it. What may fail (`Faulty`) is arbitrary.
- `KnowledgeProofs`: all safety properties of `KnowledgeLibrary`. They speak of texts and names, and the code of ids, which
  are used again; the invariants join them. For `PurgedIsGone` a file
  has one row, index rows have a document row, a purged file has none, and the chunks of an
  indexed document and the text a job carries are those of the document's own file: until a purge met a running job
  (`raced`) because every running job has its row, and after it as long as no new row takes an id still named
  (`reused`). That a new row takes an id
  without index rows follows from the second part, although chunks stay behind. `ImportedIsReachable` and `PromptIsMeant`
  rest on one more invariant (`Kept`), which holds until an id still named is used: a link of a document leads to
  a collection users put its file into, the bindings are those last saved, and of the requests in flight: a deletion
  owes nobody its file, an import that nobody overtook still finds what it looked up or its file is between
  the purge and the removal of its object (`Unlinking`), and a question that nobody overtook holds collections
  that are still meant. The property alone is not inductive, since an import answers long after it looked.
  A deletion under way is enough for an import to promise nothing (`Deleting`), so what a purge removes was never owed.
  Of `SemanticIndex`,
  `PublishedIsServed`: a generation is in its place while it is being published and nobody has heard of it
  until it is named (`Publishing`), and what a query puts away it found spoiled (`PutAwayIsBad`).
- `DocumentProofs`: all safety properties of `OcrImport` and of `DocumentText`. Of the former the invariant follows the
  pages: those a run does not ask
  for are staged (`NotAskedIsStaged`); of those it asks for, each is still to read, failed, blank, in the pipe or
  staged (`ReadIsSent`); so what the done event leaves out is staged, or in front of it in the pipe (`DoneFits`), and when it
  is consumed with no failed page, what is staged is the whole document. `SkippedIsStaged` alone is not inductive: what a
  retry skips was recorded by a run whose blocks were still in the pipe.
  The theorems about `DocumentText` hold for texts, documents and lists of hits of any length over any characters (the
  line end among them), which the instance bounds. Its functions are recursive, and the library's folds choose a recursive function too, so each is
  unfolded first: a function with the equation exists because the values up to a number give the next (`RecursionExists` for the
  whole, `FoldRuns` for the steps). Then what the function builds is followed as a state is. `PhraseIsFound`: the rest of a text
  covers its phrases (`SplitsFrom`), and a cut leaves an overlap that a phrase across it fits in (`SplitsOnward`). `PlaceIsKept`: the parsers give blocks
  in the order of their places and the pieces keep it (`InOrder`); the chunks are the pieces read so far, cut at ascending
  places (`CutInto`), and a chunk that takes in a piece stays without gaps only because of that order. `HeadingsAreKept`: the stack of headings holds one of every
  level (`Stacked`), which needs that no level is skipped, and the blocks are the runs before the lines that are kept (`ReadTo`), or the paragraphs up to now
  (`WordTo`). `PromptIsBounded`: what is left and what is rendered are the limit (`Rendered`).
  An empty paragraph of Word is dropped before its style is looked at: it is a line without text and no heading, as in the instance.
- `LearningProofs`: all safety properties of `LearningProgress`. `BooksAgree` is inductive once answers are
  known to be of questions of the session and topics to be points (`QuestionsExist`, `TopicsKnown`); `RepeatedKeySameAnswer`
  needs that a key was used once. The cache is current because the prompt of a resource was written no earlier than the versions
  it is stored under were read, and because whatever changes mastery, counts or the recommendation, within a day and between the same points,
  raises a version (`ContextsFit`, `StillTrue`).
- `SessionProofs`: `TypeOK` with at most one holder of the lock, whatever kinds, calls and
  faults; and `ProfiledHasProfile` under `~ReuseIds`. The invariant behind the latter speaks of copies:
  a copy of the present row is never ahead of it in version, every copy that is profiled has a
  version, and ids in copies were made before. It is needed because the row is a patchwork of columns out of
  several copies.
  Under `OnlyMessages` (no bundle route, no rediagnosis,
  `~ReuseIds`) `LockInv` says that the copy of the lock's holder is the row itself
  unless the row was deleted, so each commit is a transition of
  `SessionLifecycle`; `OneGeneration` and `ResourceOfCurrentProfile` follow as well. `AnsweredIsStable` is
  proved with the routes too, under `~ReuseIds`: `StableInv` adds to the invariant of copies that a message at work holds
  the lock, and that when its copy is stable and the row is not, a bundle of the route is at work on that
  row.
  `AnsweredIsStable` needs the second part: the message writes no state it did not change, so only that bundle
  can lead the session on.
- `BundleProofs`: all safety properties of `BundlePipeline`. `BundleInv` says of every bundle, whether
  stored, copied by a retry, or on its way out, and of every artifact a specialist
  holds, that a success was reviewed and that the status fits; `StatusFollows` alone
  is not inductive because a retry brings an old copy back. It needs that types not
  asked for stay absent (`NoOthers`) and that there is a type at all. `TaskInv`
  says which step of a task may hold a registered token, that only streams are cancelled, that a
  task past its end keeps nothing, and that a retry works on the row of the task whose bundle it read, which is over. From them
  follows the action property about cancellation as well. `Clears` says of a step that ends a task that the session generates after it only
  for another one.
- `ProfileProofs`: all safety properties of `ModelProfiles` and the refinement of `AtomicSettings`. `ProfileInv`
  says that only the head of the queue is past `queued`; that what it worked out is the change of a vault that
  is still the one on disk, as long as it has not saved; that after saving, file and memory hold the new and the
  old vault; and that vaults are consistent. `Agree` alone is not inductive: that a rollback leads back to agreement needs that
  `previous` and `bytes` are what both sides had before. `ChangeKeepsConsistent` is the lemma that the
  controller's checks preserve what vault and backend ask for.

`TypeOK`, `LeaseCount`, `ClosedWhenUnused`, `BreakersWellFormed`, `OneGeneration` and `StatusFollows` are proved and not part of a run (as an INVARIANT of its configuration, each holds there).

A row of which several fields change is updated with one nested EXCEPT, `[f EXCEPT ![j] = [@ EXCEPT !.a = u, !.b = v]]`: the
prover mistranslates several updates of one row that are written side by side.

What a recursive definition computes is proved without the library's induction theorems for predicates, which take an operator as a
parameter: a property is the set of numbers that have it, and a set of numbers has a least element
(`LeastNumber`, from `WFMin`).

Only model-checked: all liveness. TLAPS (1.4.5)
proves neither liveness under fairness nor ENABLED.

## 5. Where code and documents disagree

Nine promises of the documents are stated beside the models, under "What ... the code does not keep", and are
violated by them. To see the counterexample, add the definition to the run's cfg:

| Definition | Add to | The documents | The code |
|---|---|---|---|
| `ModelRouter!SkippedForATime` | `RouterLiveness.cfg`, PROPERTY | "`open`：暂时跳过" (MS:190) | the half-open probe is taken before the budget is asked (`model_runtime.py:383`) and not given back: the profile is skipped for ever |
| `ModelRouter!CooldownKept` | `RouterSafety.cfg`, PROPERTY | "429 按 `Retry-After` 设置冷却，不伪造高频探测" (MS:193) | a late answer replaces a running cooldown, also by a shorter one (`model_resilience.py:103`) |
| `ImportJobs!CancelHonoured` | `ImportCancel.cfg`, PROPERTY | "状态转换使用乐观版本号，取消具有幂等性" (LKB:141), `tests/knowledge/test_import_service.py:354` | `request_cancel` loads and writes in two steps (`repository.py:662`): a recorded cancellation repeats a version, and the thread that is not stale to it completes the job |
| `ImportJobs!EveryCallReturns` | `ImportLiveness.cfg`, PROPERTY | "活动导入任务在软删除前先请求取消并等待终态" (KLM:27) | a coroutine posted after `asyncio.run` has cancelled what was left and before `loop.close()` is neither run nor cancelled (`import_service.py:557`): the deletion waits for ever |
| `KnowledgeLibrary!PurgeRemovesIndex` | `KnowledgeSafety.cfg`, INVARIANT | "永久删除才移除索引、块、对象文件和关系" (KLM:13) | a job that replaced the chunks before the purge indexes them after it (`search.py:109`) |
| `BundlePipeline!CancelStopsWork` | `BundleSafety.cfg`, PROPERTY | "Cancellation stops queued and running specialist work" (RB:97) | reviews do not look at the token (`pipeline.py:385`, `:429`): a text under review succeeds after the cancellation |
| `BundlePipeline!GeneratingIsLeft` | `BundleSafety.cfg`, INVARIANT | "任务完成或失败后必须离开该状态" (S-001:25), also S-003:175 | when the commit of `fail_to_stable_state` fails too (`service.py:425`, `db.py:223`), or the stream is closed, the row stays GENERATING until the next message |
| `BundlePipeline!SpecialistsFailAlone` | `BundleSafety.cfg`, PROPERTY | "Specialist failure produces `PARTIAL` when any sibling succeeds." (RB:101) | a redaction that comes without an artifact raises outside the handlers of the specialist (`content_safety/service.py:569`, `pipeline.py:394`, `:518`) and takes the bundle with it |
| `OcrImport!CompletedIsWhole` | `OcrResume.cfg`, INVARIANT | "重试任务读取检查点，只识别失败页和缺失页，成功后统一切块、索引并替换旧索引" (OCR:26) | the failed pages of a killed run are taken for all missing ones (`repository.py:619`): the retry reads only them and completes with the rest missing |

These were met too; the models behave as the code does:

- Router. A late failure gives the half-open probe back (`model_resilience.py:100`, MS:191, :283).
  Any success clears `needs_attention`, whoever set it (`model_runtime.py:413`, MS:195).
- Imports. When the interruption of a thread that fails cannot be recorded either, a log line is all that is left of it
  (`import_service.py:498`; the shutdown drops the same failure, `:586`): the row stays active until the next start (`unmarked`).
  The shutdown waits for a coroutine posted too late as a deletion does (`:600`). The retry route is a plain function and runs in a thread, where `enqueue` finds no event loop and
  raises (`import_service.py:449`) after the row was committed: the retried job stays QUEUED and no
  thread takes it (`tests/knowledge/test_knowledge_api.py:305`, `:338`, LKB:23). A retry may overwrite a cancellation (`repository.py:643`, LKB:141). Deletion
  trashes documents whose queued jobs stay active (`service.py:472`, KLM:27). Purge checks the trash long before it
  removes (`service.py:485`), and leaves chunks, since foreign keys are not
  enforced (`repository.py:419`, KLM:13).
  `document.status` is never set, so one document may be parsed twice and a duplicate is parsed again
  (`repository.py:188`, LKB:88). Shutdown may interrupt a job at its end (`import_service.py:399`).
  A CancelledError of `coordinator.cancel` aborts a delete (`import_service.py:564`) or a whole bulk request.
  An event may have 2 100 000 bytes (`worker_protocol.py:16`), but the line is read from a stream that keeps
  asyncio's limit of 64 KiB (`import_service.py:274`): a longer one ends the run like any invalid line.
- Library. A purge removes the row and, later, the object; when two purges of a file, or a purge and an import of it, overlap, an
  id or the object that is used again is removed with them (`service.py:461`, `reused`). A deleted collection leaves links and
  bindings (`repository.py:91`): its documents still reach the prompt, and the next collection with its id
  inherits them. A job that runs while its document is purged may write the purged text under an id that is
  used again (`import_service.py:359`, `raced`). A question reads the bindings, then the mode, then the text (`context.py:284`): a change to
  local_search_only in between does not stop the text (`touched`). Where a document skips a heading level, the paragraphs name
  a heading of another branch (`parsers.py:433`: `headings[:level - 1]`); tables of a Word file come after all
  paragraphs, under the last heading.
- Semantic index. A query that finds its generation spoiled compares the name in `current.json` and removes it in two steps
  (`semantic.py:172`); a publication in between loses its name (`lost`). When the file cannot be read it is removed
  unseen (`semantic.py:174`). Any failure to open, also a passing one, puts a good generation away (`:225`).
- Learning. When a session is deleted, or made anew by a message or a preference, while a resource is generated, that resource is stored in the
  new session under versions it may reach (`orphan`). The cache compares the versions of profile and answers (`db.py:546`), but the prompt also names the
  next step, which a new day or a new point changes (`learning.py:202`): a resource that is served from the cache may recommend
  what was due yesterday. The renderer makes a new key for each submission
  (`api/backend.ts:263`), so the promise of `API示例.md:134`, "相同 `session_id + idempotency_key` 重复提交不会重复计分", holds for
  a request that is repeated as it was, not for an answer that the user submits again.
- Session. The bundle route takes no lock (`routers/resource.py:144`) and looks at the state before it awaits the gate
  (`resource_bundle/service.py:287`, `:317`): two requests generate for one session, against S-001:135
  "同一 session 同时最多有一个 GENERATING 任务"; `OneGeneration` is checked and proved for messages only. GENERATING stays behind after an escaping exception, a crash or an abandoned
  stream until the next message heals it (`orchestrator.py:657`, S-001:25, S-003:175). That healing also hits
  a bundle of the unlocked route that is still running. A rediagnosis between the gate of a message and its
  begin makes DIAGNOSING to GENERATING, which is why `SessionLocked` leaves the route out.
  `restart_diagnosis` keeps the old `last_stable_state` (`db.py:647`, S-001:94). A message appended after a
  deletion makes the session anew; SQLite may give it the old id, and then a request that began before the
  deletion writes its copy on it (`ReuseIds = TRUE` shows a profiled row without a profile).
- Bundles (`services/resource_bundle/`). `_complete_or_cancel` looks at the token and makes the call at the next turn of the loop
  (`pipeline.py:144`), so a call may begin just after a cancellation; the reviewer model is asked for plans and texts of a cancelled bundle
  (`:211`, `:385`, `:429`). A task whose session was deleted and made anew under the same row id commits its bundle into the new one.
  A retry whose second commit fails leaves its temporary bundle in the list. A stream that is closed does not stop its task, which may
  store a bundle after the session was deleted (`orchestrator.py:805`). A cancellation before the registration
  is answered with true and lost (`service.py:375`, S-003:119). Of two retries of one bundle the later one merges into
  the copy it read and undoes the other (`service.py:475`; RB:91 "Successful sibling artifacts are immutable during the retry").
  A text that does not parse fails its artifact without a retry, and so does a retry whose plan fails (RB:169
  "one failed specialist preserves successful siblings and offers a scoped retry"). A retry
  commits its temporary bundle before it merges: a crash in between leaves it in the list as well (`service.py:476`).
  A text written again for safety is not given to the answer reviewer again (`pipeline.py:428`).
- Profiles (`electron/`). A change whose rollback failed may be on disk, and then takes effect at the
  next start although it was reported as not made (`model-profile-controller.mjs:146`); `AtomicSettings` allows that (`Trouble`,
  `Stop`), and the same for a crash between saving and applying. While a change is under way, `list` shows a vault that may be taken back (`:46`). A 17th
  profile passes the checks and is reported as an invalid credential store (`:140`). Step 6 of the design, "验证 runtime ready" (MS:103), is not
  made. A request to the backend has no time-out of its own (`main.mjs:149`).

## 6. Not modelled

Texts and their parsing (prompts, protocols, the patterns of the safety detectors), the OCR engine and the libraries that read
file formats, HTTP and IPC plumbing, authentication, configuration, views and
packaging: sequential code that unit tests reach, or pure I/O. Of the vector index: vectors and
ranking (nothing but tests makes a `SemanticIndex` yet). Of the library: favourites, tags, names and colours, listings,
ranking, scopes of a workspace, the check of citations in answers. Of learning: statistics and overviews. The expiry of the cache of resources. Real time: only
the order of time-outs is modelled.

## 7. Plan

Done, by weight: router, imports, session, bundles with safety review, model profiles, reading of documents, library,
vector index, learning. Next

1. `BackendProxy`: child process, streams and aborts.
2. `OcrImport` and `LearningProgress` have no abstract specification yet: a document whose index is replaced as a whole, and
   a list of graded answers.
