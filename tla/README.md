# A verification of col-taxdata

TLA+ models of the stateful parts of `src/col-taxdata`, the Python program that
crawls Colombian tax law, keeps it in SQLite and answers research cases about
it, with TLC runs on small instances and TLAPS proofs for all instances. (The
Rust service described by the root `README.md`, `SPEC.md` and `ARCHITECTURE.md`
exists only as a specification: there is nothing to model.)

## The system

| part | state it keeps | operations | what makes it hard |
|---|---|---|---|
| crawl queue (`tools/crawl_dian_normograma.py`, `crawl_page_classification.py`, `reclassify_crawl_queue.py`) | `dian_crawl_queue`, `dian_discovery_edges` | start-up (reset, adopt, purge, seed), select, claim, fetch, discover, finish, fail, requeue, reclassify | several transactions per item, kills between them, several crawlers, scopes that change between runs, retry times |
| bundle persistence v5 (`tools/case_bundle_persistence_v5.py`; v4 is its twin) | `case_v5_bundles`, `case_v5_artifacts`, `bundle.json` files | persist, load, plan, materialize | the row and the file are two commits; publishers race; editors |
| CASE REST v2 service (`tools/case_rest_api_v2.py`, `case_rest_runtime_v2.py`, `case_research_runtime_v5.py`, `case_application.py`) | a semaphore, the database, its WAL | research request: structure, research, publish, answer | threads, model calls, identity that hashes the database it writes |
| intake structuring (`tools/llm_client.py`, `openai_compatible_intake_adapter.py`) | locals of one run | model call, reject, retry, review | error precedence across attempts, evidence that fails to be stored |
| rejected-attempt store (`tools/case_attempt_evidence.py`) | `ATT-*` directories | stage, flush, lock, rename | kills, loss of power, credentials in what the provider echoes |
| research v5 (`tools/case_research_planning_v5.py`, `case_research_runtime_v5.py`, `case_research_coverage_v5.py`, `case_relationship_selection_v5.py`, `legal_authority_classification.py`) | the outcome of one case | plan, search, read, conclude, validate | budgets checked in several places, closure computed from counters |
| MCP gateway (`mcp_gateway/`) | an in-memory LRU of bundles | configure, research, read back | threads without a lock, capacity, upstream errors |
| migrations (`tools/init_db.py`, `schema/*.sql`) | the schema and `schema_metadata` | start-up | script and record are separate commits; start-ups race |
| registration and identity (`tools/source_identity.py`, `register_*.py`) | documents, identifiers, bindings, reviews | assess, register, describe | several registrars for one page, keys with and without issuer |
| references and relationships (`tools/resolve_references.py`, `promote_*.py`) | resolutions, relationships, provenance | resolve, promote | what was resolved before the named document arrived |
| dates (`tools/extract_document_temporality.py` and its modules) | candidates, events, dates, bases | extract, promote, reprocess | several pages of one document, dates of an earlier version |
| maintenance (`tools/migrate_issuer_identities.py`, `reprocess_*.py`, `cleanup_unreferenced_documents.py`) | the same tables | plan, apply | plans that are stale when applied, links without a foreign key |
| CI control plane (`ci/*.py`, `.github/workflows/col-taxdata-*.yml`) | GitHub pull requests, issues, labels, comments | lifecycle, resume, claims, convergence | events that are late, repeated, lost or out of order |
| validation records (`tools/case_attempt_policy.py`) | attempts and dispositions | validate an attempt, a successor, a disposition | what a chain of legal reruns adds up to |
| worker status mailbox (`ops/worker_status_mailbox.py`) | a hash-chained directory per worker | record, inspect | file locks, loss of power |

They interact through SQLite (the crawler, the service, the tools and start-up
share one database in WAL mode, so each is a process that the others see
commit), through calls (REST v2 -> structuring -> evidence store; REST v2 ->
research -> bundle persistence), through HTTP (gateway -> REST), through files
and, in the control plane, through GitHub. `PROJECT.json` lists each part with
its status, and every hazard at its line.

## Modules

| module | models | theorems |
|---|---|---|
| `WriteOnceBundles` | abstract: what publishing a bundle promises | |
| `AttemptArchive` | abstract: what the archive of rejected attempts promises | |
| `CrawlQueue` | crawl queue | `CrawlQueueProofs` |
| `CrawlOrder` (extends it) | order and completeness of a calm crawl: properties and the runs they are about | `CrawlQueueProofs` |
| `BundlePublication` (implements `WriteOnceBundles`) | bundle persistence v5 | `CaseServiceProofs` |
| `CaseService` (extends `BundlePublication`) | REST v2 threads, gate, snapshot | `CaseServiceProofs` |
| `IntakeStructuring` | `CaseStructuringService.structure` | `AnalysisProofs` |
| `EvidenceStore` (implements `AttemptArchive`) | rejected-attempt store | `AppendOnlyFilesProofs` |
| `ResearchPlanning` | research plans (operators) | `PlanningProofs` |
| `ResearchAuthorities` | classification, effect and relationships of documents (operators) | `AnalysisProofs` |
| `CaseResearch` (extends these two) | the research of one case | `AnalysisProofs` |
| `ResearchContract` (extends `CaseResearch`) | the validator of results, and the properties | `AnalysisProofs` |
| `McpGateway` | configuration, calls, store and views of the gateway | `McpGatewayProofs` |
| `Migrations` | `migrate_database` | `DatabaseProofs` |
| `SourceIdentity`, `Corpus` (extends it) | identity of pages; registration, resolution, promotion and maintenance | `DatabaseProofs` |
| `Temporality` | dates of one document and its relationships | `DatabaseProofs` |
| `PullRequestControl` | the controller of a pull request and its CI | `ControlPlaneProofs` |
| `IssueClaims`, `IssueLifecycle` (extends it) | claims of the developers; convergence and completion of issues | `ControlPlaneProofs` |
| `ValidationAttempts` | attempts, successors and dispositions of validations | `AnalysisProofs` |
| `StatusMailbox` | `record` | `AppendOnlyFilesProofs` |

The `MC*` modules give constants to these, and put parts that one run checks
beside each other: `MCRequests` the service and the gateway before it,
`MCCaseAnalysis` structuring, research, publication and validation records,
`MCDatabase` start-up, the corpus and the dates, `MCAppendOnlyFiles` the store and
the mailbox, `MCControlPlane` pull requests and issues, `MCCrawlSites` a small
site with failures, an odd one where everything may go wrong, and a deep one
(`CrawlOrder`) that only an operator disturbs.
A variable chooses which part moves in a behaviour and the others stand still:
what they hand to each other is already a choice of inputs in each. What really
shares state is composed in full: `CaseService` runs the steps of
`BundlePublication` on its threads, `CaseResearch` runs the planner and the corpus,
`IssueLifecycle` the claims of `IssueClaims`. A definition introduced by a comment
`Mutant:` or `A faulty form:` is a variant of the code that some property must
refuse; it is no part of any specification.

### CrawlQueue

`queue` is the table: for each URL its type, scope, depth, parent, status,
attempts, class, whether the extraction is linked, the time until it is due
(`wait`) and since its last attempt (`age`). `edges` is `dian_discovery_edges`. A
crawler has a control point `pc` and the locals of `main` (`job`); each
SQLite transaction of the loop is one action, because a kill or another process
can come in between: `Start` (reset of stale rows), `Adopt`, `SelectDoomed` and
`DropDoomed` (purge), `Seed`, `Select` (`due_item`), `Claim`, then one action per
outcome of the fetch (`IndexFetched`, `DocumentExtracted`, `BinaryFetched`,
`NavigationConfirmed`, `Retype`, `HeadingMissing`, each with the discovered
links), `Record`, `Finish`, `FailItem`, `Interrupt`, `Exit`. `Crash` is a kill at
any of these points. `PlanReclassification` and `ApplyReclassification` are the
operator's tool, which previews and applies in two steps. `Tick` lets time pass.
What a page contains is the choice of a set of links and of the page's kind;
`Decisions` is what `classify_heading_failure` can answer for a URL. The
extraction and registration of a legal document are part of the outcome, not of
this module. The history variable `orphans` names the rows whose crawler died.

### BundlePublication and CaseService

`store` is the table of bundles, `files` the materialized files, both by
`bundle_ref`; a `Body` is the content as far as two publications can differ in
it. A publisher walks `Lookup`, `Insert` (one transaction; a concurrent insert
under the same reference fails it), `Confirm`, `Load`, `PlanFile` (compare the
file), `WriteTemp`, `Rename`, `Verify`. `Busy`, `DiskError`, `Crash` and `Tamper`
(an editor of the case directory) are the environment.

`CaseService` runs the publishers as request threads of the server. `Admit` takes
the concurrency gate, `Structured`/`StructuringFails` stand for the model,
`Researched`/`ResearchFails` compute the reference from the case and the corpus
snapshot, `Publication` is a step of the module above, `Respond` leaves the gate
and answers. A snapshot is the content of the database file, or `NoSnapshot`
while a WAL is live; `WorkerOpen`, `WorkerCommit`, `WorkerClose` are another
process on the database, and every publication commits to it too. `Body` is the
time of the run (`generated_at`), the one field that is compared with the stored
bundle and does not enter its reference.

### Migrations

`Script[m]` is the list of statements of migration `m`, `create` (may be run
again) or `alter` (may not). `Apply` reads the hash and the file, `Statement` is
one statement of `executescript`, which commits on its own, `Record` inserts the
row of `schema_metadata`. `Edit` changes a migration file. `Interrupt` is a kill or a
lock held too long: either ends the program and keeps what was committed.
`StartupsConverge` excludes, as `Stuck`, a column added by a process that died
before it recorded the migration: no start-up gets past that.

### StatusMailbox

`dir` is what running programs see of each worker's directory, `durable` what is
left of it after a loss of power. `Acquire` takes the `flock`; `Load` reads and
verifies the chain and chooses number and previous hash; `Write`, `Replace`,
`Sync`, `Report` follow. A hash is modelled by what it identifies: the event and,
through its own link, all before it. The file system is assumed to journal
metadata in order; bytes survive only when flushed.

### EvidenceStore

One action per file-system effect: `StageArtifact` (three artifacts), then
`StageManifest`, `Flush`, `Lock` (`O_EXCL`), `Rename`, `SyncRoot`, `Unlock`. An artifact
is told apart by whether it is there and whether it holds the configured
credential. `PowerLoss` keeps what was flushed, any part of the renames and lock
files that were not, and empties directories whose content was not flushed.
Two writers that use the same id are allowed although the only caller draws
fresh ids, because the lock and the checks exist for that case.

### IntakeStructuring

`Outcome` lists what a model call comes to as far as the policy tells it apart.
`Call` is the first half of `_attempt`, `Reject` preserves the evidence (or loses
it: `EvidencePersistenceError`) and applies the `except` clauses of `structure`;
`Decide` and `Finish` are the review decision and the final `raise`.

### CaseResearch and ResearchContract

`MakePlan` is the planner: candidate aspects of each open question, questions taking
turns, one required task per aspect, optional tasks for hints, and the scheduler's
order. The scheduler keeps, where the code does, who was served last, and serves the
next one that waits: question by question in passes is the same as that, because a
question that has nothing left never gets anything again. What reaches the planner has
passed the validator of intakes (`IntakeAccepted`). `Search` takes what a search
finds (any sequence of `Findings`), `Read` admits or refuses one hit under the
budgets of authorities, spans and context, in the code's order of checks, `EndTask`
records the trace step, `Conclude` computes coverage, closure and the result.
`ResearchContract` states the validator of results, which is code of its own
(`case_contract_validation_v5.py`), and compares the two. Left out: texts, ranking,
items the intake brings, spans that only say where a document was published,
evidence without an owner. Every aspect is required and every task has depth 0, so
the budget of rounds never binds. Explicit conflicts between retrieved documents
(`case_research.py:551`) never block closure in the code, although section 11 of
`case-contracts-v5.md` lists them.

### McpGateway

`Start` reads the environment or refuses it. Each caller is a tool call on a thread
of its own: `ResearchCase` posts, `Success` checks an answer with at most one defect,
`Failure`, `Transport` and `Dropped` are what else HTTP does, then `Insert`, `Touch` and
`Trim` put the bundle in the store one `OrderedDict` operation at a time and `Pop`
reads it. `Read` projects a view. Without a lock, overlapping puts can evict a bundle
whose handle was just returned, and `move_to_end` can raise; both are in the model.
A connection that breaks off while the answer is read
(`gateway.py:559`) is not mapped to one of the stable errors.

### Corpus and SourceIdentity

An act stands for type, number and year; a key is an act with or without an issuer,
and a document is named by the key it was first registered under. Each tool reads,
computes and writes in a transaction; a read that a later transaction relies on
is kept in `pending` while other tools run: `ReadBinding`, `ReadFirst`, `ReadLink`,
`ReadRelations` and `PlanMigration` start, `RegisterIdentity`, `AssessSimple`, `RegisterSimple`,
`RegisterCompiled`, `DescribeDoctrine`, `Resolve`, `PromoteRelations`, `ReprocessPage` and
`ApplyMigration` end a run; `Cleanup` is one step. Detecting conflicts of designations
and dating a document are atomic here, and disputes are per document.

### Temporality

A page is a sequence of segments with what they say. `ProcessTemporality` is the one
transaction of an extraction: candidates and their trust, resolutions (one trusted
candidate, or a review), events, the supersession of version 2, dates of the
document, dates and bases of its relationships. `Extract` runs it by hand or from a
pipeline; `Select` and `Reprocess` are the reprocessing tool, which selects in one
step and processes in another. `Retrieve` brings another page of the document,
`Promote` another relationship. Dates that other registrars give (doctrine, RUT) are
left out.

### PullRequestControl, IssueClaims, IssueLifecycle

A runner (the inspection of pull-request events, or a CI run that passed) walks
through `handle_lifecycle` one API call at a time: `Fetch`, `Settle`, `PostState`,
`UpdateBranch`, `DispatchCI`, `Merge`, `Converge`; `Count`, `PostResume`, `DispatchResume`
are `request_resume`; `CheckBlocker`, `OpenBlocker`, `NoteBlocker` are `create_blocker`.
`StartCI`, `CIPasses` and `CIFails` are the CI workflow with the migration policy. What
GitHub answers (mergeable state, refusals) is modelled from the calls made. Developers
push or edit, other pull requests are merged, runners are lost.
`fetch_comments` reads one page, the oldest hundred comments. `full` says whether the
issue has that many; anybody's comments may fill it at any time (`Fill`). `resumes` counts
the requests that were posted, `seen` those on the page, which is what `Count` reads; a
blocker noted after the page is full is not found either (`notes`), and `CheckBlocker` opens
another. `Edit` is an event that brings no new head and still starts an inspection.

`IssueClaims` is `reconcile` on a snapshot and the calls a developer makes afterwards:
`Activate`, `CreateBranch`, `Comment`, `Develop`, `Terminate`, `CutOff`. `IssueLifecycle`
adds the merge, the dispatch of the convergence, its queue of one, the suite,
`finalize` with the recovery of stranded issues, the closing of the issue and its DONE
comment, and people who rerun, accept and reopen. The recovery looks at one page of
the most recently updated closed pull requests, `MaxListed` of them (30 in the code):
`Listings` is every page there can be. A pull request closed without a merge would take
a place on it too and is left out.

### ValidationAttempts

A record of attempts, each first of its validation or a successor, and of
dispositions. `Begin`, `Rerun` and `Dispose` try any manifest; it is recorded when
`validate_attempt_manifest`, `validate_successor_attempt` or
`validate_validation_disposition` raise nothing.

## Runs

| run | what moves, and its bounds | shows |
|---|---|---|
| `crawl_sites` | two crawlers at once on an index and a page of a legal family, with errors, kills, heading failures; or one crawler, restarted, on an index and a page of unknown family, with both scopes, all faults, the operator's repair tool, attempts counted to 2; or crawlers one after another on nine pages with cycles and two paths of different length to one of them, depth limit 3, that an operator may interrupt | `RowsAreOwned`, `OrphansTakenUp`, `DepthIsDistance`, `DrainedIsComplete` |
| `requests` | the service: two threads, one case, three requests, one foreign commit, one disk error or lock, two times of day. The gateway: two callers, room for one bundle, one restart, two versions; configurations with one bad field, three calls over one edition, two calls over two editions, one call and one view of each of 16 bundles | `OkIsPublished`, `EveryRequestAnswered`, `ConflictNeedsLiveWal`, `ImplementsWriteOnce`; `AnswersAreTheirs`, `OldestIsEvicted`, `LinksAreClosed` |
| `database` | start-up: two processes, three migrations of two statements, kills and edits. The corpus: five pages in five starting databases, three mentions, two tools in the middle of a run, one planned migration, five runs. The dates: six pages, two extractions, an outgoing and an incoming relationship, two datings left by version 2 | `PrefixOfChain`, `ReadyIsComplete`, `StartupsConverge`; `ActsApart`, `NamedIssuerIsTarget`, `SplitLosesNothing`, `MaintenanceKeepsGraph`; `DatesAreFounded`, `EventsAreSettled` |
| `database_provenance`, `database_pages` | the same | refute `RelationshipsHaveProvenance`, `PagesAreProcessed` |
| `append_only_files` | the store: two writers, two ids, three kinds of answers. The mailbox: three recorders, two workers, three calls. Two mishaps: kill, disk error, loss of power | `PublishedIsWhole`, `ImplementsArchive`; `ChainStaysValid`, `ReceiptsAreKept` |
| `case_analysis` | structuring: all configurations with one to three primary attempts, all outcomes. Research: six intakes, four corpora, two documents, with and without a date, budgets of five tasks, three queries, two hits, one authority, two spans an aspect, three in all, one context span, one relationship. Publication: two publishers, one reference, two bodies, three mishaps, an editor. Records: one validation, retries bounded by one, two changes, three records, failures of classes B, C, D and none | `OutageMeansNoOutput`; `PlanIsFair`, `BudgetsKept`, `ResultIsAccepted`, `CompleteIsWhole`, `CompleteIsInForce`; `RetriesMaterialize`; `ChangesAreDeclared`, `ClosedForCause` |
| `research_partial` | the same | refutes `PartialIsPublished` |
| `control_loop` | pull requests: one CI run beside the inspection, two heads, one other merge, one waiting CI run, one retry, one lost runner or failed call, a page of comments that fills up at any time or never; a new pull request, one whose attempts are used up, or one that is edited and not pushed to while its CI waits. Issues: two developers, two issues, two attempts, two revisions; one developer and every revision, two and one merge, or two who may need a second attempt | `MergedIsTested`, `MigrationsContiguous`, `RetriesBounded`, `EveryHeadIsJudged`; `DoneIsConverged`, `OneClaimPerWorker`, `StrandedAreRecovered` |
| `control_resume` | the same | refutes `ClaimsCanBeResumed` |
| `control_budget` | the inspection alone, two heads, one other merge, the three retries of the code, five requests of a kind | refutes `RetriesStop` |
| `structuring_surfaces` | `config/llm/local-platform.yaml` with an evidence store | refutes `EvidenceFailureSurfaces` |

Why these bounds are enough to be interesting. Conflicts in these protocols are
between two parties, so two crawlers, publishers, threads, processes, writers or
developers are the least that shows them, and the proofs cover any number. The
third delay of the backoff is the first that its cap cuts, and two attempts reach it. Three migrations
are the least for which "a prefix and a part of one more" says more than "some".
Two mishaps let a failure follow a recovery. The budgets of a research are small
enough for the searches of `MCFindings` to exceed each of them, and one task is left
out of the largest plan. From the third task on a search finds nothing or what the
first one found: the accounting of a task depends on earlier ones only through what
was admitted, which two free tasks vary. Two pages of one document are what events
and supersession depend on. Front matter is 2 segments here and 30 in the code.
The database that a corpus behaviour starts from is one that earlier versions left,
so bindings that today's registrars would not make are covered.

What the code never bounds is bounded in guards: `AttemptCap` (attempts stop
counting there), `MaxMishaps`, `MaxRequests`, `MaxCommits`, `MaxTime`, `MaxCalls`,
`MaxRestarts`, `MaxHeads`, `MaxMain`, `MaxQueued`, `MaxAsked`, `MaxTip`, `MaxAttempt`, `MaxPending`,
`MaxPlans`, `MaxRuns`, `MaxExtractions`, `MaxChanges`, `MaxRecords`. Deadlock checking
is off where such a bound, or the end of a sequential computation, stops the system.

### Fairness

- `CrawlQueue!FairSpec`, and `MCCrawlSites!SitesSpec` with the same fairness on its
  small site: time passes, and a crawler process takes its next step (weak fairness
  per process). `OrphansTakenUp` (`OrphansRecovered` of the small site) also assumes, in its statement, that runs keep
  ending, because only a start-up resets stale rows; the code gives a crawler in
  `--continuous` mode no other chance.
- `AnalysisSpec`: a publisher continues its own call; nothing it waits for belongs
  to another. Trying again is the assumption of `RetriesMaterialize`.
- `FairRequests`: weak fairness for each thread. The semaphore does not queue threads
  fairly, but requests are bounded, so a waiting thread is passed over finitely
  often; the provider call ends by its own time-out.
- `FairDatabase`: a process that starts up goes on; nothing makes anybody start one, so
  starting is the assumption of `StartupsConverge`.
- `PullFairness`: GitHub starts the inspection of an event and the CI run that is
  queued, and a job that runs goes on. `EveryHeadIsJudged` ends where a runner was lost:
  nothing in the code repeats its work.
- `IssueFairness`: the convergence that was dispatched is run. `StrandedAreRecovered`
  assumes that convergences of the latest revision keep ending successfully, and that
  one page lists what was merged; the runs merge two pull requests and list two, the
  proofs are for any `MaxListed`.

## Divergences found

Shown by a run:

- `structuring_surfaces`: DEF-0014 (`:141`) demands that a failure to store evidence
  surfaces as `CASE_EVIDENCE_PERSISTENCE_FAILED`. `structure` keeps that error as
  `provider_error` and raises an earlier invalid answer in preference to it
  (`llm_client.py:801`); two primary attempts, as shipped, are enough.
- `research_partial`: what was refused for want of room is named by an unresolved item,
  and the validator of bundles refuses a bundle that does not contain what its
  items name. The analysis fails where a partial result was meant.
- `database_provenance`: a relationship promoted again, after its page was bound to
  another document, gets no provenance row (`promote_relationships.py:271`).
- `database_pages`: a second page of a document that gives the same date ends in
  `RuntimeError` (`temporal_event_promotion.py:186`) and is never processed.
- `control_resume`: the branch of a merged pull request is deleted while its claim is
  active (`agent_control.py:367`); until the issue is completed every snapshot is
  refused, and its owner cannot resume.
- `control_budget`: after three recorded requests the next one creates a blocker
  and the loop ends, says `autonomous-agent-execution.md:91`. Requests recorded after the
  first hundred comments of the issue are never counted (`agent_control.py:158`), so on a
  longer thread every event asks for a further resume and there is no blocker. On a
  shorter one `RetriesBounded` says what is left of the claim: runs that overlap count
  before either has posted, and exceed the limit by one each at most.

Met while modelling, present in the models, without a run of their own:

- Migrations: `README.md:233` says they are applied once. `executescript` commits the
  script before the row that records it, so a kill in between makes the next
  start-up run the script again; one with `ALTER TABLE ... ADD COLUMN` then fails at
  every later start-up. `StartupsConverge` excludes this as `Stuck`.
- Crawler: a kill between the change of `item_type` (`crawl_dian_normograma.py:667`) and
  `finish_item`, and a later run that finishes the index, leave an `index`/`done` row
  that was never classified, which DEF-0010 wants explicit and durable. A page
  whose legal extraction failed and that is a binary at the next fetch ends `done`
  with its old failure class. A purge removes edges and parents of rows that stay,
  so `discovered_from` can name a row that no longer exists (`data-lifecycle.md:59`).
  A crawler that starts resets rows of a live but slow one (`:404`).
- Service: the snapshot in a bundle's identity hashes the database file, so
  publishing changes the identity of the next run of the same case; with a live WAL
  the snapshot is left out, and a repeated case meets its own earlier bundle with
  another `generated_at` and is refused (`ConflictNeedsLiveWal` shows that this is the
  only way two runs of one server can clash). A case whose primary and review calls
  all timed out is reported as invalid output (`llm_client.py:798`).
- Corpus: `is_incompatible` of `reprocess_document_identities.py` takes every
  issuer-qualified key for incompatible; reprocessing deletes provisions that other
  relationships target and leaves resolutions `resolved` without a target; compiled
  provisions are bound by heading to a key without issuer; after a backfill of
  issuers the foreign key of `new_document_id` makes a later split fail; a review of a
  reference, once closed, is never opened again (`INSERT OR IGNORE`), and conflicts of
  designation are never closed; registering under an equivalent key leaves two
  primary keys; a resolution stays when a second document with the same alias
  arrives. Two overlapping migrations are excluded by `MaxPlans`.
- Dates: the basis of a date keeps the first event (`INSERT OR IGNORE` under the primary
  key), so after another extraction a date may rest on an event that gives another.
- Validations: the number of a retry is not compared with its predecessor's, so a
  chain of same-envelope retries may exceed the bound; a rerun after a fix may change
  nothing; a diagnostic in between hides a change of profile, which is why
  `ChangesAreDeclared` speaks of canonical lineages; a closed validation may receive
  attempts.
- Control plane: GitHub may close an issue by `Fixes #N` before its DONE comment;
  `handle-ci-result` cannot map CI runs that the controller started to a pull request; a
  snapshot between the creation of a branch and the CLAIMED comment allows two claims on
  one issue; a blocker noted after the first hundred comments is not found, and the next
  exhausted retry opens another; a refused merge raises after READY_FOR_MERGE was posted;
  an issue reopened with a DONE claim blocks snapshots.

## Proofs

All proofs are checked by TLAPS with no assumption but the named ones on the
constants, which TLC evaluates in the runs. For each property TLC found no violation
first; the strengthenings below were then found by asking what each action needs.
A proof module extends the components it is about; all theorems hold for any sets of
processes, documents, cases or issues, not only those of the runs.

| module | about | assumes | proves |
|---|---|---|---|
| `CrawlQueueProofs` | `CrawlQueue`, `CrawlOrder` | `QueueAssumption` | `TypeCorrect`, `RunningOwned`; `CrawlIsBreadthFirst` and `CrawlIsComplete` when the crawl is calm |
| `CaseServiceProofs` | `BundlePublication`, `CaseService` | `PublicationAssumption`, `ServiceAssumption` | `PublicationTypeCorrect`, `PublisherHoldsStored`, `RowsAreImmutable`, `PublicationIsWriteOnce`; `ServiceIsWriteOnce`, `OkMeansPublished`, and `ConflictsNeedWal` when every publisher is a thread of the server |
| `McpGatewayProofs` | `McpGateway` | `GatewayAssumption` | `ResultsAnswerTheCall`, `ViewsCarryTheirLinks`, `TheOldestIsEvicted` |
| `AnalysisProofs` | `IntakeStructuring`, `ResearchContract`, `ValidationAttempts` | `ConfigAssumption`, `PlanningAssumption`, `AuthoritiesAssumption`, `ResearchAssumption`, `AttemptsAssumption` | `StructuringTypeCorrect`, `RepeatsAllowed`, `ReviewConfigured`, `OutageWithoutOutput`; `ResearchInvariant`, `BudgetsAreKept`, `PlansAreFair`, `CompleteSupportIsInForce`, `CompleteSupportIsWhole`, `ResultsAreAccepted`; `ClosedStaysClosed`, `EveryChangeIsDeclared` |
| `DatabaseProofs` | `Migrations`, `Temporality`, `Corpus` | `MigrationAssumption`, `TemporalityAssumption`, `CorpusAssumption`, `TypesAssumption` | `MigrationsTypeCorrect`, `DatabaseIsPrefix`, `ReadyHasAll`; `EveryDateIsFounded`, `EveryEventIsSettled`; `DocumentsAnswerToOneAct`, `NothingIsLeftDangling`, `MigrationLosesNothing`, and `NamedIssuersAreTargets` when one migration is planned at a time |
| `ControlPlaneProofs` | `PullRequestControl`, `IssueLifecycle` | `ControlAssumption`, `LifecycleAssumption` | `OnlyTestedIsMerged`, `ResumesAreBounded`, `MigrationsLandInOrder`; `IssuesAreDoneOnce`, `ClaimsAreExclusive` |
| `PlanningProofs` | `ResearchPlanning` | `PlanningAssumption` | lemmas for `AnalysisProofs`, among them `AspectsForm`, `PlansFit`, `PlansFair` |
| `AppendOnlyFilesProofs` | `EvidenceStore`, `StatusMailbox` | `EvidenceAssumption`, `MailboxAssumption` | `EvidenceTypeCorrect`, `EveryAttemptIsWhole`, `StoreIsAnArchive`; `MailboxTypeCorrect`, `ChainsAreValid`, `ReceiptsHold` |

The crawl. `TypeOK` is inductive: it holds the ranges of `wait` and `age`, which the
backoff stays within whatever the number of attempts (`BackoffBound`). `RunningIsOwned`,
which `RowsAreOwned` checks on the sites of `crawl_sites`, is inductive relative to it: each action either leaves the running rows as they are
(`QuietStep`), or gives one up (`ReleaseStep`), or makes one running and its
crawler the owner; crashes move the row to `orphans`.

The order of the crawl. `Calm` says for which runs it can be promised: one scope whose
seeds are pages of it (as the two lists of seeds are, `crawl_dian_normograma.py:41-58`), a
site that does not change, a new database, crawlers one after another, and of the
faults only an operator's interrupt and bodies that are not HTML (completeness excludes
the latter: such a page is done without its links). With an error the order is lost,
because a page that failed waits for its backoff while deeper ones go on. The site is
otherwise any graph. `CalmInv` has three parts. `GraphInv` relates the queue to the links:
seeds are at depth 0; a page is within its depth of a seed; what is queued reaches at
most one level beyond the nearest page whose links are not yet recorded; and a page
whose links are recorded has every index it links at its own depth plus one or nearer. The
frontier (`FrontierInv`): a page still open is pending, or in the hands of the one
crawler, and the page that was selected precedes every open one in the order of
`due_item`. `DocumentsInv`: documents linked from a page that was read are queued. Recording
the links of a page keeps all three because it was the nearest open one; that `Within` and
the queue agree up to a distance is then an induction over distances (`InvDistance`,
`InvComplete`), with the set of the numbers it holds for as the induction's subject (`NatSet`).

Publication. `Inv` joins `TypeOK`, `HoldsStored` and that a dry run never reaches a point
at which something is written: without the last, a plan could hold a body that was
never inserted. From it follow type correctness, `StoredForEver` (an action property),
and the refinement: every step is a step of `WriteOnceBundles` or a stutter under the
mapping that keeps rows and files and hides temporary files, control points and mishaps.

The service. `ServiceInv` adds what a thread hands to publication (`Handed`), that a
file agrees with its row (`Copies`) and that commits of the database are counted
(`Counted`: the main file changes at most once for each row stored and each foreign
commit, so fingerprints stay within the finite set the model has). A step of the
service is a step of publication, a foreign commit or invisible to the store, so the
refinement of `WriteOnceBundles` carries over. `ConflictsNeedWal` rests on `GateInv`: the
semaphore admits one thread (`OneInside`), a row stored under a fingerprint has changed
the main file since or is still in the WAL (`Outdated`), so the fingerprint a thread
took is unused (`Fresh`). Its hypothesis `Served = Publisher` says what the code can
promise at all: a command-line analysis beside the server does not pass the gate, and
TLC shows the conflict when one is added.

The gateway. `GatewayInv` says what a call knows at each point: the request it sent, and a
bundle of the version and problem it asked for (`Knows`); an entry of the store is
filed under its own handle. `LinksInv` says that a view that was returned is a
projection of a bundle the service holds; that projections close their links is then a
fact about `Links` and the contract of bundles (`JoinsAreClosed`), which `GatewayInit`
demands of the service. `OrderInv` relates the store to the history of uses: its
entries stand in the order of their last use, as a subsequence, through gets, puts,
evictions and the `move_to_end` of an entry that another call has evicted.

Structuring. `PolicyInv` adds `Control` (where the run can be with which error:
there is one to raise whenever `Finish` is reached), `History` (the primary attempts
come first and only the last may not be repeatable) and `Memory` (`last_invalid` is
set exactly when output was rejected and its evidence was not lost). The properties
speak about the log alone and the guards about the variables alone: these parts
tie the two.

Research. `ResearchInv` follows the loop over tasks. `Progress` says where it is: the
plan is the planner's and was accepted, tasks are read in order. `Within` is the
accounting of budgets, `Owned` and `Attested` what trace, evidence and selections may
refer to, `Filed` which category an item of a task has. The one that makes
`CompleteSupportIsWhole` go through is `Heard`: every hit of a task that was begun was
selected with its whole context, or the task carries a mark against itself (an
exhausted budget, an unresolved identity, an incomplete context), or the hit is still
to be read. No later step removes a mark, because items and selections only grow.
`ResultsAreAccepted` shows that the builder's result passes the validator, check by
check.

Planning. Plans are pure functions of the intake, and `PlanningProofs` is about what
they compute for any of them. Loops of the code are recursive functions on `0..n` in
`ResearchPlanning`; each has a lemma that it has the values its equation says
(`TakeHintsForm`, `LaneTurnsForm`) and one that each turn keeps an invariant, and
`NatSet` puts them together by induction on a set of numbers. For the hints this is
`MadeInv`: no more tasks than there is room for, none twice, and for every aspect one
query less than it may have, since its required task takes one. For the scheduler it is
`LaneInv`. That nobody waits while another has two turns says nothing of the cursor, so
it is strengthened to `Even`: there is a number of rounds such that whoever stands up to
the cursor has had one turn more than it and whoever stands after the cursor has not,
and those who had fewer have nothing left. It holds of the questions, and of
the aspects of each question, whose turns no other question disturbs (`EvenElsewhere`).
`NobodyLeft` follows from it at every turn and is kept to the end, where it says that
neither of two questions or aspects passes the other (`Passed`), and `FairOfPassed`
carries this from the two lanes to the plan. `PlansFit` is the other half: whatever
`Plannable` intake it is given, the planner makes a plan that the validator of plans
accepts, and keeps to the queries of each aspect. So `Planned` is an invariant of the
research (`PlansAreMade`), an analysis fails only for want of room, `PlansAreFair`
holds, and `ResultsAreAccepted` needs no hypothesis about plans.

Validations. Neither a recorded attempt nor what a disposition says of it changes, and
a retry repeats an earlier attempt whose class allows one (`RecordsInv`). A disposition
closes for a systemic class, and only one of those may be repeated. For
`EveryChangeIsDeclared` the lineage of an attempt is a recursive function on attempt
numbers; the induction is done by hand, on the set of numbers for which the claim
holds (`NatSet`, from the well-foundedness of strict subsets in the library).

Migrations. `ChainInv` adds to the properties, as `Progress`, that a process at
migration `m` has seen all before it recorded, and that one at line `i` has installed
the lines before. Neither property is inductive without this.

Dates. A date of a relationship is one that an event of version 3 gave, or rests on an
event of version 2 that still stands (`Founded`); all evidence of a version 3 event is
promoted (`Supported`); what is in review is not resolved (`InReview`). `DatesAreFounded`
is not inductive without the case of version 2, since superseding its events must find
every date that rests on them.

The corpus. `ActsInv` says of every key, and of all evidence for one, that it is of the
act its document is named by, and of what a tool has read before its transaction that
it was so when read and can only have become more so (`Sound`): this is what lets a
registrar, or a migration planned long before, write after others have. `StartsInv` is
enough for `NothingIsLeftDangling`, an action property: cleanup removes what pointed to
what it removes, and a migration moves both ends.

`MigrationLosesNothing` needs to know where pages are when a plan made earlier is
applied, which is `HomesInv`: a page that the generic parser accepts is bound by the
older key of its act or by its own; a document several authorities could share gets no
new page by its older key, except a compiled one, and no issuer before a migration; and
each page of a document that a plan divides is of the plan, or something of the document
is seen in it - then the transaction fails, as the foreign keys of what was seen make it.
`TypesAssumption` is what makes this so: headings are of the four types of
`DOCUMENT_HEADING_RE`; the types of the other families (concepto, oficio, sentencia,
CONPES, constitution) are all in `ISSUER_SCOPED_TYPES` and none of them is one of these
four, so a page of one family is never taken for another's; a law or a decree has one
authority (`issuer_from_normative_filename`); and what older registrars left has keys
without an issuer.

`NamedIssuersAreTargets` rests on `IssuersInv`: all rows of a document name one authority
(`Uniform`), a named one of an act that is not numbered per authority by virtue of a page
that is bound to it (`Witness`), and a migrated document has a qualified main key. A
document that a reference may be resolved to is then of its authority for good (`Fixed`),
and so is the answer that a resolver holds before its transaction (`Waits`). The
theorem supposes `MaxPlans = 1`: the transaction does not look again whether a document
it gives a key has got one since the plan was made, so with two plans applied in turn,
and a page of another authority bound in between, a document could change hands.
The migration is a command its operator gives, and two of them at once are no use.

Pull requests. `Sound` says what a run knows at each point - the head it merges, or
is about to announce as ready, is one a CI run passed; a BLOCKED comment has its
blocker. Success and blockers only grow, so what one run knows no other takes away
(`SoundKept`). For the budget, `WithinBudget` counts the attempts on the page of comments
together with the runs that have read room and not yet posted (`Posting`); it holds on any
thread, and says something of all attempts while the page is not full (`Counted`).
`NoMoreSent` counts the events with the runs about to send one. A bound on the attempts
alone is not inductive, since a run at that point has already passed the test. For the numbering of migrations,
`Order` keeps that a head which passed, or is in its tests, has the next number if it
holds all of `main` (`Sealed`); one that lags behind may be numbered anyhow, and the
strict ruleset refuses to merge it.

Issues. `ClaimsInv`: a developer between its snapshot and its comment holds no live claim
on an issue that was not reopened, and two that it holds are one; everything else that
happens takes claims away (`HeldShrinks`). `LandingInv`: what waits for convergence, and
what runs it, is merged at the revision it names, and a run that closes an issue is at
a validated revision not older than that merge.

The store of rejected attempts. `Inv` says what a writer has done at each point (`Local`:
it stages in order, flushes what is whole and takes an attempt for stored when the disk
has it), that an attempt programs can see is whole and flushed and is the one the disk
has, if it has one (`Kept`), and that what was reported is on the disk. `PublishedIsWhole`
needs the first because a rename publishes whatever is staged, the refinement of
`AttemptArchive` the last because a loss of power shows what the disk has.

The mailbox. `Linked`: a worker's directory is a linked chain without a gap, and the disk
has a first part of it. What a process has read stays true while it holds the lock
(`MailLocal`), events have identities of their own (`Numbered`), so there is always a free
number (`RoomLeft`), and what was acknowledged is on the disk (`MailKept`).

No proof uses the fairness conditions. Every safety property and every action property
that a passing run checks is also proved. Only model-checked is liveness (`OrphansTakenUp`,
`EveryRequestAnswered`, `StartupsConverge`, `EveryHeadIsJudged`, `StrandedAreRecovered`,
`RetriesMaterialize`), which is out of TLAPS' reach.

## Hazards without a property

`PROJECT.json` lists the hazards that properties cover or whose code misbehaves.
Further ones were found that no property covers, because the code takes no measure
against them or because they need a file system or a clock in more detail:

- crawler: two crawlers fetch one page, since a claim does not look at the row
  (`crawl_dian_normograma.py:1010`); the stale threshold races a slow worker that is alive
  (`crawl_dian_normograma.py:404`); `attempts` is never reset, so a row refreshed for
  months backs off after one failure as if it had always failed (`:1113`); a crawler in
  `--continuous` mode never resets stale rows after its start-up (`:1372`); adoption
  moves rows to scope `all` for good (`:377`); a purge removes edges of rows that stay
  (`:318`); the type of a row is changed in a transaction of its own (`:667`) and its
  class is kept from an earlier fetch (`:1028`);
- v4 publication: the temporary file is not flushed before its rename, and stays
  when the rename fails (`case_bundle_persistence_v4.py:566`);
- start-up: nothing gets past a column added before its migration was recorded
  (`init_db.py:77`, `Stuck`); a migration file is hashed and then read again to be run (`init_db.py:77`);
- references: a resolution without a named authority keeps its target when a second
  candidate arrives (`resolve_references.py:276`);
- validations: the number of a retry is the caller's word (`case_attempt_policy.py:383`);
- dates: a basis keeps its first event (`temporal_event_promotion.py:338`);
- structuring: a review call that times out counts as invalid output
  (`llm_client.py:798`).

## Not modelled

- Acquisition of sources, and the registrars of single sources (Estatuto
  Tributario, RUT guidance): sequential scripts, one transaction each.
- Extraction of text and references, ranking of hits, evaluation of claims: data, not
  behaviour. Their result is an input that the models choose freely.
- The field by field checks of contracts (`case_contract_validation_v4.py`, `_v5.py`):
  what they say of the relations between the parts of a result is `ResearchContract`.
- Controlled validation runs and admission, doctor, controller memory, manifests,
  repository governance, the defect catalogue: developer tools used by one person at a
  time that report on files and settings.
- CASE v3 and REST v1: frozen predecessors of the v5 path. The web console renders
  bundles in the browser.
- The RustIDEAM service: only its specification is in the repository.

Next: an abstract life cycle of an issue that `IssueLifecycle`
implements.
