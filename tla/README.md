# CyberCanon: a TLA+ verification of the hosted service

CyberCanon keeps an art project's specifications ("canon") in a git repository and
serves them: a person edits a specification through a web service, and the edit
becomes one pushed commit on the repository's branch; everybody else reads what the
branch says, from an index that is derived from it. This directory holds TLA+ models
of the parts of that service whose correctness depends on order: the write path over
the shared working copy, the index that is rebuilt while commits land, the keyed HTTP
writes that are retried, the worker that validates exports, the edits people and agents
make through them (requests, annotations, views, suggestions, observations, links), the
caches in front of other services, and the state a browser keeps. Each model is checked
by TLC on small instances, and their safety properties are proved by TLAPS for every value
of the constants, some under an assumption that section 5 names.

Source paths below are relative to `libs/cybercanon/` unless they say otherwise.

- [Inventory](#1-inventory) - [Interactions and hard behaviour](#2-how-the-parts-interact-and-what-is-hard)
- [Modules](#3-the-modules) - [Runs](#4-the-runs) - [Proofs](#5-the-proofs)
- [Limits](#6-where-the-properties-stop-holding)
- [Abstractions](#7-abstractions) - [Plan](#8-plan) - [How to run](#9-how-to-run)

## 1. Inventory

| Component | State it keeps | Operations | Correct when |
|---|---|---|---|
| **Hosted repository** (`application/use_cases/hosted_repository.py`, `adapters/outbound/git/repository_host.py`, `atomic.py`, `commands.py`) | on the remote: the branch. On the shared volume: HEAD, `origin/<branch>`, the files, git's index, a lock file. In each process: the revision served, when it was confirmed, a lock | `clone`, `fetch`, `recover`, `read`, `head`, `commit`, `push`; `refresh_project`, `resume_project`, `write_back` with its retry loop | an edit is a compare-and-swap on the branch; "applied" means published; "refused" means no trace; the copy is clean between edits |
| **Index and journal** (`application/use_cases/index_assets.py`, `deployment_status.py`) | rows with a file fingerprint (database); indexed revision and "rebuilding" flag (memory) | rebuild, single-entry refresh, listings and searches | what the journal claims of the rows is true; rows always catch up; a partial index is never shown as a whole |
| **Background runner and ticker** (`adapters/wiring/background.py`) | a queue, the pending set, a thread, a completion event | `submit`, drain, `start`, `stop`, `wait` | every submitted project is passed over again after its submission; one pass at a time; "done" owes nothing |
| **Idempotent writes** (`application/use_cases/idempotency.py`, `adapters/inbound/http/writes.py`, `routing.py`, `adapters/outbound/postgres/idempotency.py`) | a table key -> digest, outcome, expiry | `once`, `recall`, `remember` | a draft reaches the branch once; a key keeps its answer; "ok" is the caller's own |
| **Validation worker** (`application/use_cases/validation_worker.py`, `validation_records.py`, `validate_export.py`, `domain/validation_outcome.py`) | records in the repository, `validated_export` in the index | one pass over the exports of a pinned revision, write-back of records | a record's digests are of one revision; records do not go back; the worker comes to rest with true verdicts |
| **Asset requests, inbox** (`application/use_cases/requests.py`, `domain/requests.py`) | a file per request, dismissals in the database | raise, assign, transition, link, dismiss | only legal transitions; fulfilment rests on the asset's current state; nothing new is hidden by an old dismissal |
| **Annotations, triage** (`application/use_cases/annotations.py`, `view_revisions.py`, `domain/annotations.py`, `triage.py`) | threads in view files, anchors per revision | create, reply, resolve, re-anchor, triage | one annotation per draft; a replayed change is re-judged; anchors do not wander |
| **Identity-provider key cache** (`adapters/outbound/auth/keys.py`) | key set, when retrieved, when last attempted | `key_for`, `refresh` | a revoked key goes out of use within the window; a new one comes into it within the cooldown |
| **Local outbox** (`adapters/outbound/fs/outbox.py`) | a bounded file of outcomes | `report`, flush | nothing set aside is lost in silence, nothing is delivered twice |
| **Migrations, recovery** (`adapters/outbound/postgres/migrations.py`, `services/cybercanon/api/recover.py`, `migrate.py`) | the schema and its ledger table | apply, drop, rebuild | the ledger says what the schema is; a recovery leaves nothing of before |
| **Derived metadata, suggested aliases** (`application/use_cases/derived_metadata.py`) | derived records and decisions, both keyed by the image; aliases in specifications | describe, accept, reject, thumbnails | an acceptance was somebody's to make and was carried out; a rejected value is not offered again |
| **Views, blobs and previews** (`ingest_views.py`, `view_mirror.py`, `blob_mirror.py`, `viewer.py`, `adapters/outbound/{fs,minio}`) | images in the repository, content-addressed copies, previews and sidecars | upload, mirror, put, `preview_for` | an upload replaces what it should; a published blob is somebody's commit; the preview shown can be read and is the last one |
| **Composition root** (`adapters/wiring/`) | deferred stores, the journal, the runner | boot, sync, tick | boot serves only what the remote has |
| **Reads** (`lookup_assets.py`, `briefing.py`, `spec_lens.py`, `diff_spec.py`, `viewer.py`, `adapters/inbound/http/reads.py`, `surface.py`) | none | pinned reads | one revision per answer |
| **Specification files and what they mean** (`adapters/outbound/git/schema.py`, `writer.py`, `spec_store.py`, `domain/effective_spec.py`, `lint_spec.py`, `diff_spec.py`) | none | parse, edit one block, inherit, merge, lint, diff | a bad entry costs itself; an edit leaves the rest; a verdict that changes is explained by a declared difference |
| **Documents, delegated search** (`documents.py`, `search_delegation.py`, `adapters/outbound/arche`) | links in files, cached cards, reachability of the platform | link, unlink, create, list, search | a link is one change; a card is never another viewer's; what resolves here is not sent there |
| **Search stores** (`adapters/outbound/{sqlite,postgres}/search_index.py`) | rows, misses, suggestions | `upsert`, `remove`, `search` | both stores answer alike |
| **Observations** (`observations.py`, `adapters/outbound/git/annotation_writer.py`) | notes in a specification file | record | allowances and duplicates; only the agent's own note |
| **Sign-in and actors** (`sign_in.py`, `resolve_actor.py`, `domain/actors.py`, `actor_checks.py`, `adapters/outbound/auth`) | tokens in a keychain, a cached identity, the mapping to commit authors | authenticate, resolve, attribute | nobody is taken for what the issuer took back longer ago than a token and the cache live |
| **Web application** (`src/apps/cybercanon/web/src/lib`) | a session per tab, a query cache, a view model, a held write | sign in, renew, annotate | a renewal's token is spent once; the screen shows what was recorded |
| Command line, MCP surface, mesh and image decoding, tooling, deployment files | none that outlives a call | | |

`PROJECT.json` lists every one of them with its status.

## 2. How the parts interact, and what is hard

```
   web / MCP / CLI                 webhook, ticker
        |  keyed write                  | sync: clone, fetch, submit
        v                               v
  IdempotentWrites --write_back--> HostedRepository --HEAD--> runner: rebuild, mirror, validate
        |  key table (database)         |  volume, remote        |  rows (database), journal (memory)
        +-------------------------------+------ reads <----------+
```

- **Two locks, and one that is missing.** `writer()` takes a lock of the process and
  then a file lock on the volume. `clone`, `fetch` and `recover` take the first only.
  One process is therefore serialised; two processes over one volume, as during a
  rollover, are serialised for writing and not for refreshing.
- **Retries and answers that get lost.** `write_back` commits locally, pushes, and on
  a rejection discards its commit, fetches, judges the precondition again and starts
  over. The discarding can itself fail. A push can land and be reported as failed.
- **Kills.** A redeploy ends a process anywhere between writing a file and hearing of
  the push. The volume survives, the memory does not, and git's index is part of
  the volume.
- **State read at two moments.** The journal's revision and the rows' revision; a
  listing and the flag that says whether listings may be trusted; a reader's pinned
  revision and the fingerprint it files its row under.
- **A key table that is a cache.** It is read before and written after a write that
  is not in its transaction; it expires; it is dropped with the index it lives next to.
- **Files that are edited whole.** A request, a thread, a link, an observation and an
  alias are each a rewrite of one file by somebody who read it earlier.
- **Answers that age.** Keys, cards, identities, remembered listings and session tokens
  are kept by one party after the other has changed its mind.

The hazards list of `PROJECT.json` gives the line at which each one bites and the
properties that watch it.

## 3. The modules

| Module | Models |
|---|---|
| `EditLedger` | what the hosted repository promises: a tree of files and edits applied by compare-and-swap |
| `HostedRepository` | the write path: remote branch, working copy, instances, write-backs |
| `IdempotentWrites` | keyed writes over a key table, with `EditLedger`'s compare-and-swap as the write |
| `HostedIndex` | sync, runner, rebuild, journal, readers, against a HEAD that write-backs move |
| `ValidationWorker` | passes over the exports of a pinned revision, and the records they commit |
| `Runner` | the ticker, lost notifications, the queue, one thread, the completion event |
| `Migrations` | release steps file by file; drop, migrate, rebuild; kills in between |
| `Policy` | the operation matrix: who may do what to which subject |
| `Positions` | what a filter leaves of a sequence (`without`, `_parsed`), said by the positions it keeps |
| `AssetRequests` | a request's file and history, the handlers that move it, the inbox and dismissals |
| `Annotations` | every operation on a thread as load, permit, apply, commit and replay |
| `Suggestions` | aliases a model suggests, and their acceptance or rejection over three stores |
| `ConceptViews` | uploads to a view's slot, its history, the pins along it, the mirror of its images |
| `AgentWrites` | agents' observations in a file its owner edits and merges meanwhile |
| `DocumentLinks`, `DocumentCards` | links to another platform's documents; the cards that show them |
| `KeyCache` | the issuer's published keys, kept between requests by two threads |
| `Identities`, `GitAuthors` | who a caller is taken to be; whose names commits bear |
| `Outbox` | the bounded file of outcomes not delivered yet |
| `Previews` | previews, their sidecars and order, and which one is shown |
| `Verdicts` | the merge over defaults, the rules on the facts of a format, the lint, the diff |
| `SearchStores` | what a term finds in each of the two stores, misses, delegation |
| `SpecFiles` | reading a file some of which is invalid, and editing a block of it |
| `SessionTabs` | one person's session in the tabs of a browser, and its renewal |
| `AnnotationScreen` | the query cache and view model of one person annotating |

Components that share no state share a run. Its module composes them: the initial state
chooses which one lives (`part`) and the others keep their first state, so a run's states
are the sum of theirs and its properties are all checked of each.

| Run module | Instantiates |
|---|---|
| `MCHostedRepository`, `MCIdempotentWrites`, `MCHostedIndex`, `MCValidationWorker` | the module of that name, with model values and symmetry |
| `MCFiles` | `HostedRepository`; `SpecFiles`; `SearchStores` |
| `MCSurroundings` | `HostedRepository`; `Identities`; `GitAuthors`; `Verdicts`; `Previews` |
| `MCShared` | `IdempotentWrites`; `AgentWrites`; `DocumentLinks`; `DocumentCards` |
| `MCCollaboration` | `AssetRequests`; `Annotations`; `Suggestions` (and `Policy`, which they use) |
| `MCServices` | `Runner`; `Migrations`; `AnnotationScreen` |
| `MCRules` | `ConceptViews`; `KeyCache`; `Outbox`; `SessionTabs` |

| Proof module | Theorems about |
|---|---|
| `HostedRepositoryProofs` | `HostedRepository`: types, refusals, the branch; with one instance, applied edits, lost updates, the copy, and that it implements `EditLedger` |
| `IdempotentWritesProofs`, `HostedIndexProofs` | the modules of those names |
| `ServiceProofs` | `Runner`, `Migrations`, `AgentWrites` |
| `WorkerProofs` | `ValidationWorker`, `Verdicts` |
| `PeopleProofs` | `AssetRequests`, `Suggestions`, `Identities`, `Annotations`, `Outbox`, `GitAuthors`, `SpecFiles` |
| `CacheProofs` | `KeyCache`, `DocumentCards`, `DocumentLinks`, `Previews`, `ConceptViews`, `SearchStores` |
| `BrowserProofs` | `AnnotationScreen`, `SessionTabs` |

**How a property is stated.** A component's promises are named parts, each with the
comment that says what it is about, and one conjunction of them that the run checks. Where
all parts are about states it is an invariant; where one of them is about a step, the
conjunction is one action property `[][ /\ Inv' ... /\ Act ]_vars`, which says the same of
every state a step reaches.

### HostedRepository

A revision is its history (a sequence of commits), so equality of revisions is
equality of object names and ancestry is being a prefix. A file's content is its
author. The state is the remote's `branch`; the volume's `head`, `tracking`, `files`
and `index`; `served` of every process (`_Held.served`); and for each write-back where
it is (`pc`), in which process, what its author had read (`basis`, the `based_on`
digests) and its attempt.

| Code | Actions |
|---|---|
| `clone` / `_obtain` / `_adopt` | `CloneAdopts`, `CloneObtains` |
| `fetch`, `refresh_project` | `Refresh` |
| `recover`, `resume_project` | `Recover` |
| `write_back` up to the locks | `Draft`, `Submit`, `EnterProcess`, `EnterCopy` |
| `_attempt_until`: deadline, check | `Abandon`, `CheckPasses`, `CheckConflicts` |
| `commit`: write files, `git add`, `git commit` | `Materialise`(`Fails`), `Stage`, `Commit`(`Fails`) |
| `push` and what is read out of its failure | `PushLands`, `PushRejected`, `PushFails` |
| the loop's `except` clauses, `_reset` | `Retry`, `GiveUp`, `ReportUnavailable` |
| the environment | `Crash`, `OutsidePush` |

The steps of `commit` are separate because another process's reset, or a kill, can
fall between any two of them. Locks are not variables: who holds them follows from
the program counters (`ProcessFree`, `VolumeFree`), and a killed process, whose `flock`
the kernel releases, holds nothing.

### IdempotentWrites

The key table `store`, the files on the branch, a clock, and requests that are sent,
recalled or run, performed, recorded and answered. A body carries the content it was
composed against, so the write itself is `EditLedger!Apply`: this is the promise that
`MCOneInstance` checks of the mechanism for one process, and the model uses it for the
requests of any number (section 7). A process runs one handler at a time because the
handlers are `async def` over synchronous code.

### HostedIndex

Commits are numbered; a specification's content is the commit that wrote it. The
write path appears only as what it does to HEAD: a commit, served at once, and then a
push that lands or a reset. The runner's pass is `Start`, then `Skip` / `NotReady` /
`Build`, `Note` (the revision that will be recorded), `Pin` (the one that is read),
one `WriteRow` per specification, and `Finish`, `Refuse` or `Raise`. Readers list, or
read one entry and refresh its row if the file's fingerprint differs.

### The other modules

| Module | State and actions, and the code they are |
|---|---|
| `ValidationWorker` | The branch, the copy (`Sync`), and per pass its stage, its pins and what it inspected: `Advance` goes through `validate_changed_exports`, one export after the other. Digests are of the pinned revision, the mesh is of the copy's file, the commit is composed against the copy |
| `Runner` | The ticker and the notifications are `Drivers` that fetch, `Submit` and `Put`; `Take`, `Started` and `Finished` are the thread's loop. `done` is the completion event |
| `Migrations` | Tables, ledger, rows and one record per process. `migrate.py` is `AppliedVersions`, then `SkipOne` / `ApplyOne` / `FileFails` per file, then `Applied`; `recover.py` is `DropTable`s, a migration and `Rebuild`; `Dies` between any two |
| `AssetRequests` | `ledger` (the request files), `session` (handlers), `dismissed`. A handler reads twice: `Ask` decides who may act and what status the asset has, `Compose` moves what it reads now, `Record` is the compare-and-swap |
| `Annotations` | One file of threads and rules. `Arrive`, `Load`, `Reject`, `Commit`, `Conflict` and `Unreachable` are the loop around every operation with its two attempts; a call names one of the operations |
| `Suggestions` | Specifications, derived records and decisions. An acceptance is `AcceptSuggestion`, `CheckSuggestion`, `WriteAlias`, `RecordAcceptance`, each reading or writing one store; `CallerDies` between any two |
| `ConceptViews` | The commits of one slot, the blobs and the pins. An upload is `Prepare`, `CommitUpload` or `RefuseUpload`, `Mirror`; the history is recomputed from the commits as `view_revisions.py` does |
| `AgentWrites` | The file as a sequence of notes. `RecordObservation` judges one read of it, `ReadToAppend` takes another, `AppendNote` writes it whole |
| `DocumentLinks` | The branch, the one working copy and each process's request: `CreateDocument`, `LoadLinks` or `LoadProject`, `ApplyLink`, `PushLink`, with the attempts of `_write_asset` and `_write_project` |
| `DocumentCards` | What the platform allows, the cache with its ages, one listing under way: `ListCard`, `Answer`, `Resolved` |
| `KeyCache` | The issuer's keys, the cache's keys and two ages, and each thread's retrieval: `Ask` and `Store` are `key_for` before and after it |
| `Identities` | What the issuer says of the person (`Administer`), tokens with an age, the local server's credential and cache. `Authenticate` is a request's, `Resolve` the server's chain provider, cache, local |
| `GitAuthors` | The mapping file (`Remap`) and the log of commit authors; the checks of `actor_checks.py` and the listing of unmapped authors are operators |
| `Outbox` | The file's lines and each process's copy of them: `Report`, `Retain`, `Flush`, `Deliver`, `Rewrite`, with `DiskFails`, `Die`, `Tear`, `Garble` |
| `Previews` | Objects, sidecars, the records and the validation under way: `Judge`, `Put`, `Record` |
| `Verdicts` | A specification, the defaults and an export; everything else is an operator: `Merged`, the rules, the lint, the diff |
| `SearchStores` | Rows of both stores, misses, suggestions: `Upsert`, `Forget`, `Propose`, `SearchAssets` |
| `SpecFiles` | The file's lists with entries that can and cannot be read, and keys of other versions; one action per edit of `writer.py` |
| `SessionTabs` | Each tab's store, timer and renewal in flight; the lock; the announcements on their way. `Acquire` looks again at what the tab holds, `Renewed`, `Refused`, `Unanswered` are the issuer's answers, `Settle` stores one, `Hear` takes an announcement |
| `AnnotationScreen` | The service's pins, the remembered listings, the loads under way and the view model: `SubmitDraft` shows the pin, `Record` or `RefuseWrite` answers, `Settled` places or takes it down |

## 4. The runs

All twelve pass; there are no runs that expect a violation (section 6 keeps what is known
to fail and how to see it). Distinct states found by TLC:

| Run | What it shows | States |
|---|---|---|
| `MCOneInstance` | one process, two concurrent edits of two files, an outside pusher, a failing call: the mechanism implements `EditLedger` (refinement), a commit changes only what its edit names, the copy is clean between edits; a hand-written file keeps what an edit does not touch; two stores answer alike | 80,225 |
| `MCCrash` | kills, lost acknowledgements, a full disk: applied is still published, no overwrite; and what a caller is taken for as things lapse, commit authors, verdicts, previews | 174,307 |
| `MCRollover` | two processes, one killed: refused leaves no trace, nothing published is taken back, every submitted edit ends (liveness) | 361,802 |
| `MCKeyed` | one process: keys keep their answers, refusals stick; agents beside a person, links by two processes, cards of two viewers | 410,535 |
| `MCKeyedRollover` | two processes, a dropped table, one key with two bodies: one commit per draft, nobody is told of another's success | 938,037 |
| `MCIndex` | the journal is right about the rows and flags half-written ones, through restarts and raising rebuilds | 1,657,566 |
| `MCIndexCatchesUp` | the index catches up (liveness) | 470,436 |
| `MCIndexSettles` | rebuilds end with readers refreshing rows and pushes refused (liveness) | 1,203,280 |
| `MCWorker` | two passes over two exports while both and their specifications are pushed: records are of one revision and do not go back; the worker comes to rest with true verdicts (liveness) | 376,088 |
| `MCCollaboration` | requests, threads and suggestions under two handlers each | 469,937 |
| `MCServices` | the runner owes nothing when it says it is done, and the timer alone brings every commit in (liveness); the ledger is the schema; pins are shown as recorded | 130,428 |
| `MCRules` | uploads and pins of one view, the cached keys, the outbox, a session in two tabs | 1,266,230 |

**Bounds.** Two edits and two paths are what a lost update, a mixed commit and an edit
torn in half need (one path where only the fate of whole commits is asked,
`MCRollover`); two attempts are one retry and the giving up after it; two
instances are what every defect of the shared volume needs. Symmetry sets are used
for safety properties only. One outside commit makes a push be rejected, two make the retry be rejected
as well (`MCOneInstance`). Two faults in `MCCrash` let a reset fail after a push did.
In the index, two specifications make a half-written set of rows, and three commits
give a revision to note, one to pin and one to be served after both; `MCIndexSettles`
keeps the three commits and one specification, since it asks nothing of the rows, and
`MCIndexCatchesUp` the two specifications and two commits. Three attempts on
a key are a first, a retry and one from somebody else. In `MCWorker` two exports are of
two assets, each with a content that meets both specifications, one that meets one and one
no inspector can read. Two handlers, two processes or two tabs are everywhere what a
read that is stale when it is used needs, and four events (`MaxEvents`) are a raising, a reassignment, an
acceptance and a fulfilment. Ages (`KeyCache`, `DocumentCards`, `Identities`) stop at one
value that stands for every longer one, so those clocks are not bounded at all. In `MCFiles` three entries (`MaxItems`)
are one that is valid and two that are not, which is what deleting by position gets wrong.
`MaxOutside`, `MaxFaults`, `MaxCrashes`, `MaxDrops`, `MaxClock`, `MaxCommits`,
`MaxRaises`, `MaxRefusals`, `MaxRestarts`, `MaxPushes`, `MaxDeaths`, `MaxCalls`, `MaxAsked`,
`MaxReports`, `MaxOutboxFaults`, `MaxReloads`, `MaxTokens`, `MaxEpochs`, `MaxNotes`, `MaxTime`, `MaxHands`, `MaxLinks`,
`MaxPuts`, `MaxLog`, `MaxMisses`, `MaxDeclared` and `MaxItems` bound the environment and what callers ask for, in the guards. The flags
(`AcksGetLost`, `VolumeFails`, `Reverts`, `PushesRace`, `EntryReads`, `OneAtATime`, `Overlapping`,
`Patient`, `Calm`, `Quick`) switch one behaviour of the environment off, or on, each, so that a
run can say which of them a property survives.

**Deadlock** is checked everywhere except in the two runs with `IdempotentWrites`, where
the requests of the bound are simply all answered.

**Fairness.** `HostedRepository!FairSpec` assumes that a request thread keeps running
while its process lives (weak fairness of each write-back's own steps) and nothing
about callers, the ticker or the remote. `EveryEditEnds` needs the locks to be
released and the retries to be bounded. A caller waits for a lock under weak fairness
only; with the two edits of `MCRollover` that is enough because a finished edit never
takes the lock again. `HostedIndex!FairSpec` assumes the ticker's `sync` and the
runner's drain loop, both `while` loops of daemon threads, and that a push under way
ends. `WorkerFairness` assumes the ticker's fetch and that a pass goes on.
`RunnerFairness` assumes the same loops, that the ticker comes back to each project, and,
under strong fairness, that a fetch and a pass that are tried for ever succeed now and then: the
one thing a timer cannot replace is a remote that never answers. No notification is assumed
to arrive.

**Mutants.** Beside an operator stands, where there is one, its mutant: the same
operator with one plausible mistake. Substituting the mutant breaks the property it
is listed with, which is how we know that the property constrains the code.

## 5. The proofs

All proofs are checked by `tlapm` to the last leaf. The theorems, and what they assume
beyond the modules' named assumptions on constants:

| Theorem | Property | Further assumption |
|---|---|---|
| `TypeCorrect` | `HostedRepository!TypeOK` | none |
| `RefusedNeverRecorded` | `RefusedIsNotRecorded` | acknowledgements are not lost; any number of processes and kills |
| `PublishedForever` | `BranchOnlyGrows` | none |
| `AppliedStaysRecorded`, `NoEditIsLost` | `AppliedIsRecorded`, `NoLostUpdate` | one instance |
| `NamedPathsOnly` | the part `OnlyNamedPaths` | one instance, not killed |
| `CopyStaysClean` | `CopyIsClean` | the same, and files can be written |
| `WritePathIsAtomic` | `EditsAreAtomic`: `Spec` implements `EditLedger` | one instance, not killed, acknowledgements are not lost |
| `KeysTypeCorrect` | `IdempotentWrites!TypeOK` | none |
| `OkIsDone` | `OkMeansDone` | a key and a body always go to one target |
| `AnswersStandAlone`, `RefusalsStickAlone` | `AnswersStand`, `RefusalsStick` | one instance |
| `OneCommitEver` | `OneCommitPerDraft` | `NothingComesBack`: no outside commit restores a file's content, and drafts composed against an outsider's content meet one outside commit at most |
| `IndexTypeCorrect` | `HostedIndex!TypeOK` | none |
| `PartialStaysFlagged` | `PartialIsFlagged` | no refused rebuild, no single-entry refresh |
| `InSyncStaysTrue` | `InSyncIsTrue` | no refused push, no single-entry refresh |
| `RecordsStayTrue` | `RecordsHold` | none |
| `VerdictsFollow` | `VerdictsFollowDeclarations` | none |
| `DoneIsSwept` | `SweepsAreDone` | none |
| `LedgerSaysTheSchema` | `SchemaIsRecorded` | none |
| `RequestsStayHonoured` | `RequestsAreHonoured` | none |
| `SuggestionsStaySettled` | `SuggestionsAreSettled` | none |
| `IdentitiesStayOfLate` | `IdentitiesLapse` | none |
| `ThreadsStayKept` | `ThreadsAreKept` | none |
| `ViewsStayKept` | `ViewsAreKept` | none |
| `AgentsStayBounded` | `AgentsAreBounded` | one call under way at a time, and nothing between an append's read and its write (`AtOnce = 1`, `Quick`) |
| `OutcomesStayDelivered` | `OutcomesAreDelivered` | `OneAtATime`: no two processes use the file at once |
| `AuthorsStayKnown` | `AuthorsAreKnown` | none |
| `FilesStayKept` | `FilesAreKept` | none |
| `StoresStayAlike` | `StoresAnswerAlike` | none |
| `KeysStayCurrent` | `KeysAreCurrent` | none |
| `CardsStayAllowed` | `CardsAreAllowed` | none |
| `LinksStayAccounted` | `LinksAreAccounted` | none |
| `PreviewsStayFresh` | `PreviewsAreFresh` | none |
| `PinsStayTrue` | `PinsAreTrue` | `Calm`: nothing is sent and no sheet left before the answers to the last act are in |
| `TabsRemainSignedIn` | `TabsStaySignedIn` | `Patient`: nobody signs in or out while their tab is renewing |

The assumptions are there because the code needs them: section 6 names, for most, the
behaviour in which the property fails without it. In particular the copy is clean, and the
ledger implemented, by a process that is not killed: a killed one leaves its commit and its
index in the volume, and the next write-back, or a fetch that spares unpushed commits, goes on
from there. The two `TypeOK` of `IdempotentWrites` and `HostedIndex` are
proved and no longer checked by a run.

An invariant is seldom inductive as it stands. What each proof adds:

- **No trace of a refusal.** A refused write could be on the branch
  tomorrow if its commit were still in the copy today. `RefusedInv`
  says that one writer is inside the volume's lock (`Exclusive`), that a write that has
  made no surviving commit appears in none of `branch`, `head` and `tracking`, and that
  one whose commit is in the copy is still on neither of the other two (`Hidden`). Both
  of `_reset`'s outcomes restore it: reached, HEAD is the branch; unreached,
  HEAD is `tracking`, which never holds an unpublished commit.
- **Applied is published**, with one process: a write's content is in the files, then
  in the index, then in the commit at HEAD (`Carried`), up to its push, because
  whatever moves HEAD waits for the process's lock. With two processes `Carried` is false (section 6).
- **No lost update**, with one process: the served revision is HEAD while anybody is
  inside the lock (`Level`); a passed check stays valid until the commit (`Checked`);
  so every commit of every history the service knows replaces what its author had read
  (`Honest`), and an edit not yet composed is in none of them (`Unread`). Outsiders are covered because a push needs a fast-forward.
- **The clean copy and the refinement.** `NamedInv` adds that the index differs from HEAD in
  paths of the edit inside the lock only (`IndexTidy`) and so does every commit of an edit from the one
  before (`Narrowed`); `CopyInv` that the files do (`FilesTidy`), and that HEAD is in the
  branch's past unless a write-back's commit is pending (`Rooted`).
  `AtomicInv` collects what the refinement mapping needs: the
  step that maps to `EditLedger!Apply` is the push that lands, and it is one because what it
  publishes replaces what the caller had read, names its paths only and carries their content.
- **Keys.** `OkIsDone` carries that every success in the table or in an answer belongs
  to an attempt that landed under the same key and body (`DoneInv`). `AnswersStandAlone`
  carries that between `Begin` and `Remember` nobody else is in the process (`Alone`)
  and that whatever was told is still what the table says (`Stands`). `OneCommitEver` is
  about a file's history: the contents it had are chained (`Chained`), and what a landed
  draft was composed against has been used up (`Spent`).
- **The index.** While rows are being written, the rows of specifications already
  visited are those of the pinned revision (`RowsSoFar`); the noted revision is the older
  of the two and HEAD, while no push is refused, only moves on (`HeadMovesOn`), so when
  HEAD is still the noted revision it was the pinned one as well (`CurrentIsWhole`).
- **Records.** Every tree the service holds, the branch's, the copy's and each pass's pin,
  is of some push, with records of no later one; what a pass is about to commit is of its
  pin (`WorkerInv`). The branch's pushes are kept beside it, so that "of one revision" can be said.
- **The runner.** A pending name is in one place, the queue, on its way to it, or just
  taken (`Queued`); a project that is owed a pass is pending (`Owed`).
- **The schema.** The ledger holds a first stretch of the files even while it is torn
  (`LedgerHolds`), and each process knows how far it has emptied or applied (`ProcessHolds`).
- **Requests.** Every history in a file or in a handler's hands replays, was decided
  rightly and continues the one it was composed on; whoever was allowed to decide when the
  handler asked stays allowed as the history grows (`SessionsHold`).
- **Suggestions.** An acceptance under way is an owner's, of a term that is one, and what
  it has written was declared (`CallsHold`).
- **Threads.** What a request has composed keeps the threads of the specification it was
  composed on (`KeepsThreads` in `WriterOK`), and it lands on that one only. The rest is
  what each operation does to a list of threads: the first entry of an identifier is the one
  that is found (`First`), and taking one out leaves the others in their order
  (`PickedParts`), since `Positions` says a filter by the positions it keeps.
- **The outbox.** The lines the one busy process holds are those of the file, but for damaged
  ones it has counted, and everything owed is among them (`Retaining`, `Delivering`); no outcome
  in the file was delivered more often than reported, faults apart (`Settled`).
- **Agents.** A call that is under way may still write: fewer notes than the allowance are
  recent enough to share a window with its own, and its twins have been reopened (`CallOK`).
  That bounds the windows the new note falls in, and `SpansOK` already bounds all others.
- **Verdicts.** The invariant is small (a section that is absent declares nothing); the
  proofs are of the operators: the merge is monotonic in what was declared nowhere, a rule
  that another format cannot evaluate is not passed in it, and what a verdict is computed from
  is among the fields the diff compares.
- **Views.** An upload rests on a slot somebody saw, and then on the image its commit
  published (`UploadsHold`). The history is a set of commits and places in the list of formats
  with an order; a commit adds to it at its end, so a step of the walk that breaks the shape
  stays where it is (`WalkStops`: an orphan stays one), and an image of another shape makes one
  between the newest entry before the commit and its last (`ShapeBreaks`: what is reported is
  so). The newest entry, the first format held and the commit that last touched the slot are
  each the least of a set of naturals (`LeastOf`).
- **Authors.** The entry found for an address is the first that owns it, a least place. As
  long as no two entries share an address, the first is the only one. That the listing of
  unmapped people names each once is a bijection between its places and the missing addresses.
- **Files.** The repair of a list is a recursive function; that it ends is an argument on the
  shortest list it would not end on, and what it leaves has nothing wrong in it (`RepairedParts`). An
  edit proposes a reading whose annotations have an id each (`Proposed`), and rendering it gives a
  yaml that is read as that (`RenderReads`), since an id is on one annotation (`FilesInv`).
- **The search stores.** Rows hold what was given, with the aliases joined (`RowsKept`); the log
  is what was missed as long as no term breaks, and the table counts each key under the first
  spelling of it (`MissesKept`). The rest is about text: a text is cut at its breaks and its ends
  (`SplitIs`), so joining texts keeps their parts and gains none (`PartsJoin`, and by the shortest
  list it would fail on, `JoinedKeeps`); what is stripped or joined is a piece of the whole
  (`WithinTrans`), and so whatever answers a term is fetched (`NoneIsMissed`).
- **What ages.** Keys, cards and identities share one argument: what is held was true within
  the time since it was read, and every clock that measures the one measures the other.
  `KeysInv` bounds how long ago a cached key was withdrawn and a missing one published by the stamps
  of the retrieval; `CardsInv` says that what is cached, or about to be shown, could be read
  within its age; `IdentitiesInv` says it of every token, of what the server remembers and of
  what it answered.
- **Previews.** Sidecars are of what was put, objects come first (`ObjectsFirst`), and contents
  put once each are numbered in that order (`Numbered`).
- **Links.** What is in the working copy and not on the branch is one request's
  (`OneApplied`), each request's target is what it loaded plus or minus its document, and a
  made document is told of, lost, or carried by the one request past making it.
- **Pins.** Every listing, answered or remembered, lies between what the person had been
  told of and what the service holds, and so does what is shown, but for the pin being
  written, which is on no sheet before it is recorded (`ScreenInv`). `Calm` is what makes
  the listing stored after an acknowledgement one that was asked after it.
- **Tabs.** Under the lock one tab asks; a token it asks with and that is still valid is its own,
  a freshly answered one is nobody else's, announced tokens are distinct and spent ones no longer
  valid; and every token held or announced leads to one the issuer takes: it is that, or its
  successor is announced later in the same queue, or the tab that spent it is about to say so
  (`TokensLive`). That the announcements of a queue form such a chain is what makes the
  invariant inductive.

**Only model-checked.** Liveness (`EveryEditEnds`, `CatchesUp`, `JournalSettles`,
`SweepsSettle`, `TimerCatchesUp`) needs ENABLED, which the provers cannot do. Nor can they
use an induction theorem over data, which takes an operator as a parameter. So an operator
that can be said without recursion, by the positions a filter keeps or by the least of a set
of numbers, is said that way; the joining of a list and the repair of one are recursive
functions, and that they are what their definitions say (`JoinedIs`, `RepairsAre`) is
proved from a function that has that property; an induction is an argument about the least
counterexample.

## 6. Where the properties stop holding

None of these is a run: each is what a run's model shows when one of its constants is
changed as the table says, with the property as the only one. They are kept here
because they bound what the passing runs claim. "*Observed*" marks a behaviour of the code seen
while modelling it, that no property of a run contradicts.

**The core**

| From | Constants | Property | In the code |
|---|---|---|---|
| `MCRollover` | no kill, `AppliedIsRecorded` | `AppliedIsRecorded` | another process's recovery resets HEAD between commit and push; the push sends nothing and succeeds (`repository_host.py:493`) |
| `MCRollover` | two writes of one file | `NoLostUpdate` | the precondition is judged against a revision this process remembers (`repository_host.py:317`), HEAD has moved |
| `MCCrash` | one write | `ServedAtRestIsPublished` | boot adopts and fetches; only `resume_project`, which nothing calls, would discard (`hosted.py:507`) |
| `MCCrash` | no crash | `ServedIsPublished` | reads between commit and push answer from an unpublished commit (`repository_host.py:410`) |
| `MCRollover` | `AcksGetLost` | `RefusedIsNotRecorded` | a landed push with a lost acknowledgement is answered "no change was recorded" (`hosted_repository.py:327`) |
| `MCOneInstance` | one crash | `OnlyNamedPaths` | files staged by a killed edit go out with the next person's (`repository_host.py:406`) |
| `MCOneInstance` | `VolumeFails` | `WorkingCopyReturned` | an `OSError` half way leaves the copy modified (`hosted_repository.py:323`) |
| `MCKeyedRollover` | one key, one body | `AnswersStand` | `remember` overwrites a live record (`postgres/idempotency.py:66`), whatever the port promises |
| `MCKeyedRollover` | `Drafts <- TwoTargets`, two targets | `OkMeansDone` | the digest does not cover the address (`routing.py:168`) |
| `MCKeyedRollover` | `Lifetime = 1`, `Drafts <- OneDraft`, `Reverts` | `OneCommitPerDraft` | a reverted file lets an expired key apply again (`use_cases/idempotency.py:64`) |
| `MCIndex` | `PushesRace` | `InSyncIsTrue` | HEAD is noted before a reset and read after it (`deployment_status.py:210`) |
| `MCIndex` | `EntryReads` | `InSyncIsTrue` | a pinned reader files an old row under a new fingerprint (`index_assets.py:374`) |
| `MCIndex` | one refusal | `PartialIsFlagged` | a refused rebuild takes down the flag of one that raised (`deployment_status.py:223`) |
| `MCIndex` | listings | `ListingsAreWhole` | rows are read before the flag is asked (`routing.py:84`) |
| `MCIndexSettles` | one raise, two commits | `JournalSettles` | a rebuild of a commit that is then discarded raises; HEAD is back at the revision last built, nothing rebuilds, and the flag refuses listings until the branch moves (`background.py:290`) |
| `MCWorker` | `Reverts` | `VerdictsComeTrue` | a file that is replaced and put back around a fetch that races the reading: the wrong verdict is of the right digest and is never looked at again |
| `MCWorker` | two exports of one asset | `CommitsStop` | the asset has one record; each export's pass finds the other's and rewrites it, for ever (`validation_outcome.py:19-21,132-134`) |
| `MCWorker` | a specification-only change | *observed* | a change of specification that leaves the verdict makes every later pass read the mesh again, because the record that would say so is not committed |

**What people edit**

| From | Constants | Property | In the code |
|---|---|---|---|
| `MCCollaboration` | | *observed* | a dismissed item is never unread again, whatever happens to its request (`dismissals.py:45`; `add-web-backend/specs/asset-requests/spec.md:172-173` says otherwise); reassigning has no guard on the request's state; `link_to_asset` is called by nothing; no notifier is wired |
| `MCCollaboration` | | *observed* | one draft sent twice at once, to two processes, leaves twin annotations with one identifier (`annotations.py:426`); a pin may be anchored to a view removed meanwhile; a promoted annotation without replies can be withdrawn; reopening what is open is not refused |
| `MCCollaboration` | | *observed* | rejecting asks only that the value was suggested, so any identified person's rejection replaces the acceptance's record though the alias is in the specification (`derived_metadata.py:505`); an acceptance never checks that the image belongs to the asset; a dropped index forgets the rejections and offers them again |
| `MCRules` | | *observed* | a jpg that replaces a png ties with its removal, which sorts first: the view is listed as removed (`view_revisions.py:189`), and any change of format orphans the pins that were reported carried |
| `MCRules` | an empty slot, two formats | `ReplacementsReplace` | two uploads each find their own path free: the slot holds two files, its history and the reports disagree, and the second format conflicts ever after (`ingest_views.py:510`) |
| `MCRules` | | *observed* | re-anchoring records the branch's head as the revision, which is not one of the view's: the pin stays orphaned (`annotations.reanchor_annotation`; the other one, in `view_revisions.py`, is wired to nothing) |
| `MCKeyed` | `AtOnce = 2` | `OneOpenTwin`, `WithinAllowance` | two server processes of one agent both judge the file before either has written |
| `MCKeyed` | `Quick = FALSE` | `OnlyTheirNote` | what its owner saved between the append's read and its write is lost (`annotation_writer.py:161-165`) |
| `MCKeyed` | | *observed* | two agents saying the same in the same second get one identifier, as does one who repeats a resolved observation within it (`observations.py:463`) |
| `MCKeyed` | antecedent of `OneLinkPerWrite` dropped | `OneLinkPerWrite` | a project's link is digested at the served revision and computed from the working copy's file (`documents.py:656-661`): another process's refused link is written with it |
| `MCKeyed` | | *observed* | a document created and not linked, or created with its answer lost, is created again by the retry; unlinking goes by identifier alone, whatever the workspace; a card whose summary could not be read is cached without one |

**Caches, files and schema**

| From | Constants | Property | In the code |
|---|---|---|---|
| `MCRules` | | *observed* | an unknown key within the cooldown of a *failed* attempt is refused as one the issuer does not publish, though it was never asked (`keys.py:168-171`); a retrieval under way in the other thread does the same |
| `MCRules` | `OneAtATime = FALSE` | `RetainedUntilDelivered` | two processes rewrite the outbox from what each read (`outbox.py:207`) |
| `MCRules` | | *observed* | a re-reported outcome keeps its old place and can be the first one dropped although its verdict is the newest; as wired there is no destination (`build.py:152`) |
| `MCServices` | `torn` not excluded | `LedgerIsTrue` | a recovery killed among its drops and followed by a plain release leaves a ledger that says applied and tables that do not exist |
| `MCServices` | | *observed* | the second of two concurrent releases fails on the ledger's primary key with the schema in place (`migrations.py:212`) |

**The browser**

| From | Constants | Property | In the code |
|---|---|---|---|
| `MCRules` | `Patient = FALSE` | `OwnCredential` | signing out, or in as another, while a renewal is under way is undone by its answer (`renewal.ts:148`, `SessionBar.svelte:36`) |
| `MCRules` | | *observed* | a timer that fires early, or a clock set back, finds nothing due and is not set again (`renewal.ts:97`); a duplicated tab starts with a token already spent; an answer lost on the way spends the token |
| `MCServices` | `Calm = FALSE` | `RecordedPinsShow` | a load under way when a write lands stores the older listing after the invalidation (`cache.ts:61`); a load that ends after navigating hydrates the view model with the asset left behind, and later writes go there |
| `MCServices` | | *observed* | a thrown network error leaves the pin pending and saving disabled for ever; every submit draws a fresh identifier and sends no key, so a retry after a lost answer is a second annotation; refusals are cached |

Two-process runs matter during a rollover: the volume's lock file exists for that case
(`repository_host.py:354-359`).

**Seen while reading, of parts whose models do not depend on it**

| Part | In the code |
|---|---|
| Identity | `ActorResolver._from_provider` catches everything, so a credential the issuer rejects is treated as an issuer that cannot be reached and the remembered identity stays verified for its whole life (`resolve_actor.py:236`); the local server keeps the credential it read at its start whatever signing in or out does; reads by a remembered identity are not gated by `verified` |
| Session tabs | after its await a renewal does not look again at what the tab held when it asked, so a tab that adopted an announced token while asking drops a live session when its own question is refused |
| Diff | `compare` goes over the fields of the current revision alone (`diff_spec.py:174-182`), so a section that was dropped is unchanged; what a state says beyond its name, `skinned` and the project's defaults are not compared |
| Lint | an asset is linted on its own constraints without the project's defaults; an empty `clip_naming` is the default for the lint and an empty pattern for the merge |
| Rules | an export that claims several levels of detail is reported as passed for `lod.exceeded`; a fact that is None passes in silence; triangle strips and fans count as no triangles |
| Previews | two puts can get one ordinal when a content is put again (`minio/blob_store.py:229-239`); a preview that could not be made leaves the older one to be called that of the latest export (`viewer.py:201-209`); a preview is stored before the record it belongs to is committed |
| Search | nothing fills a row's tags and description; a line break within a name or an alias splits it in sqlite; a blank term is a recorded miss in one store and skipped in the other; a search that finds nothing is recorded as missed once per page, and also while the index is being rebuilt; `is_stale` does not ask which project (`index_assets.py:346`) |
| Specification files | `_drop_invalid` deletes by the positions of the unedited list (`schema.py:471-475`), so two invalid entries take a valid third with them, and an edit of that list then writes it so; annotations without a usable anchor and document links that cannot be read are dropped by the next edit of their block; an unknown state is read as open |
| Screens | a page past the last one says that there are no assets yet; an empty result of a stale copy does not say that it is stale |
| Command line | a missing image, an unwritable `--out` and a refusal at the start of a device sign-in are uncaught and exit with 1, which means violations, where `exit_codes.py` reserves 2 for "could not run"; a malformed `CANON_AUTH_GROUP_ROLES` stops even `canon validate` |

## 7. Abstractions

- `git fetch`, the test for unpushed commits and the reset that follows are one step of
  `Refresh` and of `Recover`; a failing `git reset` is not told from an unreachable
  remote; git's own lock files are not modelled.
- Writing the files of one edit is one step, except when one of them cannot be written.
  Deletion and absence of a file are contents like any other.
- The first clone is one step, and two processes cloning an empty volume at once are
  not modelled.
- The recovery that `_ensure` triggers is covered by `Recover`, which may happen at any
  time. The deadline may have expired at the start of any attempt (the hosted wiring
  passes none).
- The remote's history is never rewritten by outsiders.
- `IdempotentWrites` takes a write to be an atomic compare-and-swap also between two
  processes. `MCOneInstance` establishes it for one and it is false for two (section 6), so what `MCKeyedRollover` shows is what the key table adds given that promise.
- In `HostedIndex` the fetch inside `sync` is one step, the retries of a write-back are
  folded into commit and push-or-reset, an unreadable specification is a missing one,
  a listing is one query, and the validation worker's own index update is left out.
- In one process all handlers share one event loop; the models of the write path allow
  more interleaving than that.
- Times (when a revision was confirmed) are left out, and with them staleness reports.
- Handlers that hold no lock are split where they read and where they write, and nowhere else.
- The issuer, the document platform, the language model, the object store and the notifications are
  what the code makes of them: an answer, a refusal or silence, at any time.
- Text is a model value unless two texts are compared (`SearchStores`, `Verdicts`,
  `Suggestions`), and then it is as long as the comparison needs.
- `OwnCredential` and `RecordedPinsShow` hold for a person who waits (`Patient`, `Calm`);
  section 6 shows what happens to one who does not.

## 8. Plan

Done: the modules, runs and theorems above. What is left:

1. Proofs: with two processes, what a killed one leaves of
   `AppliedIsRecorded`.
2. Relating the modules: that the write `DocumentLinks`, `AssetRequests` and
   `ValidationWorker` take for granted is the one `EditLedger` specifies is said of each
   definition, and checked of `HostedRepository` alone.
3. Freshness: when a revision was confirmed, and what readers are told of it.
4. The first population of a volume by two processes; stopping the runner and starting it again.
5. The other screens of the web application, and its held write once something submits through it.

Not planned: mesh and image decoding, YAML and rendering, routing and payloads of the
command line, HTTP and MCP surfaces (they add no state), calls to language models, build and
deployment tooling.

## 9. How to run

```
tlc -workers 2 -config MCOneInstance.cfg MCFiles.tla
tlapm HostedRepositoryProofs.tla
```

A `.cfg` starts with the question its run asks; `PROJECT.json` names the module each
one belongs to.
