# A TLA+ model of PuddingKnowledge

PuddingKnowledge takes the knowledge base out of an older product (the
*legacy* or *Harness* side) and runs it on its own: a persistent local
workspace with a Catalog, a Wiki, captures, connectors and packages; workers
that process them; and the machinery that moves an installation, its writers
and its traffic from one side to the other and back.  It is a Python program
over SQLite files, lock files and small JSON files.  Nothing in it is a
distributed protocol in the textbook sense, and yet its hard parts are of that
kind: several processes and threads over shared files, long operations outside
any transaction, commands that are retried after a crash, and promises such as
"at most once", "only one writer", "never both sides at once".

The modules here model those parts.  All paths below are relative to
`backend/knowledge_platform/`.

## What there is in the system

| Part | State it keeps | Operations | Made correct by |
| --- | --- | --- | --- |
| Continuity sidecar (`continuity/sqlite.py`) | state row, one run per idempotency key with owner and lease, audit rows, all in one SQLite file | stop_legacy, activate, process (claim, handler, complete or release), rollback | legacy and sidecar never both work; a key has one result; a lease excludes |
| Ordered cutover (`continuity/cutover.py`) and traffic policies (`continuity/traffic.py`) | a state per unit and a policy per capability, each in a SQLite file; the coordinator caches its own | promote, stabilize, rollback, dispatch; configure, set_health, decide, record_failure | units go in order; a unit is served under one revision; a rollback holds |
| Wiki generation (`local/wiki_authoring_queue.py`, `wiki_queue_control.py`, `wiki_authoring_generation.py`) | queue rows with their control history, proposals | enqueue, cancel, reschedule, run_queue, generate, abandon | the model is called at most once; what is withdrawn never runs; what is due is served |
| Writer authority (`local/writer_authority.py`, `workspace_freeze.py`, `workspace.py`) | journal, binding, freeze marker, receipts, two lock files, descriptors of threads | open, close, worker start and exit, enroll, freeze, suspend, assign, thaw | at most one writer, only while the journal allows it |
| Local supervisor (`local/supervisor.py`) | lifecycle lock, control file, state file, three processes | start, stop, status, signals, lifeline | one manager per Home; stop means stopped; nobody is left behind |
| Feishu sync (`local/feishu_sync.py`) | a run per key with its lease, source items and assets, a file lock per connector | claim or take over, list, read, fetch and publish item by item, reconcile | newer content is not overwritten; what is reported as synced is; a run has one configuration |
| Connector sync (`connector_sync/`) | leased runs over one connector | claim, read, complete | a lease excludes |
| Deployment pointer (`catalog/deployment.py`, `deployment_sqlite.py`) and its read fence (`transport/query_adapters.py`) | one row, an event per save in a second transaction, a copy of the row in every process | prepare, drain, verify, activate, rollback; capture and assert a read context | only what was verified is activated; an answer is from one bundle |
| Catalog activation (`catalog/activation.py`) | the same for one Catalog | the same, without reads in flight | the same |
| Wiki compilation and publication (`wiki/compiler.py`, `wiki/sqlite_jobs.py`, `wiki/local.py`) | job rows without lease, page, temporary and archive file, manifest with its lock | claim, publish, complete, release; retire | one process per key; a page is whole; nothing is overwritten |
| Capture (`capture/`) | job rows without lease, published files | claim, publish, complete, release | the same |
| Processing and semantic builds (`catalog/sqlite_processing.py`, `structured/job_worker.py`, `semantic/worker.py`) | leased job rows, built files | claim, build, publish, complete | publish once, resume after a crash |
| Path rebind (`distribution/installation_path_rebind.py`) | a Catalog with part and backup, a receipt with its part | one command, retried | every interruption can be resumed; no foreign bytes are certified |
| Platform Home of the deploy CLI (`packages/knowledge-platform-deploy-cli/`) | releases, `deployment.json`, environments, `installed.json`, two lock files | deploy, install, backup, and commands to a running runtime | a record names what is there and complete |
| Wiki store (`local/wiki_authoring.py`), lint and schema rules (`wiki/`) | pages, revision, commits | initialize, apply, read | idempotent commits, one revision chain |
| Catalog queries, database guardrails, retrieval, router, packages, parsers, transport | mostly none between calls | pure functions and remote I/O | results of single calls |
| Distribution, baseline, readiness, rehearsals | reports | audits over files | deterministic reports |

How they interact.  The supervisor starts the local runtime, which opens the
workspace and so needs the lifecycle lock and the permission of the writer
authority; its queue worker keeps that permission until its last write.  The
worker runs Wiki generation against the revision of the Wiki store.  The
cutover coordinator configures the traffic policies and dispatches requests to
either side; the sidecar is the side it dispatches processing to.  The
deployment pointer decides which bundle the reads refer to.  The deploy CLI
brings the runtime that the supervisor starts, and the path rebind makes a
candidate usable at the place the Home has given it.

`PROJECT.json` lists every part, modelled or not, and every hazard at its line.

## Modules

| Module | Models | Composes with |
| --- | --- | --- |
| `Continuity` | what the sidecar promises: a mode, and one result per key | |
| `Sidecar` | `continuity/sqlite.py` | implements `Continuity` |
| `OnceTask` | what the queue promises for an operation | |
| `WikiGeneration` | queue, controls and proposals, and the revision of the Wiki store | implements `OnceTask` |
| `WriterFence` | a permission that changes only over an empty workspace, which one process may be in | |
| `WriterAuthority` | authority, freeze and workspace lock, with queue workers | implements `WriterFence` |
| `PinnedRevision` | a unit is served under one revision for ever | |
| `Cutover` | the coordinator together with the traffic policies | implements `PinnedRevision` |
| `Supervisor` | start, manager and runtime | |
| `PathRebind` | the rebind of a moved candidate, attempt after attempt | |
| `DeployHome` | deploy, install and backup over one Platform Home | |
| `ReadFence` | what the fence promises a reader: one selected bundle, whichever process looks | |
| `DeploymentFence` | the deployment pointer and the requests it fences | implements `ReadFence` |
| `WikiPublication` | compilation jobs of one page with their files, and its retirement | |
| `SerialSync` | what the syncs of a connector promise: one attempt after the other | |
| `FeishuSync` | syncs of one connector, its remote side and its administrator | implements `SerialSync` |
| `MC...` | symmetry and model values of the runs | |
| `...Proofs` | theorems and proofs about the module of that name; `WikiProofs` is about `WikiGeneration` and `WikiPublication`, `CatalogProofs` about `DeploymentFence` and `FeishuSync` | |

In all of them one transaction of SQLite, one atomic file operation or one lock
operation is one action.  What the code reads in one transaction and uses in
the next is kept in the record of the call, so that everything else may happen
in between.  A crash forgets that record and leaves the files.  Digests and
receipts are represented by what they are digests of.

### Sidecar

`runs` is the table `platform_continuity_runs`, `legacyEnabled`,
`sidecarActive` and `activeRevision` are the state row, `calls` the local
variables of the concurrent `process()` calls.  `_claim` and `_complete` read
the clock before `BEGIN IMMEDIATE` waits for the write lock; in the model the
reading is a step of its own, and the transaction tests the lease against that
older instant.  The handler runs outside any transaction for any time.
History: `returned`, the answers callers got, and `claims` and `rollbacks`,
which number leases and rollbacks.

### WikiGeneration

A call of `generate()` reads earlier proposals, reads its context, claims,
invokes the model, settles; each is a transaction.  `run_queue` selects an
admission in a transaction before all these, so the admission may be cancelled,
rescheduled, claimed by a direct caller or abandoned at each point.
`modelCalls` counts the calls of the model.  A commit of the Wiki store appears
as `Publish`, which moves its revision and so makes admissions stale.

### WriterAuthority

Files are published in steps (`.part` written, linked, sealed), and a crash in
each step leaves its own combination, `Torn` included.  A lock is held as long
as one descriptor on it is open: the model has the set of descriptors each
process holds on each lock, those retained by its queue worker included.  All
locks are taken without waiting; a refused command closes what it has opened
(`Refuse`).

### Cutover

`stored` is the table of units, `states` the coordinator's copy, which `_save`
changes before it writes.  Every save may fail, and the process may die between
any two.  The decisions of `traffic.py` that only send a request back to legacy
change nothing and are stuttering steps.

### Supervisor

`start[s]`, `manager[s]` and `child[s]` are the three processes of one
invocation.  The lifecycle lock is not a variable: it is held by whoever has
the open file, a start before it has handed it over or a living manager
(`Owns`).  `GivesUp` needs no condition: the deadline may pass at any point.
`AnswerFails` is an answer to a stop whose client has hung up or whose wait
failed: the loop goes on with or without the runtime.  A runtime that serves may
be `busy` with a request; SIGTERM, from its manager (`ManagerAsks`) or from its
lifeline, ends it only before its handlers are in place.  Later it asks uvicorn
to exit (`draining`), which waits for requests in flight (`waiting`) without a
limit.  A manager kills a runtime that does not exit in time; the lifeline
signals once and nobody escalates.  Authentication, the
token and the health probe are taken as given, `status` only reads.
A start that fails writes `failed` after its manager has let go of the lock, so
another start may read that report as its own and give up (supervisor.py:590).
The model has that behaviour; the repository promises nothing about it.

### PathRebind

One attempt at a time, since it holds the lock of the candidate.  Every file
step (link, replace, unlink, open, write) is an action, and `Fails` and `Killed`
may come between any two; what the next attempt finds is what lies there.  The
bytes of a Catalog are the place its paths are bound to, the rewrite to a place
is deterministic, and `Foreign` are bytes no rewrite produces.  Whether two
names are links to one file is a variable (`oneCatalog`, `oneReceipt`), since
the code asks for link counts, and a write to the Catalog reaches a backup that
shares its inode (`Drift`).  While the transaction of the rewrite is open, SQLite
keeps a journal beside the part (`sidecar`, its kinds taken as one); an error rolls back and removes it, a
kill leaves it.  A later attempt discards part and journal in that order, and
only if it finds the part; what refuses removes the part alone.  History: `began`, `drifted` and `unseen`.

### DeployHome

Each `deploy` and `install` is a process with its stage.  A lock file is created
exclusively and is left behind (`Stale`) by a process that is killed, until the
operator removes it.  `install` reads the deployment before it takes its lock.
An environment is `partial` from its first directory to its last check.  The
backup takes no lock: it lists `deployment.json` before the releases and reads
what it has listed afterwards.

### DeploymentFence

`pointer` is the row, `cache[c]` the copy each controller has as `_state`; only
the reads refresh it, and `Save` overwrites the row whatever it holds.  `owed`
is the event that follows in a second transaction, which may fail.  A request
(`query`) captures its context, awaits the services and is asserted; `changes`
counts, up to two, how often the bundle has changed meanwhile.  A digest is the
bundle itself.  History: `verified` and `movers`.

For `ReadFence` only the context of the row (`Selected`) and the stage and context
of each request (`Reads`) are seen: a save selects a context, a capture and an
assertion begin and end a read, and a restart drops the reads of its process.
Copies, owed events and refreshes are not seen.

### WikiPublication

Names (`temp`, `page`, `archive`) point to inodes, and `text` is what an inode
holds: that a name opened again truncates the other names of its inode is what
the publication has to be right about.  `Raise` is any exception on the way,
which leaves the files and releases the claim; `Die` leaves the row running too.
`record` is the last line of the manifest, which is read whole, opened (emptied)
and written.  The retirement of the page runs beside the compilations.

### FeishuSync

`sync[p]` is the call of `sync()` in a process, `runs` and `items` the two
tables; the asset of an item is the revision it was fetched at.  The connector's
lock is held as long as the call is not idle, and goes with its process; the
row of the run does not.  The listing, the read of an item, the fetch and the
publication are four steps, and the remote side (`Edit`, `List`) and the
binding (`Configure`) may change between any two.  `Fenced` is `_fence`, in
front of every publication.  Tables are fetched one by one and published in one
transaction.  `listed` and `config` of an item are history.

For `SerialSync` a call is an attempt (`Attempt`): its key, its mode, its
listing, the number of that listing and the revisions the items had then.
Process, owner and stage, and what the call has read and fetched, are not seen.
A claim begins an attempt and needs that none is open; every publication is a
write behind the fence; a failure or a death abandons the attempt, and whoever
takes the run over begins anew.

## Runs

| Run | Question | Instance and why it is enough |
| --- | --- | --- |
| `sidecar` | does the lease protocol keep one result per key, across rollback and re-activation? | two calls over one key (keys do not interact), two revisions, two results and a foreign one; a lease of one tick and a clock of two, so a lease can be live, just over, and over when read early; three claims, so a run is taken over twice |
| `wiki_generation` | is every operation handled once, whoever races? | one operation, a worker and a direct caller, two commands, two controls in the history, one crash; operations share no rows, and the queue order is the question of the next run |
| `wiki_queue_liveness` | is a due admission served, even behind stale ones? | two operations in one queue, one worker that restarts |
| `writer_authority` | who may write, and what is left on disk? | two processes, two operation ids, a manifest of each kind, six revisions: enroll, suspend, assign, and a second round |
| `deployment_fence` | does a read see one bundle, and is the pointer moved lawfully? | two processes that move the pointer and read, three bundles of which two share a revision, two proposals, one request: a change there and back, and between bundles of one revision; nothing bounded |
| `cutover` | order, pins and rollback under failing writes | two units, the first with two capabilities, so a promotion can stop half-way; two revisions; nothing bounded |
| `supervisor` | who owns a Home, what is left behind, do starts return, and do orphans end that do not hang in a request? | two starts, one that owns the Home or has failed and one that wants it; no symmetry, nothing bounded; the safety properties are proved for any number |
| `path_rebind` | can every interruption be resumed, and what is certified? | three places, two moves (away, and on or back), three faults, so an attempt, its retry and the retry of that may each be interrupted |
| `feishu_sync` | what is stored after syncs that overlap with changes, deaths and take-overs? | two processes and two keys, so a run is taken over by the other process and followed by another; two items, one of which may go while the other changes; two bindings of one selection and one of tables; two revisions, two listings |
| `deploy_home` | do the records name what is there? | two deploys, two installs and a backup over two releases; nothing bounded |
| `wiki_publication` | what do attempts that raise, die or overlap leave behind? | two processes, three keys of one page (one before, one during, one after a retirement); five inodes, one for each of three names and two open files |
| `overwritten_page` | *finding*, see below | two processes, two keys |

Deadlock is checked in `deployment_fence`, `path_rebind`, `deploy_home` and
`feishu_sync`, where there is always something to do next.  It is not an error
in the others: each of those systems may come to rest (all bounds used, every
start returned, every process down, every claim left by the dead).

What each refinement adds to the listed invariants: `ImplementsContinuity`
says that a recorded result never changes and that the modes exclude each
other, `RunsOnce` that a claimed operation is never withdrawn, `ImplementsFence`
that there is one writer and that the permission is never withdrawn under it,
`ImplementsPin` that a unit is served under one revision for ever, `ReadsAreFenced`
that a request is answered just when the context it was captured under is the one
selected at its end, through whichever process's copy it was read, `IsSerial`
that what overlapping, failing and dying syncs write is what attempts made one
after the other could write, each under the binding its run was requested for
(which includes `RunHasOneBinding`), behind its own listing, and that none is
reported as succeeded before its listing is there.

Four properties say under which use they hold, or name what the code leaves
open.  `OrderedUnits` exempts the units whose save has failed and those an
interrupted rollback has left behind (`MCFailedWrite.cfg`, `MCTornRollback.cfg`);
`RetryRebinds` exempts two windows of an attempt (`MCStuckReceipt.cfg`,
`MCStuckSidecar.cfg`).  `PointerIsLawful` speaks of the
time in which one controller alone has moved the pointer, over its restarts and
beside any readers: two that move it overwrite each other's row, which the code
leaves to its operator.  `PublishedIsWhole` speaks of the time before two
processes have published one page at once; what happens then is the finding.

### Fairness

Liveness is claimed in three places.  `WikiGeneration`: weak fairness of the
steps of each call, because the worker loop runs again after every pass and
after a restart, and the model client has a timeout; nothing is assumed of
administrators, commits or the clock.  `Supervisor`: weak fairness of `start`,
each of whose waits has a deadline, of the lifeline, a thread of its own in the
runtime, and of `Drain`, the exit of a runtime that has been asked to and has no
request in flight; managers and requests may hang for ever, so `OrphansEnd`
promises the end of a runtime or that it waits for a request.  `PathRebind`: weak
fairness of `Advance`, because the operator retries and an attempt that is not
killed runs to its end; faults are bounded, as they must be for any retry to
come through.

### Findings

`overwritten_page` (`NothingIsOverwritten`): `publish` tests the page and the
temporary name and then opens the temporary name with `write_text`, which takes
an existing one.  A second process that has made both tests opens that name
after the first has linked it to the page and before it unlinks it, and
truncates the published page, against the comment that promises a no-overwrite
commit (`wiki/local.py:357`).  It takes two processes that publish the page at
once: that nothing else overwrites a page (`OverwrittenOnlyTogether`) is proved,
as the theorem `AlonePagesStand`.

### Further counterexamples

These configurations are kept as reproductions of what the code does against
one of its own documents, comments or tests; each checks one property, which
TLC refutes (`tlc -config <file> <module>`).

| Configuration | Module | Property | What it shows |
| --- | --- | --- | --- |
| `MCChangedTwice.cfg` | `MCDeploymentFence` | `ChangeIsRejected` | a pointer that changes and changes back during a request is not noticed |
| `MCStaleSuspension.cfg` | `MCWriterAuthority` | `SuspendedStaysFrozen` | `suspend` freezes the workspace, releases the lock and appends its event without looking at the marker again; if the same operation has been suspended, assigned and thawed meanwhile, the workspace ends suspended and not frozen, and accepts no command |
| `MCFailedWrite.cfg` | `MCCutover` | `FailedWriteStaysClosed` | the coordinator changes its copy before it writes: after a failed write the unit is routable in memory, against the comment above the call |
| `MCTornRollback.cfg` | `MCCutover` | `RollbackTakesLaterUnits` | a rollback saves unit by unit, the earliest first; a crash leaves later units on Platform, and nothing resumes the rollback |
| `MCHungOrphan.cfg` | `MCSupervisor` | `OrphansAlwaysEnd` | a manager that dies while its runtime has a request that never ends leaves the runtime running: the lifeline sends one SIGTERM, against "the runtime exits" in `docs/knowledge-platform/repository-separation-workplan.md` |
| `MCStuckReceipt.cfg` | `MCPathRebind` | `LeftoverReceiptIsRepublished` | killed between the link of the receipt and the unlink of its part, an attempt leaves a part of two links, which every retry refuses |
| `MCStuckSidecar.cfg` | `MCPathRebind` | `LeftoverPartIsRebuilt` | an attempt killed in the transaction of its rewrite leaves a part and its journal; if the next one ends between the two unlinks, every retry refuses the journal as an unknown entry |
| `MCRepeatedInstall.cfg` | `MCDeployHome` | `CompletedIsReused` | only the last installation has a record: going back to a release installed before it is refused |
| `MCTornSnapshot.cfg` | `MCDeployHome` | `SnapshotHasItsRelease` | a deploy between the listing of a backup and its reading leaves a snapshot whose record names a release that is not in it |
| `MCEmptiedRecord.cfg` | `MCWikiPublication` | `RecordIsAppendOnly` | the manifest is emptied before it is written: a process that ends in between loses every line |
| `MCStuckRetirement.cfg` | `MCWikiPublication` | `RetireIsIdempotent` | a retirement that stopped after it linked the archive is refused when repeated (under `RetryingSpec`, weak fairness of the retirement's steps: it is tried again and let finish) |

## Proofs

The theorems hold for every value of the constants, any number of calls,
processes, units, revisions or invocations, under the named assumptions of the
modules (distinct model values, positive bounds).  For each module they rest on
an inductive invariant (`IInv`; `PublicationInv` and `SyncInv` in the two modules
that share a proof module with another), proved as three facts (initially, kept
by every step, implies the property); the step lemmas have one step per action.
A refinement is proved from the same invariant: initial states map to initial
states, and each action to an action of the abstract module or to a stutter.

| Module | Proved | Why the invariant has to be stronger |
| --- | --- | --- |
| `SidecarProofs` | types, `ModeExclusion`, `RunningOnlyWhileActive`, `ResultsAgree`, `LiveLeaseIsExclusive`, `OnlyOwnerEndsRun`, refinement of `Continuity` | that a live lease excludes, and is ended by nobody else, needs that it is the one in the row of its key, and that owners are fresh; that answers agree needs that each is recorded in a completed row |
| `WikiProofs`, generation | types, `AtMostOnce`, `WithdrawnNeverRuns`, `SettlementIsFinal`, `HistoryMatchesRow`, refinement of `OnceTask` | a call past its claim is the only one for its operation, and the operation has a proposal |
| `WikiProofs`, publication | types, `OneWorkerPerKey`, `SucceededIsKept`, `PublishedIsWhole`, `OverwrittenOnlyTogether` | a page is whole only if nobody holds its inode open unless they publish together: each stage says which names lead to the inode the attempt has, that names it has tested are left alone while it is the only one, and where the text is that a succeeded job or a manifest line refers to, a retirement in progress included |
| `WriterAuthorityProofs` | types, `WritersAreAdmitted`, `OneWriter`, `LawfulChain`, `AssignedAwayIsFrozen`, `ThawRetries`, `JournalOnlyGrows`, `MarkerLeavesAReceipt`, refinement of `WriterFence` | each point of a command says which descriptors it holds and what the files look like; an assignment keeps its marker until its own thaw |
| `CutoverProofs` | types, `PoliciesAgree`, `OrderedUnits`, `RollbackHolds`, refinement of `PinnedRevision` | memory and disk differ only where a save failed; an open promotion has configured what it has passed, an open rollback has saved it; a policy never changes its revision |
| `CatalogProofs`, pointer | types, `OneChangeIsRejected`, `ActiveWasVerified`, `PointerIsLawful`, refinement of `ReadFence` | a copy a read looks at is the row as soon as there is one; any copy may become the row at any time, so it must be verified where it says so; a first change leaves the context of a request, a second may come back to it; who alone has moved the pointer has it as its copy |
| `CatalogProofs`, syncs | types, `RunHasOneBinding`, `NewestListingStands`, `SuccessIsTheListing`, refinement of `SerialSync` | one call at a time, whose listing is the last there has been; what it holds of an item was fetched after the listing and is no older than what is stored; what it is done with is stored as it was listed, or newer; what is stored was published under the binding of its run |
| `PathRebindProofs` | types, `EveryCatalogHasItsProof`, `ReturnIsComplete`, `DriftIsNeverCertified` | each stage says which files lie there, what the Catalog and its backup hold unless somebody has written to them, and how far the receipt has got |
| `DeployHomeProofs` | types, `DeploymentHasItsRelease`, `InstallationIsWhole` | who is past a lock file holds it; a release is named by nobody before the deployment that made it is written, installs in progress included |
| `SupervisorProofs` | types, `OneManager`, `ServingIsReachable`, `StoppedIsGone`, `FailedReapsManager` | a start that has not launched has no manager, a runtime exists only after its manager has reported |

The assumptions are the `ASSUME`s of the modules: `SidecarAssumption`,
`GenerationAssumption`, `AuthorityAssumption`, `CutoverAssumption`,
`SupervisorAssumption`, `FenceAssumption`, `RebindAssumption`,
`HomeAssumption`, `PublicationAssumption` and `SyncAssumption`.

Only model-checked: the liveness properties `DueIsServed`, `OrphansEnd`,
`StartReturns` and `RetryRebinds`: the prover does not handle fairness or
ENABLED.  Every other property the passing runs check is a theorem, and so are
`RunHasOneBinding`, `OneChangeIsRejected` and `OverwrittenOnlyTogether`, which no
run lists.

## Not modelled

The formats of files and messages, canonical JSON and digests (taken to be
injective), permissions and symbolic links, remote clients, and the pure
functions of queries, retrieval and packages.  `PROJECT.json` gives the reason
for each part.  Within the modelled parts:

* the captures have the job protocol of `WikiPublication` (a claim without lease
  or owner, publication with a manifest, completion or release), and the
  processing, semantic and connector jobs the lease of `Sidecar`; neither is
  modelled a second time.  In the connector sync two runs under different keys
  may complete in any order, and the one that read first may complete last
  (`connector_sync/worker.py:35`);
* `Cutover` has one coordinator over its files, as every use in the repository
  has; two traffic controllers over one file could lose an update
  (`continuity/traffic.py:261`);
* `FeishuSync` has documents and tables; media and drive files take the steps of
  a document, and stored bytes that have gone end a sync like any error.  Linked
  and unsupported entries (`feishu_sync.py:222-227`), whose item is stored
  without content, and entries that become one or cease to be one, are left out:
  `PublishItem` always stores a revision, and `SuccessIsTheListing` is about the
  listed entries that have content.  The branch writes in the same transaction,
  behind the same fence;
* `DeployHome` leaves out `init`, `restore`, plans and staged operations.

## Plan

1. `LeasedJob`: an abstract lease (the lease port), with the connector,
   processing and semantic jobs against it, the publisher with its temporary and
   linked file, and two runs of one connector.
2. `WikiStore`, composed with `WikiGeneration` through its revision.
3. The package import with its crashes, the vault and the vector index.
4. Pure parts as operators: lint and schema rules, phase gates, guardrails,
   package resolution.
5. Compositions: two coordinators over the cutover files; supervisor, workspace
   lock and queue worker together.

Theorems next: abstract specifications, with their refinements, for the
publication (a job is worked on by one process and succeeds once, with its
page) and for the manager of a Home; the step lemmas proved so far are what they
need.
