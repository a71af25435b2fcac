# Verification of invenio-workflows-ui

TLA+ models of the web interface for halted workflows (the "holding pen"):
`src/invenio_workflows_ui`. Line numbers below are those of the files there.
TLC checks the models on small instances; TLAPS proves the main results for
every value of the constants.

## 1. The system

The package keeps no tables of its own. It puts a REST interface, a search
index and a command on top of the workflow objects of `invenio-workflows`.

| Component | State | Operations | Correct when |
|---|---|---|---|
| Workflow record (`api.py` 45-52, 134-206, `indexer.py`) | none: conversions | row to record, record to row, record to document, document to index | what an edit does not mention survives the round trip; a document says which save it comes from |
| Operations on one object (`api.py` 81-259) | the row; the object a session loaded | put, edit, delete, restart_step, restart, resume, resolve | overlapping sessions do not undo each other; a RUNNING object has a task; one decision per action |
| Index wrapper and receivers (`api.py` 55-78, `receivers.py`) | the search index | after-save: index; before-delete: remove | the last save can be found, a deleted object cannot, and stale documents are recognisable |
| REST item and action views (`views/rest.py` 176-190, 312-373) | the session | load or 404, act, commit or roll back, answer | the answer agrees with what was stored |
| Bulk actions (`views/rest.py` 430-446, `tasks.py` 37-45) | a list of objects in one session | one action for each in turn | the whole set is acted on, and stored; what becomes RUNNING is handed over; lists that overlap do not block each other |
| List view and search factories (`views/rest.py` 225-268, `search.py`) | none; the client's URL | query, filters, facets, sort, slice, links | following the links shows each document once |
| Reindex (`cli.py`, `tasks.py` 48-90) | tasks and their results | schedule batches, read and send, wait, report | a clean report means a complete index; every object is counted; the command ends |
| Conditional requests (`views/rest.py` 296-327, `serializers/response.py` 44-58) | what clients keep; ETag and date from `modified` | GET with If-None-Match, If-Modified-Since; the answer of a PUT | 304 only if the representation is the same; no client is ahead of the database |
| Extension (`ext.py`, `proxies.py`, `utils.py`) | configuration, published state, registry of actions, routes, cache | init_app, register_action, configure, get, set, delete | what is published is complete; own settings stay; the cache answers its own |
| UI views, permissions, JSON layout, templates | none | render, check, format | - |

How they interact: a web request runs in one database session. `save()` flushes
inside a savepoint and sends a signal; the receiver calls
`WorkflowUIRecord.create`, which indexes the object **before the outer commit**
and without a version. `delete` removes the document from a `before_delete`
listener, before the DELETE statement takes the row's lock. `restart`,
`restart_step` and `resume` commit and then give a Celery task to the broker; a
worker runs the workflow and saves the object in the same way. The reindex
command and its tasks share nothing with this but the rows and the index.

The hard behaviour is the interleaving of sessions at one object, the gap
between index and commit (rollback, crash), the gap between commit and broker,
stale images of an object that are saved whole, lock order in bulk tasks and
what a dying worker leaves half way through a list, and
the boundaries of batches and pages; for clients, stamps that are read again
after a commit; and an initialisation that raises half way and is called again.
`PROJECT.json` lists each hazard at its line.

## 2. Modules

| Module | Models | Rests on |
|---|---|---|
| `WorkflowRecord` | data of an object: row, record, body, document, and the conversions | - |
| `SearchablePen` | **abstract**: what the pen promises a reader of database and index | - |
| `HoldingPen` | **core**: sessions, transactions, index, broker, runs | `WorkflowRecord`, implements `SearchablePen` |
| `ConditionalGet` | clients that keep answers and ask again, beside all of `HoldingPen` | `HoldingPen` |
| `Reindex` | the command and its batch tasks, beside all of `HoldingPen` | `HoldingPen` |
| `BulkActions` | `resolve_actions` over lists, one session for each, and the runs it hands over | `WorkflowRecord` |
| `Listing` | the list view and the search factories | `WorkflowRecord` |
| `Extension` | the extension of an application, UI or REST: registry, proxies, cache | - |
| `WorkflowRecord_proofs` | lemmas about the conversions | `WorkflowRecord` |
| `HoldingPen_proofs` | theorems about `HoldingPen`: types, transactions, tasks | `HoldingPen` |
| `HoldingPen_promises` | theorems about what a reader of database and index can rely on: that `HoldingPen` implements `SearchablePen`, that the last save can be found, that edits leave the workflow | `HoldingPen_proofs` |
| `Reindex_proofs` | theorems about `Reindex` | `HoldingPen_proofs` |
| `BulkActions_proofs`, `ConditionalGet_proofs`, `Extension_proofs`, `Listing_proofs` | theorems about these | their module |
| `MC*` | values for TLC | their module |

### SearchablePen and its refinement

To a reader there are only copies: `saved[o]` in the database, `found[i][o]` in
an index, each a content with the stamp of the save it comes from. A save is
published in an index before it is stored, and may never be stored; stamps only
grow, what is stored is never behind an index and one stamp is one content; a
deleted object is never stored again. `HoldingPen` defines the mapping
(`Saved`, `Found`: of a row and of a document, the columns every save writes) and
`Pen == INSTANCE SearchablePen WITH ...`; `ImplementsPen` is checked by the run
`faulty` and proved in `HoldingPen_promises`. `index_workflow_object` is
`Publish`, `delete_from_index` is `Withdraw`, `Commit` is `Store` or `Delete`,
and everything else changes nothing a reader sees. A save whose data type has no
index is stored without having been published.

### WorkflowRecord

A row has the columns that decisions depend on; metadata and actions are
members of small sets; `callback_pos` is a position with 0 for `[0]`. A body is
a record whose keys may be `Absent`. `record_from_object` drops `id_workflow`
and does not fill the data type when the workflow's name is not in the registry.
`UpdateStatement` (SQLAlchemy, external) writes a plain column only when the
session changed it, and `callback_pos`, `data`, `extra_data` and `modified`
always, because `save` marks them as modified. Users, parents and names are
left out.

### HoldingPen

| State | Code |
|---|---|
| `row[o]` | committed row of the object table |
| `docs[i][o]` | document of `o` in index `i` |
| `queue` | `resume` tasks at the broker, each with the stamp its request committed (a ghost field, used by `TaskFollowsCommit` only) |
| `clock` | source of `modified`, taken while the lock is held, all distinct |
| `pc`, `req`, `img`, `pend` | a session: how far it is, what it does, the object in its identity map, the row it flushed |
| `reply`, `requests` | last status code; number of requests (bound) |

A session goes `Receive` or `TakeTask` (load) - an operation with `Save`
(flush, takes the lock) - `index_workflow_object` - `Commit` - for
restarts `delay`. Each of these is one step, because other sessions can act
between them; within one, the code touches no shared state twice. `delete` is
`delete_from_index` - `DeleteRow` - `Commit`. Failures: `IndexFails`
(a TransportError, logged and swallowed), `CommitFails`, `DelayFails`,
`Crash` at every point. The commit expires the object, whose identifier the task
needs: `NothingToDelay` is the error when it has been deleted by then.

What is assumed of code outside `src/`: row locks from flush to commit at READ
COMMITTED; an UPDATE of a row that is gone raises, a DELETE of it does not; the
session is rolled back when a request or task ends without a commit; the
elasticsearch client refuses `index=None`; Celery acknowledges a task before it
runs it, so a crash loses the task; a run of a workflow ends and saves HALTED,
COMPLETED or ERROR; a handler of an action saves its decision, removes the
action and leaves the commit to the view (`views/rest.py:367`). Permission
checks change nothing and are left out; GET is in `ConditionalGet`.

### ConditionalGet

`kept[c]` is the last representation a client received: the whole record as
`serialize` dumps it, the stamp of the row it was read from or saved as, and the
tag and the date that came with it. A tag stands for the hash of `modified` and
is the stamp itself; a date is the stamp in whole seconds, of which
`TicksPerSecond` stamps are one. `NotModified` is the code's two checks, the
second of which is made although a tag was given. A PUT that committed answers
later (`owed`): its body is the record of the request, its tag the row as it is
by then, because the commit expired what the session had loaded. A PUT without a
body commits nothing and answers what it loaded. Every other step is a step of
`HoldingPen`, whole.

`read` tells a record that was read from one that a body was taken into. The two
promise different things, and `Shows` says which: the first is the record of the
row in every column; of the second a status, data type or workflow that agree
with what the PUT had loaded are not in its UPDATE, so the row may have others
(see the known divergences), and only metadata, `extra_data` and position are
certain.

### Extension

One Flask application and one kind of extension, `InvenioWorkflowsUI` or
`InvenioWorkflowsUIREST` (`kind`): `setup.py:107-118` installs the two in two
applications. There may be several extension objects of the kind, for the
application may repeat a call that failed with a new one. `config` is
`app.config`, `chosen` what the application put there; `state` is the
`_WorkflowsUIState` in `app.extensions`, and `bound` the extension object that
reaches it through `__getattr__`, which is none when `init_app` was not called
by a constructor. Every view in `routes` has a URL no other view of its kind
has, so a view that is registered answers. `init_app` is one action with all its
outcomes: it may raise after the defaults are written (a class, an entry point
or a context processor that cannot be imported, a name registered twice, an
endpoint without serializers, a blueprint that is there already) and half way
through registering the views. `Configure` is the application setting values
before, between and after, so a failed call can be repeated. Templates, URLs and
the text of entry points are values of `Choices` and `EntryPoints`. `stored` is a
ghost: what was last stored under a key.

### Reindex

`cli` is where the command is, `items` what the query has left, `batches` the
tasks with the identifiers they have still to read, the lines they will send and
their result. `ReadObject` reads one row, `bulk` sends all lines of a batch at
once: the two are far apart in the code, for `helpers.bulk` collects the
generator's lines (up to 500) before it sends them. `RecreateIndices` stands for
the administrator who starts from empty indices. `size` is what was given with
`-s`, one of `BatchSizes`, which may have 0. `Selected` is what the query found.

### BulkActions

`job` and `todo` are the task of a worker and the rest of its list; `pend[w][o]`
all rows it flushed and did not commit, which is also what it has locked. The
database ends one of the transactions that wait for each other in a circle
(`DeadlockVictim`). `restart` stands for `restart`, `restart_step` and `resume`,
which differ in the position only. `edit` reads `flask.request`, which a task
has not, and ends the task.

`queue` are the resume tasks handed over. The same workers take them and run the
workflow: a run is a job for one object (`RunOf`) that halts or completes it and
commits, so several runs and bulk tasks may be at one object. `Crash` is the
death of a worker at any point; Celery has acknowledged its task and forgets it.
Three ghosts: `handed`, which task has handed over which object; `ended`, how a
bulk task ended; `stranded`, the objects at which a worker died or the broker
refused between commit and delay, or whose run came to a bad end, and which
nobody has restarted since. The stamp of a resume task is a ghost too.

### Listing

`index` is fixed while a client opens a list, follows its next links and leaves.
A place in the index stands for a document; `Rank` is its place in the order
asked for, so a page is a set of ranks. Ties are broken by place, which the
search engine does for an index that does not change. A field that no document
has is `None` and sorts last. Dictionaries and strings as sort fields come to
the same thing (`eval_field`); callables, and dictionaries without an order, are
left out.

## 3. Runs

Passing runs:

| Run | Instance | Shows |
|---|---|---|
| `sequential` | one session, 3 requests, every body, index, commit, broker and crash faults | `TypeOK`, `DeletedUnsearchable`, `ResolvedOnlyIfApplicable`: the last two true as long as sessions do not overlap |
| `overlap` | 3 sessions, 2 requests and the runs they start, no faults, fairness | `LatestSaveIsSearchable`, `RunningIsCarried`, `EditKeepsWorkflow`, `RunningEnds` |
| `faulty` | a client, one object, 2 sessions, 2 requests and their runs; index, commit, broker and crash faults; 2 stamps to a second, PUTs with and without a body | `ConditionalTypeOK`, `TagIdentifiesAnswer`, `NotModifiedIsCurrent`, `Transactional`, `StampIdentifiesContent`, `TaskFollowsCommit`, `DocumentsMoveForward`, `NoResurrection`, `DeletedStaysOut`, `ImplementsPen` |
| `reindex` | the command beside a request and its run, 2 objects, 2 data types (one without an index) or none, batches of 1 or 2, every fault of a batch, Python 2 and 3, fairness | `ReindexTypeOK`, `StampIdentifiesContent`, `CleanReportIsComplete`, `AllAreCounted`, `FoundAfterReindex`, `ReindexEnds` |
| `bulk` | 2 bulk tasks that resolve, restart or edit, their runs, 2 workers, 2 objects that may be missing, actions that are not registered, lists in both orders; commits that fail, a broker that refuses, workers that die | `BulkTypeOK`, `RunningIsHanded`, `HandedIsCommitted`, `OnlyResolveDeadlocks`, `DoneIsHanded` |
| `bulk_ends` | 2 bulk tasks that resolve or resume, lists in both orders, their runs, which halt or complete the object, deadlocks, fairness | `BulkEnds` |
| `extension` | 5 calls in any order by two extension objects of one kind, UI or REST, 7 settings and 4 lists of entry points, among them every one that makes a call raise | `ExtensionTypeOK`, `PublishedIsComplete`, `OwnSettingsStay`, `CacheAnswersOwn` |
| `pages` | every index of 4 documents of 3 kinds, pages 0 to 2, sizes -1 and 1 to 3, window 6, two sorts, two facets | `ListingTypeOK`, `WalkShowsAll`, `PrevUndoesNext`, `FacetKeepsPromise`, `MinusReverses` |

Runs that end in a violation, each a disagreement between the code and what it
says of itself (`PROJECT.json`, "findings", quotes the line):

| Run | Property | What happens |
|---|---|---|
| `delete_race` | `DeletedUnsearchable` | a save flushed and not indexed when a delete removes the document puts it back, and the delete then removes the row |
| `resolve_twice` | `ResolvedOnlyIfApplicable` | two resolves that overlap both read the action, and both decisions are stored |
| `restart_step_race` | `RestartStepKeepsPosition` | a restart_step that overlaps a run saves the position it had loaded, and moves the object back |
| `decisions_lost` | `DecisionsAreStored` | what a bulk resolve decided is indexed, and rolled back when the task ends |

`delete_race` and `resolve_twice` check with two sessions what `sequential`
finds to hold with one: overlap alone breaks it. `delete_race` also shows why
`DeletedStaysOut` is about documents that come in after the delete.

**Known divergences without a run.** The models contain these too; they were
seen in counterexamples while the runs were chosen, and are kept here because
they decide which instances the passing runs use.

- An edit of an object whose workflow is not in the registry clears
  `id_workflow` (`api.py:194`), so `overlap` has it registered. A PUT answers
  the body, whose `id_workflow` and data type a GET then leaves out of the
  record of such an object, or fills from its class.
- A put or edit indexes the status it loaded, and its UPDATE leaves the column
  alone. When it overlaps a restart, the document says HALTED and the row
  RUNNING, under one stamp (`api.py:191`). So `StampIdentifiesContent`,
  `LatestSaveIsSearchable` and the refinement are about the columns every save
  writes.
- A PUT that loaded HALTED and overlaps a restart that committed RUNNING answers
  HALTED under the tag of the row, which is RUNNING, and a later conditional GET
  confirms it with 304 (`api.py:191`, `json.py:55-60`). `Shows` promises nothing
  of the status that such a body has.
- The endpoint of `docs/usage.rst:123-145` has no `file_serializers`, so
  `create_blueprint` raises (`views/rest.py:97-100`) and the REST extension
  publishes nothing, although `docs/usage.rst:117` says that the API will be
  available.
- An object that is deleted between the commit of a restart and `resume.delay`
  makes the request fail, for its identifier is read again (`api.py:217`).
- A put or edit that changes the data type leaves the document in the former
  index (`api.py:190`), so the runs of `HoldingPen` have one index.
- An object whose data type has no index cannot be deleted: the listener passes
  `index=None` (`receivers.py:36`).
- A reindex batch that read an object before it was deleted puts its document
  back, and one that read it before an edit replaces the newer document: the
  bulk request carries no version (`tasks.py:71-77`). `StampIdentifiesContent`
  says that such a document can be told by its stamp.
- An object that is given its data type while a reindex runs over recreated
  indices may be in no index: the query did not find it, and the document its
  save indexed was destroyed. `FoundAfterReindex` is about what the query found.
- With `-s 0` the command schedules nothing and reports success (`cli.py:53`).
- The listener reads the record again before a delete, so an index that cannot
  be reached makes the delete fail (`receivers.py:36`).
- A PUT reads `modified` again after its commit. A save in between puts its tag
  on the older representation, and a later conditional GET confirms it with 304;
  a delete in between makes the answer fail (`views/rest.py:327`,
  `response.py:49`). `OwnTag` is the exception in `NotModifiedIsCurrent`.
- If-Modified-Since is asked although If-None-Match was given and differs, so
  two saves of one second look the same (`views/rest.py:304-308`).
- An extension whose `init_app` was not called by its constructor has no
  `_state`: any attribute recurses through `__getattr__` (`ext.py:123`).
- A blueprint that lacks its file routes raises once its first views are
  registered: they answer, no state is published, and a second call is refused
  because the name is taken (`ext.py:114`).
- On one application the two kinds would publish under one key (`ext.py:118,145`),
  and by default both claim `/workflows/` (`config.py:27,53`, `ui.py:67`) and the
  UI answers GET of an item for integers (`ui.py:89`). `setup.py:107-118` puts
  them on two, and so does `Extension`.
- The command selects by the column `data_type`; objects typed only by their
  workflow are indexed by requests and never by the command (`cli.py:85`).
- On Python 3 the command always fails when it starts to wait (`cli.py:116`,
  `CountFails`).
- An object that is missing ends a bulk task; the check that would skip it comes
  after a call that raises (`tasks.py:43-44`).
- The next link is made below the window and refused when the page after it
  reaches the window (`views/rest.py:234,261`).
- With `size=0` every page is empty and has a next link, so `pages` has no size 0
  (`views/rest.py:261`).
- A sort that is not configured is dropped from the links, and the next page is
  in another order (`search.py:199`), so `pages` uses configured ones.
- The default sort uses `_workflow.modified`, which no document has
  (`config.py:109`).
- The links carry a page number, so an object that is indexed or deleted while a
  client follows them moves documents over the edge of a page
  (`views/rest.py:238`).
- A bulk edit reads the request, which a task has not, and ends it
  (`tasks.py:45`).

**Bounds.** `HoldingPen` has one object: sessions at different objects share
only the clock and the number of requests. Two requests with the run of one of
them (`overlap`, `faulty`), or three requests in `sequential`, are enough for a
save, a restart, and one more step in between. Two positions tell "kept" from
"reset"; where no property is about them (`faulty`, `reindex`, `bulk`) there is
one. Two values of metadata tell two edits apart; two stamps that are equal can
only come from one save. `Reindex` has two objects and batches of one and two: a
partial, a full and a last empty batch exist. Two bulk tasks over two objects in
both orders are the smallest deadlock; the three actions that hand over a task
take the same steps, so `bulk` has one of them. It has no index, for none of its
properties reads one: a save that fails to index is then like any other. Its
runs halt the object, which can then be restarted again. `bulk_ends` has no
faults, for a task that fails ends, and runs that also complete the object. An
object twice in a list is in `decisions_lost`, and in the proofs, which are for
any lists. `faulty` has two stamps to a second, so that two saves fall into one
second or into two. Five calls of `extension` are two initialisations, of which
one may fail, a setting that puts it right, and two uses of the registry or the
cache. In `Listing` four documents make two full pages of two, so that a walk
has several pages of several documents, and a full and a partial page of three;
a window of 6 refuses the page after them and lies inside the walk of size 3.
`MaxRequests`, `MaxPosts` and `MaxCalls` bound the clients, not the sessions or
tasks. **Symmetry** is declared on the sessions in `faulty` and on workers and
objects in `bulk`, runs without liveness: no constant or definition names one of
them, and the lists of `bulk` have both orders. **Deadlock** is checked in every
run; `Quiesced` (`AllCalled` in `Extension`) is the system at rest.

**Fairness.** `FairSpec`: a session with work goes on, and idle workers take
tasks, as a web server and Celery workers that stay up do. A session that waits
for a lock is not obliged to move while it waits, so weak fairness is enough:
the holder's own steps never wait. Nothing obliges a client to send requests or
a fault to happen. `ReindexFairSpec` adds the command's own loop and the workers
of its queue; `ReindexEnds` excuses the command when a worker died with a batch,
for then it waits for ever (`cli.py:118`, a hazard). The step of Python 3 that
fails, `CountFails`, gets no fairness, or it would end every run of the command.
`BulkFairSpec`: workers take tasks and go on with them, and the database
resolves deadlocks. Only a holder's own steps release its locks, and it waits
for others only with a lock they hold, which is a circle; so weak fairness of a
worker's steps is enough.

Every property has a mutant: a plausible slip (a dropped guard, a forgotten
commit, a wrong column) kept beside the definition it replaces, under which TLC
finds the property violated. Mutants are not part of any specification.

## 4. Proofs

Each for any values of the constants that satisfy the named assumptions.

`HoldingPen_proofs`:

- `TypeCorrect`: `Spec => []TypeOK`.
- `TransactionsAreSerial`, `StampsIdentify`, `TasksFollowCommits`:
  `Spec => []Transactional`, `[]StampIdentifiesContent`, `[]TaskFollowsCommit`,
  with every fault.
- `NoDocumentGoesBack`: `Spec => DocumentsMoveForward`; `DeletedForGood`:
  `Spec => NoResurrection`; `DeletedForReaders`: `Spec => DeletedStaysOut`; all
  with every fault.
- `NobodyIsStranded`: `Spec => []RunningIsCarried`, under `NothingLost`: the only
  fault is an index that fails, and no body asks for RUNNING. Both hypotheses
  are needed: a lost task, or a client that writes the status, strands an object.

`HoldingPen_promises`:

- `Refines`: `Spec => ImplementsPen`, with every fault.
- `LatestIsSearchable`: `Spec => []LatestSaveIsSearchable`, under `Configured`:
  no fault, every workflow in the registry, a data type for its class, an index
  for every data type, and no body that detaches an object from its workflow.
  Each is needed: the known divergences say how an object drops out of the index
  without it.
- `EditsLeaveWorkflow`: `Spec => EditKeepsWorkflow`, with every fault, under
  `BodiesLeaveRun`: every workflow is in the registry (an edit clears the run of
  one that is not) and no body has a `_workflow`.

`BulkActions_proofs`: `BulkTypeCorrect`, `HandedCommitted`, `ResolveDeadlocks`,
`RunningHanded` and `DoneHanded`: all invariants of the run `bulk`,
with every fault, any number of workers and any lists, and with the
runs that the tasks handed over at any time.

`ConditionalGet_proofs`: `ConditionalTypeCorrect`, `TagsIdentify`,
`NotModifiedIsTrue`: the first three properties of the run `faulty`, with every
fault of `HoldingPen`, seconds of any length, and whole records.

`Reindex_proofs`, all beside any number of requests and runs of `HoldingPen`:

- `ReindexTypeCorrect`: `ReindexSpec => []ReindexTypeOK`.
- `StampsIdentifyWhileReindexing`: `[]StampIdentifiesContent` holds with batches
  too, which replace documents by what they read long before.
- `AllCounted`: `[]AllAreCounted` and `CleanReports`: `[]CleanReportIsComplete`,
  with every fault, when 0 is no batch size. With `-s 0` the command schedules
  nothing and reports success (known divergences), so the hypothesis is needed.
- `FoundAgain`: `[]FoundAfterReindex`, when 0 is no batch size and no commit
  fails and no process dies. Either of these may end a delete after the document
  is withdrawn, at any time after the batch sent it; lines and tasks of a batch
  may fail.

`Listing_proofs`, for every index, request, configuration and window:

- `ListingTypeCorrect`, `FacetsKeepPromise`, `MinusReversesOrder`: `[]` of
  `ListingTypeOK`, `FacetKeepsPromise`, `MinusReverses`.
- `WalkShowsAllOnce`, `PrevLeadsBack`: `[]WalkShowsAll` and `[]PrevUndoesNext`,
  when requests sort by configured options: an unknown one is dropped from the
  links, and with it the order (known divergences).

`Extension_proofs`: `ExtensionTypeCorrect`, `SettingsStay`, `PublishedStays` and
`CacheIsOwn`: all properties of the run `extension`, for either kind.

Assumptions: those named in the modules. `RecordAssumption`,
`SentinelAssumption`, `PenAssumption`, `RequestAssumption`, `CopyAssumption` and
`StateAssumption` say that the configuration maps types to indices or to
nothing, and that None and Absent are no other value (None is no name of a
handler, no request and no sort argument, for instance); `BulkAssumption`,
`ConditionalAssumption`, `ExtensionAssumption`, `ReindexAssumption` and
`ListingAssumption` type the constants of their modules. TLC evaluates them in
every run.

**The argument for HoldingPen.** `Work` and faults are first summarised
(`StepKinds`): a step starts a session, flushes, indexes, fails to index, takes
a document out, locks a row to delete it, commits, hands over a task, or gives
up. The inductive invariant `Inv` joins the type invariant with
`Transactional`, `StampIdentifiesContent` and `TaskFollowsCommit`.
`StampIdentifiesContent` alone is not inductive: a commit makes the flushed row
visible, so `FlushedStampIdentifiesContent` must hold before it; that needs the
flushed row to agree with the image that is indexed (`FlushedIsNext`), that
nobody else has flushed the object (`OneWriter`), and that a new stamp has never
been used (`StampsAreGiven`). `CommittedIsKept` links a committed restart to the
stamp of its task. `DocumentsMoveForward` adds `FlushedIsNewest`: from its flush
to its commit a save is at least as new as every document of its object. The
refinement rests on the same two: `Publish` and `Store` need stamps that grow,
and `Store` that the index agrees with what is stored.

`RunInv` adds, for `NobodyIsStranded`, what `RunningIsCarried` does not say: a
run counts only while it has loaded RUNNING or flushed another status
(`RunningMoves`), since the UPDATE of a run that loaded another status may leave
the column alone; and a flush that leaves the row RUNNING either hands over a
task or found it RUNNING (`FlushedRunning`).

For `LatestIsSearchable` two more invariants are needed. `Attached`: rows,
images and flushed rows keep their workflow, so each has an index. `LastIndexed`:
unless the object is being deleted, what a session has indexed and not yet
committed can be found, or else the row can. A session that has withdrawn the
document and not deleted the row keeps the object busy until it has, because
without faults nothing stops it.

An edit that has flushed keeps the run of the row whatever overlaps it
(`EditedInPlace`): its UPDATE leaves a column alone that it did not change, and
nothing changes it. `DeletedForReaders` needs of `FlushedIsNext` that a row that
was flushed is still there, so what indexes it is not late.

**BulkActions.** `StepKinds` again sums up the actions. A job that commits holds
at most the row it is at, between its flush and its commit (`HoldsOne`); so it
holds nothing while it waits, and a circle of workers that wait consists of
resolves. `Stamped` orders stamps: the row's, what is flushed upon it, the
clock; and the restart a worker is about to hand over has a stamp its row has
reached, which is `HandedIsCommitted` once it is in the queue, for stamps only
grow (`RowsAdvance`). `RunningIsHanded` is not inductive: it counts a run
although the UPDATE of one that had loaded another status may leave the column
alone. `RunningIsMoved` counts a run only before it has loaded, when it has
loaded RUNNING, or when it has flushed another status; and `RunKeepsStatus` says
that what a run flushes is RUNNING only if the row is, so no run makes an object
RUNNING. A worker that ends drops what it carried, and `End` records it.
`FinishedIsHanded` says that what a task has not handed over itself is still on
its list, and the list of a task that is done is empty.

**ConditionalGet.** A row stays, goes, or is replaced by one with a newer stamp
(`RowMoves`); so a copy with a stamp not newer than the row, which `Shows` the
row when the stamps are equal, stays so (`StaysBehind`). That holds of what
sessions load, of what a PUT commits and owes (`CommitsImage`: its record agrees
with what it flushed in the columns every save writes), and of what clients keep;
a client's tag lies between its copy's stamp and the row's, so a tag that is the
row's, on a copy that has its own tag, is on the row's copy, and a date that is
not older than the row's is of the same second.

**Reindex.** The totals are folds over the batches. A fold is a recursive
function on subsets; that it exists, is unique and adds up is proved by taking a
smallest subset that would be an exception (`Smallest`, `SumsAgree`,
`SumExists`), which needs no induction principle with an operator parameter.
`ReindexKinds` sums up the steps. `SharedInv` treats the lines a batch has read
as documents: they too are bound by their stamp to the row and to what is
flushed. `CountInv` counts an ended batch by the objects that were there when it
read, and a batch that is not ended by what it has still to read or send.
`FoundInv` says of every object a batch has sent that it is in some index, is
gone, or has been withdrawn by a session that will delete its row (`Findable`);
a save replaces a document or leaves the one that was there. `CleanInv` says
that while no request has come the rows are the ones that were read, so what was
sent is current.

**Listing.** `SameList`: the request of a link has the size, query, filters,
order and links of the one it answers (`LinkAsksForSameList`), so it selects the
same documents in the same order. `SeenSoFar`, the inductive invariant of a walk
from page 1, says that after page p each selected document of a rank below
p * size was shown once and no other; a page adds those from (p - 1) * size on.
The last page has no next link, so p * size is at least the number of documents,
and each has a rank below it because none comes before itself. `ChosenIsCounted`
and `ReversedOrder` are about the operators alone: filters that are not post
filters apply to the facet and to the list; a field that decides between two
documents decides the other way with the direction reversed.

**Extension.** What `load_entry_point_group` computes is a recursive function of
the number of entry points loaded. That it exists (`LoadExists`) and that a
group that loads has registered every name with its class, none replaced
(`LoadIsComplete`), is proved by a smallest exception again. `PublishedInv` adds
to `PublishedIsComplete` that once a state is published its blueprint is
registered, so no later initialisation publishes another, and that every entry
point installed has an action; a registration may only add to the state. A
prefix is there once a state is published, and only gives way to the
application's own (`SettingsInv`); until then nothing is stored under that one
(`CacheInv`).

**Only model-checked**: liveness (`RunningEnds`, `ReindexEnds`, `BulkEnds`) under
the fairness above, which the prover cannot handle, and what `sequential` finds
of one session (`DeletedUnsearchable`, `ResolvedOnlyIfApplicable`), which two
sessions break. Every other property of the passing runs is proved, the
refinement included. The four properties of the runs that end in a violation
are refuted by TLC.

## 5. Not modelled

- Templates, the context processors' work, permission needs: they decide whether
  a request is made at all, and change nothing.
- JSON layout, the file views, the answers of actions and searches: they read
  only. The mappings of the search index (`mappings/`), and packaging.
- Names, users and parents of objects; the text of queries.
- An index that changes while a client walks the pages (see the divergences).
- More than one bulk request per batch (`-s` above 500).
- The body of a workflow run and of an action's handler: code of other packages,
  modelled by what the package relies on.

## 6. Plan

Done: every module, and the proofs above. What is left:

1. `SearchablePen` with a reindex batch, which publishes older copies: what the
   index then promises, and that the next save repairs it; with `HoldingPen`
   beside `Reindex` shown to implement it.
2. An index that moves under a client that walks the pages: which documents it
   may miss or see twice.
3. `BulkActions` beside requests of single sessions, which share its locks.
