# mcp-log-server: a TLA+ verification development

mcp-log-server gives language-model agents read access to the logs and containers of
a host's projects. An agent asks the MCP server to collect logs; the server writes
them into snapshot directories, describes them by rows of a PostgreSQL database, and
serves, searches and summarises them in pages. Every call passes a middleware that
finds out who asks, what they may see, and keeps a record. A socket app, a second
process, reads Docker for it.

This directory holds TLA+ modules that model the parts of the system that keep
state or compute what a client relies on, TLC configurations that check them on
small instances, and theorems with proofs that TLAPS checks for every value of the
constants. `PROJECT.json` lists the components, the runs, the source lines each
definition models, the hazards of the code and the properties that address them.

Paths are relative to the repository; `src/src/` is the MCP server,
`src/socket-app/` the Docker socket app.

## 1. The system

| Component | State it keeps | Operations | Status |
|---|---|---|---|
| Workflow snapshots (`services/log_collection.py`, `services/log_snapshots.py`, `database/services/collect_logs.py`, `storage.py`) | `LOGS_DIR/workflow/<project>/latest` and `archive/<timestamp>`; `collect_logs` and `collect_logs_sources` rows; the lock file | collect: archive latest, prune, create row, collect files, save source rows | modelled |
| Session snapshots (same services, `tools/utils.py`) | `LOGS_DIR/sessions/<session>/<project>`, rows that accumulate | collect, replacing in place; clean up old session folders | modelled |
| Snapshot tools (`tools/snapshots.py`) | none of their own; the pages a client keeps | list, read, grep | modelled |
| Log analysis and filtering (`tools/analysis.py`, `services/log_analysis.py`, `services/log_filtering.py`) | none; bounded tables during a scan | group errors, incident bundle, proxy and probe activity, filtered views, follow-up windows | modelled; reading timestamps and levels out of text is not |
| Docker-log transfer spool (`socket_app/adapters.py`) and its page loop (`log_collection.py`) | spool files, transfers with cursors, a lock, what each collection got | create a spool, read a page, expire, clean up, restart | modelled |
| Source collection (`services/log_collection.py`) | the output file | collect a source | partly: see section 7 |
| Background tasks (`tasks.py`, `tools/collection.py`, `services/log_collection_tasks.py`) | `tasks` rows, coroutines | start, run, poll | modelled |
| Agent sessions and audit middleware (`middleware/audit.py`, `services/agent_sessions.py`, `services/agent_calls.py`, `tools/sessions.py`) | `agent_sessions`, `agent_calls` rows | get or create, touch, close, record and complete calls | modelled |
| Project authorization (`decorators.py`, `services/project_authorization.py`, `auth/`, `middleware/authorized_manifests.py`) | `mcp_callers` rows | which row, projects and sources a call is given | modelled |
| Manifest store (`services/project_manifest.py`, `cli/`) | `project_manifests` rows | upload, update, read | partly: without parsing |
| Docker socket app and gateway (`socket_app/`, `services/docker_socket_gateway.py`) | none; one connection per request | dispatch, whitelist, list, inspect, stat, read, list directory | modelled |
| Container, compose, runtime and deployment inspection (`tools/container_inspection.py`, `services/inspection_tools_service.py`, `services/compose_state_service.py`, `services/project_runtime_service.py`, `services/project_deployment_service.py`) | the current-tag file | ten read-only tools | modelled |
| fail2ban, TLS, Traefik, CrowdSec, host, backup and schedule inspection | none | stateless reads | not modelled |
| Settings, app start, CLI tokens, resources, prompts, scripts | none | wiring, static text, operator commands | not modelled |

How they interact. A `collect_logs` call collects in the request; a
`start_log_collection` call queues a task per project, whose coroutine runs the same
`build_logs`. Both go through `collection_transaction`, a `flock` on one file under
`LOGS_DIR`, shared by all projects, workspaces and server processes. Inside it,
sources are collected in a worker thread, which asks the socket app for pages of
Docker logs over a Unix socket; the socket app serves each request in a thread.
The snapshot tools take no lock: they load rows, then open files. Calls run on one
event loop and interleave at their database calls; the inspection tools block that
loop while they wait for the socket app. No operation on snapshots is one database
transaction, and no database transaction covers a change of the file system.

What is hard in it: a collection is a dozen database calls and directory operations,
any of which can be the last one (exceptions, cancellation by the client, a
crash); readers run between any two of them; a cancelled coroutine cannot stop its
worker thread; names and ages have a resolution of one second; the spool's clean-up
runs beside the threads that create spools; tasks live in rows and in coroutines,
and only rows survive a restart; two calls create one session, and one closes it
while another writes; scans are bounded, and their answers must say what the bounds
cut off; containers and their files change between two requests of one tool.

What makes each part correct is listed, hazard by hazard, in `PROJECT.json`; the runs
of section 3 say which properties they check.

## 2. Modules

| Module | Models | Composes |
|---|---|---|
| `WorkflowSnapshots` | `build_workflow_logs` under the lock, with interruptions, cancellation and the clock | |
| `SnapshotHistory` | abstract: the history of revisions that the metadata promises | |
| `SnapshotRefinement` | the mapping of the rows to that history; the inductive invariant `StoreInv` | the two above |
| `SnapshotReaders` | the tools' lookup and read beside running collections | `WorkflowSnapshots` |
| `SessionSnapshots` | `build_session_logs` under the lock | |
| `LogTransferSpool` | the spool with its request threads, and the page loop of the collection | |
| `LogStreams` | abstract: what a collection receives is its stream, and it knows when it is whole | refined by `LogTransferSpool` |
| `BackgroundTasks` | queueing, running and polling of tasks | |
| `ProjectAccess` | operators: the caller's row, allowed projects, selected sources, updated manifests | |
| `ToolCalls` | a call from the first query to the last write, with others, an operator and faults beside it | `ProjectAccess` |
| `SessionLifecycle` | abstract: a session name is taken once, is open, then closed | refined by `ToolCalls` |
| `LineSignals` | operators: what one line says to the analysis tools | |
| `SnapshotTools` | list, read, grep, the analysis tools and views, page after page, with a collection between two opens | `LineSignals` |
| `ProxyRoutes` | abstract: the bounded table of route candidates and what it promises | refined by `SnapshotTools` |
| `DockerSocketApp` | containers and files of a host that changes, and the app's answer to one request | |
| `ComposeChecks` | operators: what compose, runtime and deployment inspections conclude | |
| `Inspection` | the inspection tools, request by request | the two above |
| `PythonLists` | operators: `sorted` and the list comprehension | |
| `*Proofs` | theorems and proofs; `WorkflowSnapshotsProofs` has those of the readers and of the refinement too | the module of that name |
| `DataLemmas` | lemmas about lists, sorting and folds, for the `*Proofs` | `PythonLists` |
| `MC*` | values for the constants, symmetry | the module of that name |

Operators whose name ends in `Mutant` are part of no specification. Each is a copy
of the definition next to it with one plausible mistake, kept so that every
property can be shown to detect one.

### Workflow snapshots

A `Proc` is one collection at a time. Its `pc` names the step it is about to take;
the steps are the awaited calls and directory operations of `build_workflow_logs`, in
the code's order, and are listed in `HoldsLock`. `rows` holds a `collect_logs` row
together with its source rows (`files`: per source the name of the directory its
path lies in). `dirs` holds the directories with their name (`Latest`, or the second
in the archive's name), their mtime and, per source, the id of the row whose
collection wrote the file: that is all the properties need to know of a log line.

- *Archive* (`archive_latest_for_project`): `LookupLatest` loads the latest row;
  `ClearArchivePath` removes a directory that has the archive's name already;
  `MoveLatest` is `shutil.move`; `RelinkSource` saves one source row's new path;
  `MarkArchived` is the update of the row.
- *Prune* (`prune_workflow_archives_for_project`): the rows are indexed by archive
  name and the directories walked; `PruneArchiveDir` removes one, `DeleteArchivedRow`
  deletes the rows that claimed it, after an await.
- *Publish*: `CreateRow` creates the latest row and takes the time; `PrepareLatest`
  empties the directory; `CollectSource` writes a file (or half of one, or none);
  `SaveSource` and `UpdateResolvedKeys` are `save_sources_to_db`.
- `CancelCollect` is a cancellation while the worker thread runs: the collection
  waits for it (`drain`). `CancelDrain` is a second one, which ends that wait.
- `Interrupt` is an exception or crash at one of the steps in `InterruptAt`. At
  `collect` it is a crash, which ends the worker too.

`OnePerSecond` makes `CreateRow` move the clock on, so that no two collections of a
project share a second. It is TRUE where a run asks what holds apart from that
hazard, and FALSE in the runs that show it and in the refinement.

### Snapshot readers

Three steps per tool call, without the lock: the row (`LoadRow`), its source rows
(`LoadSources`), the file (`ReadSource`). A client keeps its pages with what it asked
for and the `snapshot_collected_at` that came with them. What a tool makes of the
lines is in `SnapshotTools`.

### Session snapshots

The same transaction with other steps. `Prepare` is one step, as
`_prepare_session_snapshot_dir` has no await: it ensures the session's folder, cleans
up folders by their mtime, which may include this one, and makes the project's
directory anew. The row is created after collecting, its source rows after it.
Collections are numbered when they take the lock. After a first cancellation (`CancelWorker`) a
collection waits for its worker thread; a second one (`CancelDrain`) releases the lock and leaves
the thread `detached`: it writes on, into whatever directory the session's project has by then.
`outlived` is the set of the collections that ended so; only properties read it.

### Transfer spool

A `Handler` is a thread of the socket app serving one request; a `Client` is one
collection of a Docker source, with its page loop (`cpc`, `got`). Creating a spool
(`OpenPart` ... `Register`) is not under the spool's lock; a page (`TakeLock` ...
`ReadPage`) is. The clean-up is split where other threads can come in between:
expiring transfers, listing active paths with the deadline, removing `.spool` files,
removing `.part` files. A transfer's id is its client. Bytes are the units 1, 2, ...
of the stream. The monotonic and the wall clock advance together; a buffered write
may leave the mtime as it was. `LogStreams` says what this amounts to for a
collection: it receives its log unit by unit, and ends whole or in an error.

### Background tasks

`StartCall`, `QueueProject`, `RejectProject`, `EndCall` are `start_log_collection`;
`RunTask`, `Collected`, `EndTask` the coroutine `TaskRunner.run`; `PollStatus` is
`get_log_collection_status`. A caller is told the end when the status has a
`completed_at`. `Crash` is a restart or the shutdown of the event loop, `CancelCall`
the client's cancellation, `DbError` a write that fails; `MaxFaults` bounds them together.

### Tool calls

A call (`calls[c]`) is the request and what the middleware attached to it; its `pc`
is the database call it comes to next, so that an action is what runs between two of
them. `Authenticate` and `ExpandAll` find the caller's row and allowlist
(`TokenVerifier`, `decorators.py`), `FindSession`, `InsertSession` and
`CreateCallRow` are the audit middleware's part before the tool, `LoadManifest` the
manifests middleware, `RunTool` what the tool checks, `CollectProject` one project of
`collect_logs`, `LookupSession`, `CloseSession` and `RecordClose` the tool
`close_agent_session`, and `CompleteCall` the second write of the call's row.
`DbError` fails the query a call comes to, with what each handler of the code makes
of that (`AfterDbError`); `Stop` ends some calls where they are (a client that went
away, a server that stopped); `EditGrants`, `UploadManifest` and `UpdateManifest` are an
operator's edits through the CLI. `MaxEvents` bounds edits and faults. The fields
`allowedOnce`, `offered` and `closedBefore` of a call are history: the properties
compare what was collected with what was ever allowed, offered and closed while the
call ran. `SessionLifecycle` says what this amounts to for a session name.

### Snapshot tools and analysis

A line is a record of what the code's patterns find in it (`LineSignals`): its
status, level, route, client, time and text, and how its line ends in the file.
`SnapshotTools` has one call at a time, which is refused (`Refuse`, with the checks of
each tool in the code's order) or selects its files, opens them one after the other
and scans each line by line; `inspect_proxy_activity` opens them once more, to count
the candidates exactly (`rescanning`). Then it answers, and the client goes on to the next page or
stops. Between two opens a collection may replace or remove the files
(`MaxEditions`). What each tool keeps while it scans is bounded as in the code, by
`GroupLimit`, by the candidate table of `MinCandidates` or `Multiplier` times the page,
and by the view's candidates; the properties compare the
answers with the lines of the files that were scanned. `ProxyRoutes` is the
candidate table by itself, with what it promises.

### Inspection

`DockerSocketApp` is the host (`Worlds` it may start as: containers, one container's files) and the app: a
request is `received`, `typed`, `found` and `answered`, because a read is three execs
(stat, find, cat) and the host may change between any two. `Inspection` is the tools:
a call sends one request after another, with the gateway's timeout as an outcome of
each (`TimeOut`). One call runs at a time, as the tools block the event loop.
`ComposeChecks` has what the compose, runtime and deployment inspections conclude, as
operators. A path is a sequence of names, with `.` and `..` in what a caller sends. The container's kernel looks
it up (`LookUp`) and follows the symbolic links on its way, and a last one only when the
file is opened; `MaxLookup` bounds the parts and links of one lookup, as a kernel does. The
whitelist (`PathIsAllowed`) is about the path as written: below a link it leads where the link
leads, and the properties say so. A file or directory may be unreadable for
the exec: `cat`'s message is then the content, as stderr is merged into the output and `find`
succeeds whatever `cat` does. A content is a version and a length, and grows threefold when decoded from bytes that are no text.

## 3. Runs

| Run | Instance | Shows |
|---|---|---|
| `snapshots_faults` | 2 collections at a time, 3 begun, 1 source, 2 interruptions anywhere, repeated cancellation, shared seconds | one latest row; `StoreInv`; the rows implement `SnapshotHistory` |
| `two_projects` | 2 projects, 3 collections, 1 cancellation, 1 interruption, weak fairness of each collection | archiving and pruning stay within a project; a waiting collection gets the lock and ends |
| `snapshot_readers` | 2 sources, 3 collections, 1 client with 2 reads, 1 cancellation, 1 interruption outside the two torn windows | one writer; files back rows, resolved keys have files; pages of an archive are one revision, no page is older than its metadata |
| `torn_move` | interrupted after the move | *violated*: a row names files that are gone |
| `repeated_cancel` | 2 cancellations | *violated*: the lock is released under a running worker |
| `session_snapshots` | 2 sessions, 2 projects, 3 collections, 2 interruptions or cancellations, a second one of the same collection among them | rows describe the disk; files are older than their row only by a worker that outlived its lock; lines are lost to a collection of their project or such a worker, or with an idle session |
| `spool_transfers` | 2 threads, 2 collections, streams of 0..3 units, cap 2, 1 timeout, 1 restart, fairness | a collection gets exactly its stream, or fails; no transfer in use loses its file; every request is answered; the spool implements `LogStreams` |
| `background_tasks` | 2 calls sharing a session, 2 projects, 1 fault, fairness | no task forgotten, the end told only when all have ended, and told in the end |
| `tool_calls` | 2 calls, 2 callers, 2 projects, 1 edit, failing query or stop | what is collected is allowed, recorded and in a session of its caller; a closed session gets nothing from later calls; closing leaves a trail; `SessionLifecycle` |
| `snapshot_tools` | 4 sources, 2 varying files of up to 3 lines, 3 groups, 2 route candidates, 1 replacement | pages partition the findings; route and probe counts are exact; views lose nothing to their bounds; pages cover a file; the table is `ProxyRoutes` |
| `inspection` | 3 containers of 2 compose projects, limit 2, a path tree with a file outside the whitelist, a link that leads to it and a file the exec may not read, 1 change of the host | requests name paths in the whitelist and lead nowhere else unless a link does; reads of readable files are exact, cuts are told; reports are true of the inventory; every call ends |
| `deployment_mismatch` | the same, limit 3 | *violated*: a wrong image is not reported |

The violated runs state what a doc, a comment or a tool's answer says; `PROJECT.json`
"findings" quotes it. The same models show more of the kind; each is checked by naming
the definition in the run's cfg, without its SYMMETRY:

- `snapshot_readers` with `MarkerIdentifiesRevision`: two pages of latest with one
  `snapshot_collected_at` come from two revisions.
- `session_snapshots` with `ReuseKeepsProjects` as PROPERTY and `MaxInterrupts = 0`: adding a project
  to an old session drops the session's other projects, whose folder is as old. The playbook
  (`src/infra/docs/mcp_workflow_playbook.md:289-290`) says to reuse a session for that.
- `background_tasks` with `PolledToTheEnd` as PROPERTY: after a restart, a call cancelled while it creates
  a row or a failing write, a caller polls for ever, as no one ends the row; the tool's tip
  is to poll until the status is completed (`src/src/tools/collection.py:431`).
- `tool_calls` with `AuditTellsSuccess`: a row is created as a success, and a call that is
  stopped before it completes its row leaves it one, not completed (`src/src/database/models.py:154`
  says the field tells whether the call completed successfully).
- `snapshot_tools` with `FollowupCoversSource` (`Requests <- BundleRequests` makes it
  quick): the window suggested from a source's summary may miss errors, as first and last are those of
  the file's order, not the earliest and latest.
- `snapshot_tools` with `LineNumbersAgree`, `Bodies <- AnyBodies` and `Requests <- GrepRequests`:
  grep counts lines by line feeds, read by universal newlines, so a lone carriage
  return (a progress bar) shifts the numbers. With line feeds alone it holds.
- `torn_move` with `InterruptAt <- TornPrune`: an expired archive's directory is removed, its row
  stays for ever, as pruning walks directories.
- `torn_move` with `InterruptAt <- Nowhere` and `OnePerSecond = FALSE`: two revisions of one
  second share an archive name; archiving the later one removes the archive of the other.

Each module also has a type invariant (`ReadersTypeOK`, `SessionTypeOK`, `SpoolTypeOK`,
`TasksTypeOK`, `CallsTypeOK`), which can be named in the same way; those of the proved
modules are part of their proofs.

Read while modelling, without a run of their own:

- A collection that returns a `BuildLogsError` ends as a *completed* task whose result
  is an error; a task that fails never has the status completed, so a client
  must wait for `completed_at`, which is what `PollStatus` models.
- The spool of a client that gave up is removed by the next request or start, not by
  the end of its time to live; without either it stays.
- A session collection that ends before its row is written leaves the previous row, and its
  `snapshot_collected_at`, beside the new lines.
- `_normalize_text` says that identifiers are normalized before fingerprinting; an
  explicit message is fingerprinted as it is.
- An empty list of source keys selects nothing in a filtered view and everything in
  the other tools. "timeout" and "denied" make a line error-like for grouping but are no
  incident keywords of the views.
- What a call may collect is looked up before it runs, in two queries. An edit of the row between
  them, with an upload of a manifest, can let a call collect a project that the row covered at no single
  moment: "all" was read from the row, which was narrowed before the projects were listed
  (`AddAllowed` counts such a project as allowed).
- A follow-up timestamp is cut to seconds, so a window without padding loses the last event.
- The container listing drops the app's own mark `truncated` and sets its own at the
  limit: exactly as many containers as the limit are reported as truncated, and with more
  the services beyond the cut are reported as not running (`ProjectReportTrue` has the premise `whole`).
- A file replaced by a directory between stat and read is answered as an empty file;
  one entry that vanishes fails a whole listing.
- A path below a symbolic link is checked as written; of a file the exec may not read, `cat`'s
  message is answered as the content.

Why the bounds are enough. Three collections are the least in which a row is
latest, then archived, then pruned while another is published; two run at a time,
as the lock lets a third only wait in the same state. The clock has one value more
than the retention plus the steps needed to be just younger, equal and older. One
source per project suffices where the properties speak of one file; two where they
relate sources (`ResolvedBacked`). One interruption shows each torn step by itself,
two a torn step followed by a torn recovery, or a second cancellation of one collection. For the spool, one thread creates or pages
while the other cleans up; a stream may be empty, of a page, at the cap, and past it.
Tasks share one session, as those of two sessions have nothing in common. Two calls
suffice for each race over a session row, as it is created once and closed once; one edit
is before, between or after any two of a call's queries. Three lines are one more
than the candidates and than the page, the groups' limit is met by two sources of
three kinds of error. One
change of the host can fall between any two execs; properties that a second
change could restore compare versions. All bounds are CONSTANTS, and stand in guards.

Symmetry is used only in runs without temporal properties beyond `[][A]_v` and the
safety part of a refinement.

`CHECK_DEADLOCK FALSE` where the bounds end every behaviour and the system may rest;
in the two runs of `Inspection` a new call can always come.

## 4. Fairness

- Collections: `WF(Progress(c))`. A collection is a coroutine on a running event loop,
  its worker a thread; it polls the lock every 10 ms with a non-blocking `flock`.
  Weak fairness of acquiring is enough in the runs as the lock is free for ever once
  the bounded number of collections have ended; nothing is claimed about starvation by an
  endless supply of other collections, against which the polling gives no protection.
- Spool: each handler step is weakly fair (operating system threads), and so is a
  client that may go on, and time. Taking the lock likewise, under the same remark.
- Tasks: the event loop runs each coroutine, collections end, and the caller goes on
  polling, as the tool's tips tell it to.
- Inspection: `WF(ClientStep)` alone, a step of the tool. The app is not fair: that a
  call ends even if the app never answers is because the gateway's socket has a
  timeout (`docker_socket_gateway.py`), after which the client's step is to give up.

No fairness is assumed of interruptions or new requests. `ToolCalls`,
`SnapshotTools` and the session snapshots are checked for safety only.

## 5. Proofs

`WorkflowSnapshotsProofs`:

- `TypeCorrect`: `Spec => []TypeOK`.
- `StoreInvariant`: `Spec => []StoreInv`. `AtMostOneLatest` is not inductive: that
  `CreateRow` finds no latest row follows from the steps before it having archived
  it under the lock. So `StoreInv` adds that exactly the collections between
  acquiring and releasing hold the lock (`LockHeld`), that the row in hand is latest
  until it is marked and none is from then to `CreateRow` (`RowInHand`,
  `NoneWhilePruning`), that ids are fresh (`RowsNumbered`), that a directory that has been moved
  is gone from its old name (`LatestMoved`), and the dates that pruning relies on
  (`DirsDated`, `PruneDated`): an archive is removed by its directory's mtime, its row by
  name, and a row is not younger than the directory it claims. Every step preserves
  it, an interruption at any step included.
- `OneLatest`: `Spec => []AtMostOneLatest`, a part of it.
- `WorkersInside` and `OneWriter`: with `MaxCancel < 2`, a worker thread runs only while
  its collection holds the lock, and only one collection changes the store. The
  proviso is what `repeated_cancel` shows to be needed.
- `Refinement`: `Spec => ImplementsHistory`. Initial states map to
  initial states; `CreateRow` maps to `PublishRevision`, `MarkArchived` to `Retire`,
  `DeleteArchivedRow` to `Forget` or a stutter, `Tick` to `Pass`, and all else to a stutter, by
  `TypeOK` and `StoreInv`.
- `ResolvedHaveFiles`: `Spec => []ResolvedBacked`, under every interruption and cancellation: until
  the keys are written the row in hand has none, and a source that was saved as collected has its
  file by then (`ResolvedInv`).
- `NamedFilesThere` and `LinesLostOnlyByRetention`: `FilesBacked` and `LostOnlyByRetention`, under
  `MovesWhole`: neither torn window is interrupted, no two collections of a project
  share a second, a draining collection is not cancelled again. `torn_move` and its variants in
  section 3 show that the first two are needed. The invariant `FilesInv` knows
  what a file's name can be by the state of its row (`FilesNamed`), that an archive's directory has
  a row of its date and dates are not shared (`ArchivesHaveRows`, `DatesDistinct`), so that clearing
  the archive path removes nothing; that a row being relinked has its lines in the archive
  already (`MovedBacked`), and that what a collection has got is in the directory and what it has
  still to do is not (`GotWritten`), so that no thread overwrites lines.
- `OneRevisionPerArchive` and `PagesNeverOlder`, of `SnapshotReaders`: `ArchivePagesOneRevision` and
  `NeverOlderThanMetadata` for any number of readers, under `MovesWhole` too. A reader takes no lock, so
  what it loaded may be about a row that has changed since; what stays true is how rows can
  change (`RowsEvolve`: a row keeps its date and never becomes latest again, a new one is dated now,
  and one is deleted only when its date has passed). `OwnersInv` adds that the lines of a directory are
  those of the row it belongs to, and that no latest row has an older id than another of its project.
  `ReadersInv` then says what a reader in flight can still meet: its row, or no row any more, under the date
  it asked for (`Dated`), and no latest row from before it (`Newest`).

`LogTransferSpoolProofs`: `SpoolInvariant`, `Spec => []SpoolInv`, and from it
`TransfersExact`, `SpoolsKept`, `TransfersKept` and `TransfersAreStreams`. That a
collection which ended has all its bytes (`ExactLogs`) rests on what every thread, file
and transfer knows of them: what was received is a prefix (`PrefixReceived`), files and
transfers that are complete are as long as the stream, and one being written holds
what its thread wrote (`FilesWhole`), a page about to be answered starts where the client is
and reaches the end unless it says more (`PageInLog`). For that a client must have one
thread (`Employed`, `ThreadsServe`), one file and one transfer (`OneEach`), and the lock one holder
(`LockHeld`). That no clean-up takes the file of a transfer in use (`PagedHasSpool`)
is inductive only with what a clean-up has read before it removes anything: its list
of active paths has every transfer that a client pages (`PagedAreActive`). `TransfersAreStreams`
maps the client's receipt of a page to `LogStreams`' delivery. `SweptBeforePage` states
`CleanBeforePage`: where a page is answered, no expired file is left but those that
other threads are registering. Spools are swept before part files, by one deadline, so only a rename in between leaves an expired
spool, and the thread that renamed it is about to register it (`SweepInv`). It needs a time to live that is not 0
(the code's default is 300 seconds): with 0 a file is expired as soon as it is written.

`SessionSnapshotsProofs`: `SessionInvariant` and from it `RowsDescribeDisk`,
`FilesNeverOlder` and `LinesKept`. A row is written after its files, so that they
agree is an invariant only together with where a working collection is: until its row is
created the directory has its lines alone (`Fresh`), afterwards the row is that of its project with
the files it collected (`SavesItsRow`), numbers are used once (`RowsNumbered`), and one collection
works (`OneWorks`). `RowsAgree` then says when rows and disk agree, which is without
interruptions; `FilesNeverOlder` holds with them, any number of second cancellations included. A
worker that was cancelled twice works without the lock, beside newer collections; its
number is in `outlived` (`Outlasted`), and what a working collection finds in its directory is
its own or from one of those (`Fresh`).

`SnapshotToolsProofs`: `RoutesInvariant`, for every limit and set of routes: an estimate
is never too low, a route that is not in the table was not seen more often than any
candidate's estimate, and the table is exact until it overflows. `ScanCountsRoutes`, the refinement
`CountsRoutes`, shows the table of every scan to be this one, and that is why a second scan of the
candidates alone finds the heavy routes. It rests on the types (`ToolsTyped`: what is open, what
is still to open, which files a collection may have replaced) and on `TableTyped`: in the first
pass an open file is one of the bodies, so the route of its next line is one the table may hold.
`TableStep` has a step per action: a line leaves the table alone or records one route, and
recording is one of the three cases of `ProxyRoutes` (`RecordingEstimates`).
`PagesAreTheFile`, the property `PagesCoverFile`, has an invariant for each of the two tools: what
the client has so far is the file from where it began up to where the call begins (`ReadInv`), and
is a tagged part of what grep prints up to there (`GrepInv`). Each page continues the pages before it
(`PageIs`), and the last one ends with the file (`ReadsAll`, `GrepsAll`). That what grep prints is
one piece per matching line, in the order of the files, is `OutputMatches`, by induction over the
selected files; it needs every piece to carry its number, for the line numbers of grep only
grow at a line feed (`NumbersGrow`), and the code fails on a piece that carries none.
`ActivityExact`, the property `ActivityIsExact`, stands on what every scan keeps (`CursorInv`): as
long as no collection replaced a file, what was read (`Done`) and what is left (`Rest`) are the lines
of the selected files in order. `OpensUnread`, `ScanReads` and `ClosesRead` say what each step
moves from one to the other, `ScanEnds` that everything is read at the end. For probes, `RecordsAre`
says what is recorded of every address after a sequence of lines, and `RecordsGrow` that one more line
keeps it so. For routes there are two passes. `FirstPass` says what the first has counted after a
sequence of lines: the table is good in the sense of `ProxyRoutes` (`TableGood`, which a recorded route
keeps by `TableKeeps`), and its estimates, taken as a set of units (`Units`), are as many as the lines
with a route, because a newcomer inherits what the victim had (`UnitsGrow`). So the least estimate
times the size of a full table is at most the number of lines (`UnitsShare`): a route that is
not in the table is not heavy. `SecondPassed` says that the second pass counts the routes of the table exactly;
a line with such a route is never a health check, because being one depends on the route and
status alone (`RouteOrHealth`). The order of the answer is a strict order of four keys (`KeysOrder`), a finite
set can be put in a strict order (`CanBeSorted`), and what the first page leaves out comes after what it lists.
`GroupsPartition`, the property `GroupPagesPartition`, first says where a scan can get: `Leads` is that
the accumulator comes from reading a sequence of lines one after the other, there is one such accumulator
for every sequence (`LeadsOnce`), and a scan that has met its limit of groups stays where it is
(`LeadsNoFurther`). `LeadsToGroups` says what it holds: one group for each digest of the error-like
lines up to there, whose counts, taken as a set of units (`SumsTo`), are as many as those lines. `GroupsListed`
says that the answer lists all of them, once, in the order of severity, count and digest, and that their counts
add up (`SumIs`, `SumInOrder`); two groups do not begin at the same line, because a place in a file holds one line
(`Coherent`). The pages are then cut as those of grep are (`GroupPages`, `LastPage`), and each call scans
anew and comes to the same list, since the files are the same.
`ViewIsWhole`, the property `ViewLosesNothing`, rests on `ViewFound`: a scan for a view holds, of each
kind its mode tells apart, the first `limit` of the kept lines read so far (`FirstGrows`). For the
incidents before the others, the first of the firsts are the first of all (`FirstOfBoth`). For a
sample, the rounds laid end to end list every stored line once, by its place among those of its source
(`RoundsJoined`, `SampledIs`); as many are shown as would be had everything been stored
(`SampleCounts`), and a source of which lines are left out has at most one line less than any other
(`SampleIsEven`): the line of another source that is two places further on could only be shown after
all those. The sample is even between sources that have a key each, and that is a premise of the property: neither the manifest nor
the row of a source (`CollectLogsSource`, `src/src/database/models.py:340`) makes keys unique, and a
key that occurs twice is asked twice in every round.

`BackgroundTasksProofs`: `TasksTypeCorrect` and `TasksInvariant`, and from it `NoTaskForgotten`,
`ToldCompletely` and `OneOutcome`. That a caller told "completed" has everything it named
(`CompletedCoversCall`) rests on every named project having a row when the call has been
answered (`QueuedHaveRows`), on a row being ended for good, and on a call queueing a
project once (`RowsUnique`, `RowsQueued`); that a coroutine finds its row, not ended, is
`CoroutinesHaveRows`. `TasksInv` is the conjunction, preserved by every fault.

`ToolCallsProofs`: `CallsInvariant`, `Spec => []CallsInv`, for any number of calls, callers, edits
and faults, and from it `CollectionsOnRecord`, `NothingAfterClose`, `ClosesOnRecord` and
`SessionsHaveLifecycle`. That what was collected has its row (`CollectedIsAudited`) rests
on what a call knows at each database call (`CallsGood`): once it has a session that
session is one of its caller (`OwnsSession`), and once it is past the middleware its first
row is there (`OnRecord`). That nothing reaches a session closed before the call began (`NoLateCollect`)
needs that a session which is closed belongs to a caller of the session workspace
(`SessionsGood`): nobody else can close one, and it is such a caller whose collection is refused when its session
is closed; with `OpenSince`, no collection past that check is in one of them. That a close leaves a
trail (`CloseHasTrail`) needs that the recording call's session is closed and its
own. `InsertSession` maps to `SessionLifecycle`'s opening, `CloseSession` to its
closing or a stutter, because a name has one row and a call inserts once.
`CollectedAllowed` states `CollectedWasAllowed`: what a call collects was allowed and offered at
some moment while it ran, or between two of its queries in the sense of section 3. An operator edits
both tables beside the call, so `AllowedInv` says what a call may still read from them: it counts already
(`Counted`), and so does what the call has read (`ReadCounted`); a collection goes
through projects that were requested, all of them allowed (`Authorized`).

`InspectionProofs`, for any host, any whitelist and any number of changes:

- `Protocol` and, from it, `InsideWhitelist` (`AsksInsideWhitelist`): `ProtocolInv` says which request waits
  at which place of a tool, and that it names the path the tool checked. The app resolves the path it
  is sent again; a checked path has no dots left, so its lookup walks its parts one by one
  (`LeadsAlong`) and, with no link on the way, ends where it says (`LeadsThere`).
- `ReadsExactly` (`ReadIsExact`), by `HostInv` (what the host may be) and `LookInv`: what the app
  has seen of a file is still true if the host has not changed since the tool began, and what it
  answers is made of what it saw at three moments. Of a file that the exec may not read, the
  property says that the content is the error message.
- `CutsTold` (`CutIsTold`), by `InventoryInv`: the rows of a listing are the first of what the app
  saw, in order, and `truncated` says whether they are all.
- `ProjectReported` (`ProjectReportTrue`), by `ProjectInv`: a report is made of a listing and of
  one inspection per container, between which the host changes. `Later` says how: a container
  stays as it is, stops, goes, or is replaced by one with a higher id, never back. So if a container
  is now as the listing had it, it was so when its detail was read, and the detail is of that container.

`DataLemmas`: induction whose predicate is membership in a set, which is the form the provers can
take (`UpTo`), and from it what a fold over a sequence is (`FoldDefined`), that a finite set can be
sorted (`CanBeOrdered`), what `Filter` and the sorted sequences hold
(`FilterElements`, `LengthWithoutRepetition`), and what joining and filtering do to a sequence with
one more element, to two sequences after each other (`FlattenConcat`, `FilterConcat`) or in
parallel (`FlattenAppend`, `FilterParallel`).

The proofs assume only the named assumptions on constants, which the runs evaluate;
`LimitPositive` is an assumption of the theorem about `ProxyRoutes`, `InputsAssumption` says
that files are sequences of lines and which fields a request has, `OrderAssumption` that digests
and routes are compared as numbers that tell them apart (a digest is taken to be as good as what it is
taken of; routes equal in all the code sorts them by come in one fixed order), and `CallsAssumption`
says that a session id without the blanks around it is a session id. The strengthened invariants were
checked by TLC on the runs' instances before they were proved.

Every invariant and every action property of the passing runs is proved. Model-checked only are
the liveness properties, because fairness and ENABLED are out of the prover's reach, and the
readings of the runs that expect a violation.

## 6. Plan

Done, in this order: workflow snapshots with their history, proofs and readers;
the spool and its streams; session snapshots; background tasks with their proofs; tool
calls with authorization; the snapshot and analysis tools; inspection; the proofs of the
spool, the session snapshots, the route table and the scans that use it, the tool calls,
the files and readers of workflow snapshots, inspection, the groups of errors and the views.
What is left:

1. The time filter of file sources (`log_collection.py`), with lines without a
   timestamp between lines that have one.
2. Release switch and rollback of the deployment scripts.

## 7. Not modelled

- Reading text: the timestamp formats, the regular expressions that find levels,
  addresses, routes and messages, the YAML of manifests and its validation. The models
  start from what was found. Formatting, wording, redaction and clipping of what
  is recorded in the audit rows, tool descriptions, the preview cut of `max_bytes`.
- The time filter of file sources: what it keeps is decided by the timestamps of text lines.
- fail2ban, TLS, Traefik, CrowdSec, host paths, backups and scheduled jobs: each tool reads files or
  runs one command, keeps nothing, and its answer is parsing. Their one shared
  mechanism, a request to a socket app, is that of `DockerSocketApp`.
- Resources, prompts, skills and agent assets: static text. Settings, application start, health:
  configuration and wiring.
- Command line and development tokens: operator commands without concurrent state,
  apart from the manifest and allowlist edits of `ToolCalls`. Verifying a token is the
  library's.
- Release, backup and restore scripts: shell scripts that run `docker compose`, `git` and
  `pg_dump` one after the other.
- The cache decorators of `cache.py`, which no module uses; database fields, column
  checks and the connection's lifecycle; the content of Docker's own log stream.
