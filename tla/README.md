# Fishbowl: formal models

TLA+ models of Fishbowl's core, checked with TLC on small instances and proved
with TLAPS where a property matters for every instance. Paths are relative to
the repository; `write.rs` is `crates/fishbowl-storage/src/write.rs`.

    tlc -config MCReliableWrite.cfg MCReliableWrite     # one run
    tlapm ReliableWriteProofs.tla                        # one module of proofs

Contents: [the system](#the-system), [modules](#modules), [runs](#runs),
[findings](#findings), [proofs](#proofs), [not modelled](#not-modelled).

## The system

Fishbowl keeps engineering knowledge (Cases with Problems, Attempts, root
causes, Solutions, Verifications, Artifacts and Guardrails) in one SQLite
database for one user. A Rust daemon owns it; the CLI, the MCP bridge that
Agents talk to, and the browser reach it over HTTP on a fixed loopback port.

| component | state it keeps | operations | talks to |
|---|---|---|---|
| `DaemonClient` (`src/daemon/client.ts`) | one call: request id, attempt | `call`: two attempts under one request id, 1.5 s each | daemon over HTTP |
| RPC transport (`http.rs`, `protocol.rs`) | session mutex, replay cache of 1000 responses | `rpc`, `handle_line`, `remember` | dispatcher, on blocking threads |
| dispatcher (`native.rs`) | read and write repositories, metrics, a mutex each | one match arm per operation | storage |
| write repository (`write.rs`) | tables `cases nodes edges events operation_results …` | record, promote, close, regress, supersede, merge, checkpoint, finalize | SQLite, promotion policy |
| promotion policy (`fishbowl-core/src/lib.rs`) | none | `evaluate_promotion`, `evaluate_regression` | |
| import, snapshot (`import.rs`, `snapshot.rs`) | previews and proposals; archives | preview, apply; export, import | write repository, files, git |
| schema (`schema.rs`) | `user_version`, `application_id`, backup files | open, back up, migrate | SQLite |
| reads (`storage/src/lib.rs`), retrieval cache (`daemon/src/lib.rs`) | an index per project under the newest event sequence | query, preflight, activity, Case detail | SQLite |
| graph hierarchy, expansion (`fishbowl-core`) | none | k-core hierarchy, bounded expansion | |
| browser endpoints (`http.rs`) | at most 32 event streams with a cursor | graph, Case, events | dispatcher |
| daemon process (`main.rs`, `lifecycle.ts`, `config.ts`, `platform.ts`, `cli/main.ts`) | descriptor, pid, port and token files, the listener, the service registration | start, publish, drain, remove; ensure, install, stop | operating system |
| self-update (`cli/update.ts`) | `dist`, its backup and its marker | update with recovery | git, npm, daemon commands |
| command runs and raw logs (`run-command.ts`, `raw-log-store.ts`) | log files, command events | run, prune | daemon, child process |

What is hard in it:

* **Retries.** A client gives up on a request the daemon still works on, and
  sends it again: to the same process, which may have remembered the response,
  be executing the request or have evicted it, or to another one.
* **Two processes on one database.** A stopping daemon releases the port first
  and then finishes its requests; its successor already serves.
* **Crashes** between a commit and the response, or before the commit.
* **Long sequences of legal calls.** Every record call re-evaluates the
  promotion of its Case; regressions, supersessions and merges take knowledge
  back that later evaluations must leave alone.
* **Aggregates** of many writes that must be all or nothing and safe to retry.
* **Files that name a process**, read and signalled after it may be gone, and
  written or removed by two processes whose lives overlap.
* **Opening a database** that another process is migrating.
* **Knowledge from elsewhere**: archives and imports that meet what a project has
  recorded and confirmed itself.
* **Readers under a label.** Caches and pages take the newest event sequence for
  the state they have read, while others commit between the two.

`PROJECT.json` lists each hazard at its line with the properties that cover it.

## Modules

| module | models | composed in | proofs |
|---|---|---|---|
| `ConfirmedWrite` | the promise made to a caller that names its write with an operationId | refined by `ReliableWrite` | |
| `ReliableWrite` | a write from the caller through the daemon to the database and back | | `ReliableWriteProofs` |
| `CaseLifecycle` | Cases and nodes under every record and curation call | | `CaseLifecycleProofs` |
| `WorkAggregates` | the calls that write a piece of work at once, around the record calls of `CaseLifecycle` | | `WorkAggregatesProofs`, `WorkAggregatesAtomicity`, `WorkAggregatesReuse` |
| `DatabaseOpen` | opening, backing up and migrating the database | `DaemonLifecycle` | with it |
| `DaemonLifecycle` | daemon processes, their files, and the clients that start and stop them | | `DaemonLifecycleProofs` |
| `ProjectGraphs` | the graphs of several projects; how a Problem is recognised | `KnowledgeTransfer` | with it |
| `ProjectSnapshot` | archives: export, validation, import | `KnowledgeTransfer` | with it |
| `ImportPreview` | previews of documents and test reports, and their application | `KnowledgeTransfer` | with it |
| `KnowledgeTransfer` | the three together | | `KnowledgeTransferProofs` |
| `CaseHierarchy` | the index of Cases that retrieval routes by | `ProjectReads` | with it |
| `GraphExpansion` | the bounded walk from matched nodes | `ProjectReads` | with it |
| `BrowserView` | caches under the newest event, a page, its event stream | `ProjectReads` | with it |
| `ProjectReads` | the three together | | `ProjectReadsProofs` |

`MCReliableWrite`, `MCCaseLifecycle`, `MCWorkAggregates`, `MCDaemonLifecycle`,
`MCKnowledgeTransfer` and `MCProjectReads` are their instances for TLC. The
"map" of `PROJECT.json` names the lines each definition stands for.

### ReliableWrite

An action is one step that something else can come between.

| state | in the code |
|---|---|
| `stage`, `round`, `attempt`, `reply`, `answer` | a caller inside `DaemonClient.call`, the attempt it is in, the HTTP response on its way, the node it was told of |
| `status`, `pending`, `task` | the life of a process; requests accepted and waiting for the session mutex; the one holding it, with what its transaction has read |
| `session`, `served` | `ProtocolSession.recent` and `order`; a count of remembered responses (history) |
| `results`, `journal` | the table `operation_results`; the nodes in commit order (history of who wrote them) |

`Connect` is a request reaching the process that owns the port. `Begin` takes
the mutex, misses the cache, opens the savepoint and reads `operation_results`
(`replay_operation`): from then on the transaction has a snapshot.
`ReplayOperation`, `Commit` and `RollBack` end it, and each of them remembers its
response, releases the mutex and answers, as `handle_line` does: failures
are remembered like results. `ReplayRequest` answers from the cache and
remembers nothing. `record_attempt` stands for every write, since all of them
have this frame.

Three facts outside `src/` are modelled from its use of them. SQLite (WAL) lets
a read transaction become a write transaction only while its snapshot is the
newest; otherwise it fails (`CurrentSnapshot`, and a failure is always possible:
`RollBack`). A crash rolls an open transaction back. `Retry` is the Agent's
documented behaviour (`docs/agent-bootstrap-prompt.md:34`): after
DAEMON_UNAVAILABLE it looks the operation up and repeats the write only when
nothing is found.

Sockets that hang are `LoseTransport`, at any time before a response is read; the
accepted request stays with the daemon, whose blocking task is not cancelled.
`Stop` releases the listener, `Exit` waits for the accepted requests, and two
processes therefore overlap.

Left out: requests that fail validation (nothing is read or written), reads, the
bearer token, sizes, timings, and the start of a daemon by the client itself
(`Start` may happen whenever the port is free). A response that breaks off half
way is a transport failure here; `client.ts:106-132` listens to `data` and `end` of
the response and to `error` and `timeout` of the request, and has no handler for
a response that is aborted.

### CaseLifecycle

An action is one committed write. Nodes and Cases are sequences in order of
creation; the data of a node is what promotion and regression look at. A
Solution is `complete` when its applicability, limitations and decisive
difference are not blank, an `exception` when it states why no automated check
is possible. `Promote` is `evaluate_case_promotion` with its selection of the
newest eligible Solution; the writes that end with it call it as their last
step, so it is part of their action. `published` says whether the last write
appended an event.

Three abstractions: the code orders nodes by a millisecond timestamp and breaks
ties by a random id, the model orders by creation; titles are equal or
dissimilar where the code compares word sets with a threshold; a regression
whose context lies outside the boundary writes nothing and is left out.

### WorkAggregates

An action is one statement group of `record_checkpoint`, `checkpoint_work` or
`finalize_work` (`write.rs:1671`, `:1806`, `:1975`): looking the operation up, finding or
making the anchor, each Attempt, the root cause, the Solution, each
Verification, the delivery artifacts, storing the result. `RollBack` may follow
any of them: a statement fails, a check fails, the process dies.

| state | in the code |
|---|---|
| the variables of `CaseLifecycle`, `text` | the tables as the writing connection sees them; what a node says, by which equal nodes are found |
| `results` | `operation_results`, with the derived ids of the parts (`<op>:attempt` and so on) as a pair of operation and part |
| `saved` | the outer savepoint: what `ROLLBACK TO` goes back to, and what other connections see (`Durable`) |
| `call` | the local variables of the function |

The record calls inside are the actions of `CaseLifecycle`, by `INSTANCE`, so a
checkpoint promotes what the evidence promotes. `Curation` is what happens to the
graph between two aggregates: promotions, closings, regressions, supersessions,
merges. A record call on its own has the effect of a `record_checkpoint` with
one write. Left out: Guardrails that a call may add, and the words of fields.

The record calls inside look their derived operation id up as well
(`write.rs:1860`, `:1876`, `:2111`, `:2157`, `:2232`). That lookup is left out: a row under a
derived id is written and undone with the outer call's, which is looked up first,
so it finds nothing, unless a caller has given another call the id
`<op>:attempt`, which the code would then answer it with. The model keeps derived
and given ids apart, and no property claims anything of such an id.

`GatherEvidence` has the code's refusal in it: a checkpoint whose fingerprint
matched a Problem that is not the first of its Case hangs its Attempt on that
one, `finalize_work` anchors on the first, and the final call that names the
checkpoint is refused, although `CONTEXT.md:81` describes the reuse without that
exception. No state is wrong after it, so no property is violated.

### DatabaseOpen and DaemonLifecycle

`DatabaseOpen` has the steps of `open_with_fault` (`schema.rs:79`) of each process:
inspection of an existing file, a second reading of its version over another
connection, the copy, the connection that creates an absent file, the migration
transaction with its write lock, the application id. The file is abstracted to
what the steps look at: its version, whether the columns that `ALTER TABLE`
would add are there (they make a second migration of the same kind fail and
roll back), whether it is sound. A crash before the application id is written
leaves the database without it for good, because `schema.rs:108` tests a value
from before; nothing reads it, and no property is about it. Copies are a set; the
code names them by the millisecond (`schema.rs:221-227`), so that two openers that copy
in the same one write one file, both of what was there before either changed it.

`DaemonLifecycle` puts a process around it: `run_daemon` from its token to the
removal of its files, SIGTERM, crashes, the login service. A client is
`ensureInstalledDaemon`: it looks for the token, creates it exclusively, writes
it, probes the port, spawns a process and polls. `stopper` is the stop command
with its three steps apart (read the pid, authenticate, signal); that the system has
given the pid to another program meanwhile is outside the model. A process that
drains has given up its port and keeps its files: `RemoveDescriptor` and
`RemovePidFile` come later, whenever its last connection ends.

### ProjectGraphs, ProjectSnapshot, ImportPreview, KnowledgeTransfer

A row of a project is a Case or a node, under an id. Ids are modelled as the way
they came about: `<<n, p>>` is the n-th made in project p, and an import appends
the target, as `deterministic_id(target, kind, source)` is a function of the two
and collides for no others. `Own` and `Fresh` count the ids made here.

`RecordProblem` looks a Problem up by operation id, then source key, then
fingerprint. The fingerprint is looked up as it was given and stored as
`redact_value` leaves it (`Stored`), so that a spelling with white space inside,
or with a credential, misses the lookup (`write.rs:277`) and meets the unique
index (`write.rs:3411`): `FingerprintTaken`, a refusal, each time it is repeated. The
design of 2026-07-15 (line 184) has a repeated Problem attach an observation. The
property `KnownProblemAnswered` is about the stored spelling, and the run contains the
refusal. An empty fingerprint is not looked up (`write.rs:272`) but is stored, so the
first Problem that has one is recorded and the second is refused.

What promotes a Solution is there as `evaluate_case_promotion` has it, for complete
Solutions with an exception from automated checks and Verifications by a person who
confirmed them: the newest Solution of the Case that is a candidate or verified,
addresses a verified root cause and has a Verification (`Evaluated`). It ends
`PromoteRootCause`, `RecordVerification` and `CloseCase`, whoever made the rows it
counts. `promote_root_cause` appends an event when the status changes and none for
the promotion it ends with, so confirming a root cause again can promote silently
(finding 2). Recording a root cause as verified from the start, which is the project's
own word too, is left out here.
`promote_root_cause` is called under an operation id that nothing else uses.
`confirmed` is history: the root causes each project has itself confirmed. A project
may begin with a Case, a root cause and two Solutions (`Seeds`), and then an archive
of that exists.

`ImportProjectGraph` is `import_project_graph` with its validation: relations
between the right types and within a Case, no cycle, ids that are there left as
they are, verified Cases, root causes and Solutions downgraded to candidates, the
unique indexes of fingerprints and edges, the event. `ExportProjectGraph` is one step
although the code reads the tables one after the other (`snapshot.rs:31-169`): it does
so on the writer's connection under its lock, so only a second process, while one
drains, can commit in between. Four things the import does that a reader may not
expect:

* Verifications keep their status and their confirmation (`snapshot.rs:259-268`
  downgrades root causes, Solutions, SuccessCases and Guardrails only). They count as
  evidence at once when the project confirms the imported root cause, or adds a check
  to a Solution under a root cause it has confirmed. `ImportedTrust` says what is left
  of the promise: nothing is verified but under a root cause the project itself has
  confirmed.

* An archive with a fingerprint that the target knows under another id, or with
  an edge it has under another id, is refused whole (`FingerprintClash`,
  `EdgeClash`).
* An imported SUPERSEDES edge does not retire a candidate of the target that is
  there already.
* Edges are added by their id alone. Two projects that have the same two
  Solutions by an earlier exchange, and each supersede one by the other, have a
  cycle after the next import, which `supersede_solution` and `validate_archive`
  refuse; that project's archives can no longer be imported anywhere, though
  `docs/implementation-plan.md:192` has a round trip preserve integrity.

`ImportPreview` parses a file (a test report: a Problem and an Attempt for each
failure; a document: a Problem for each heading), stores the proposals, and
applies any selection of them while the preview is pending, has not expired and
still describes the file. Files change, also back and forth.

A Problem without a title becomes "Imported issue", an Attempt without one is
refused with the selection it is in (`Issue`, `ValidDraft`).

`KnowledgeTransfer` composes them: one graph per project in which recorded,
imported and applied knowledge meet. The curation calls of `ProjectGraphs` are part
of what `CaseLifecycle` has in full; they are there because an import must respect
the decisions a project has made. `TransferPublished` says which change of a graph may
come without an event: only the promotion of a Solution and its Case under a root
cause the project had confirmed.

### CaseHierarchy, GraphExpansion, BrowserView, ProjectReads

`CaseHierarchy` translates `hierarchy.rs`: links between Cases that share a key
which is not too common, communities as connected components, shells by peeling
the Case of least degree, and branches that are rebuilt when a Case changes its
domain or its data. `upsert` and `attach_generated_summary` are called by tests
only at present; the daemon builds a hierarchy for each revision.
`rebuild_branch` returns early for a domain that has become empty
(`hierarchy.rs:399`) and leaves its generated summary behind
(`Rebuilt` has that; compare
`docs/plans/2026-07-16-rust-core-migration-tdd.md:397`).

`GraphExpansion` translates `expand_bounded` and `supporting_path`. The outer
loop ends on the edge budget without setting `budget_reached`
(`graph_expansion.rs:173`), so a truncated expansion may call itself converged;
`ExpansionExplained` says exactly when it is complete.

`BrowserView` follows one page. `commits` is the time of the database; `events[i]`
is the commit that appended event i; a cache entry is the label it was stored
under and the commit its rows were read at, and a page shows the oldest commit
any part of its answer was read at. `QueryGraph`, `AsOf`, `ShowGraph` and
`SelectCase` are `loadGraph` of `web/app.js` with `browser_graph` and `browser_case`
of `http.rs`, between which others commit. `BrowserEvents`, `Refuse`, `Poll`,
`Deliver` and `StreamGuardDropped` are the daemon's end of a stream; the count of
streams is raised before it is compared and lowered on refusal. `Receive` is the
page's `EventSource`, which reconnects with its last event id after a lost
connection and not at all after a refusal (503). A reader may load the graph again
during a load, click a Case, press the button that reconnects, and go to another
project (`LeaveProject`); the sequence may fail to be read, which gives 0, and so may
the selected Case, after which the load goes on. Neither the button nor a change of
project comes in the moment between the counting and the refusal of a request
(`~refusing`).

`RecentActivity` is the newest page after the cursor, as `list_recent_activity` has it
(`storage/src/lib.rs:740-743`). When more events were appended than a page holds, the
older ones never reach the stream (`http.rs:186-203`). `CONTEXT.md:99` promises otherwise:
SSE "emits `snapshot_required` rather than skipping an excessive gap". The server never
sends that notice. `StreamsContinue` therefore does not claim that nothing is skipped.
It says exactly what is: wherever two neighbours in what the page got, will get and
has pending are not consecutive, a whole page of consecutive events begins with the
second. A page that loses an event more is caught. For what the page shows the gap does
no harm, because the event that follows makes it load the graph again (`CatchesUp`); its
list of activity lacks the events until it does.

The three share no variable: the daemon computes hierarchies and expansions from
rows it has read and keeps none. `ProjectReads` therefore lets one of them move in a
behaviour (bound `ViewIdle`), and likewise a read under a label and a page.

## Runs

| run | instance | shows |
|---|---|---|
| `reliable_write` | callers a1 (named) and a3 (unnamed), which share their first request id; 2 processes; window of 1; 2 calls each | `AppliedOnce`, `AnswersAreEffects`, `ReplayWindow`, and `KeepsPromise`: the refinement of `ConfirmedWrite` |
| `reliable_write_live` | callers a1 and a2: one operationId, two kinds; 2 processes; 1 call each; fairness | `CallsReturn`, `RequestsDrain`, and that a conflict tells nobody of the other's node |
| `unnamed_write_retry` | one unnamed caller, 2 processes | **violated**: a retry of an unnamed write makes a second node |
| `case_lifecycle` | 2 Cases, 2 Problems, 1 Attempt, 1 root cause, 2 Solutions (one with an automated check and a human's, one with an exception), 2 Verifications, 1 Artifact, 1 Guardrail, 6 nodes in all | the five properties of the module |
| `case_events` | the same | **violated**: a write changes the graph without an event |
| `case_merges` | 3 Cases | **violated**: an applied merge is not recorded |
| `work_aggregates` | three checkpoints (of a failure, a success, a routine success) under one operation id, four valid final calls and one that is refused under another, a batch; 2 Cases, 12 nodes, 2 curations, one write in the batch (25 in the code) | others see a piece of work whole or not at all, a repetition changes nothing, a checkpoint is reused, and a final result has its chain and its evidence in the graph |
| `daemon_lifecycle` | 2 processes, 2 clients; a database that is absent, of version 3, of version 10, or damaged; fairness | migrated once, after a copy, or not touched; files that never mislead; one token; a start comes to an end |
| `daemon_descriptor` | the same | **violated**: a serving process without a descriptor |
| `knowledge_transfer` | 2 projects, of which one has a Case to begin with that is exported already; 6 calls, 2 archives, rows that pass 3 projects, 1 preview of a report or a document, 6 and 4 rows of their own; the two operation ids are interchangeable (symmetry) | imports confer no trust and change nothing that is there; known Problems are answered; a selection applies once; changes append events but for a repeated confirmation's promotion |
| `project_reads` | all hierarchies of 4 Cases in 2 domains with 2 keys (3 Cases per key, 64 in the code) and 1 upsert; all expansions over 4 nodes with budgets {1, 2, 4} x {1, 3, 7}; 3 commits of which one may be quiet, 1 stream (32), pages of 2 events (100), 1 preflight (256), 1 of: a lost connection, a sequence not read, a load given up, a stream opened anew by its reader, a project left; fairness | caches are current under the newest label, streams continue, a page catches up, no stream place is lost; hierarchies and expansions agree with reference definitions |
| `browser_view` | 3 commits, 2 streams, pages of 2 | **violated**: a page rests with an old graph |

Why the bounds are enough. Two processes are the most that can run at a time
(one serves, one drains) and enough for a crash and a replacement; the proofs
cover any number. A window of one makes eviction happen with two requests: any
larger window needs more requests for the same step. Two calls of two attempts
let a request be lost, repeated, refused and repeated under a new id. In
`case_lifecycle` six nodes are a Problem, a root cause, two Solutions and two
Verifications: enough to promote each Solution, regress or supersede one while
the other keeps its evidence, and merge its Case. In `work_aggregates` twelve
nodes hold a checkpoint and a final call with two Verifications and two
artifacts; two curations regress and supersede what the final call is about to
reuse; each derived operation id is met by a repetition. In `daemon_lifecycle` version 3
is old enough for both kinds of added columns, and two processes are enough to
read one version and migrate under another. In `knowledge_transfer` two archives and three
projects on a row's way are an archive there and one back, and six calls verify a
Solution, carry the Verification over and confirm the root cause there. In `project_reads` a
key shared by four Cases is too common, shells have up to three levels, and each
size of budget stops somewhere and is enough somewhere; a commit between the
label and the rows, an event lost with its connection, a refusal at the limit
and, with three events for a page of two, a page that leaves one out all happen.

Deadlock is not checked: callers finish, the bounded numbers of processes,
rounds, calls and nodes run out, and the system then rests.

Fairness. Nothing is assumed of callers that have not called, of starts, stops,
crashes, or of the end of a drain, which an open browser stream may hold back for
ever.

* `ReliableWrite!FairSpec`: a socket eventually times out (the client sets a
  timeout on every request) or delivers the response that was written to it, and
  a process that runs goes on with its requests (blocking threads, a busy timeout
  in SQLite).
* `DaemonLifecycle!FairSpec`: a process that starts goes on with its own steps,
  one of which is always possible: a locked database times out, a taken port
  makes it exit.
* `ProjectReads!FairSpec`: requests of a page are answered, the task of a stream
  goes on polling and sending, and the browser hands on what it gets. `CatchesUp`
  makes an exception of a page that was refused a stream or whose load failed: it
  does not try again by itself.

## Findings

The violated runs state what a document of the repository says; each
counterexample is a behaviour of the code. `PROJECT.json` quotes the lines.

1. *Retries create no duplicate nodes.* They do for a write without an
   operationId when the process that committed it is replaced before the retry.
2. *Every mutation writes an event.* Promotion updates a Case and a Solution
   without one, and `promote_root_cause` repeated on a verified root cause appends
   no other: a Case retired by a merge becomes verified again silently.
   `TransferPublished` shows that no other call of its module does so.
3. *Applying a proposal records its supersession.* Not for the second applied
   proposal of one source Case.
4. *Graceful shutdown removes the descriptor; abrupt death is recovered.* A process
   that drains while its successor starts removes the successor's descriptor, and
   a serving daemon is published nowhere.
5. *HTTP/SSE captures the sequence before the snapshot reads.* `browser_graph` and
   `browser_case` capture it after: an event committed in between is neither in
   the graph nor announced later, and the page stays old until the next write.

A sixth disagreement has no run of its own, since a passing property states it in
full: `CONTEXT.md:99` has SSE announce a gap by `snapshot_required`, and the server skips
the events (see `BrowserView` above and `StreamsContinue`).

## Proofs

All theorems hold for every value of the constants that satisfies the
assumptions of the module, which TLC evaluates on its instances: any callers,
processes, keys, request ids and window; any quotas of Cases and nodes; any
projects, spellings, contents and numbers of archives; any page, cache and stream
limits. Bounds of a run are constants too, so the theorems have no bound.

`ReliableWriteProofs`. `AppliedOnce` is not inductive. The invariant `IInv` says
what makes it so: the rows of `operation_results` and the nodes of the journal
are written together (`StoredWithItsWrite`), and what an open transaction has
read is still true unless its snapshot is stale, in which case it cannot commit
(`SnapshotsHold`). `AnswersAreEffects` needs to follow a result on its way: the
replies in flight and the cached responses are effects of the write they answer
(`RepliesAreEffects`, `CacheHoldsEffects`), and an unnamed write never finds a
row (`UnnamedFindNothing`). `InvariantCorrect` proves `[]IInv` with a step per
action; `TypeCorrect`, `AppliedOnceCorrect` and `AnswersCorrect` follow.
`ReplayWindowCorrect` has an invariant of its own, `WindowInv`: a running session's cache
holds as many responses as it has served, up to the window; the response to a committed
write stands as far from its end as responses were remembered since; and the request
in hand is not in it, so remembering its response repeats nothing.
`PromiseKept` is the refinement: under `IInv`, `Commit` of a named write is
`Apply`, receiving a result or looking one up is `Tell`, and all else stutters.

`CaseLifecycleProofs`. The invariant is the conjunction of the type invariant
and the three state properties, which need each other: superseding a verified
Solution leaves its Case verified only because the replacement is. The central
lemmas are about the graph, not about steps: evidence survives the growth of
the graph (`EarnedStays`, with `Oldest` of the root causes a Solution addresses,
which rests on the well-foundedness of the naturals), and promotion of a graph
that satisfies the invariant yields one that does (`PromoteKeeps`). Each action
then builds its graph and hands it to `CommitKeeps`. `StatusAdvances` is an
action property and uses the same invariant.

`PromotionCorrect` is about one step: whose evidence was incomplete before a write
and is complete after it is verified, or a newer Solution of its Case is. Evidence stays
within a Case (`Related`), so a write to one Case completes nothing elsewhere
(`ElsewhereComplete`); promotion looks at the newest Solution of the Case, and what it
changes in the graph does not change who is eligible (`EligibleSame`). `StepBuilds`
says of each action which graph it builds and whether promotion ends it.

`WorkAggregatesAtomicity`. `Consistent` says of a view of the database what
`AllOrNothing` says, except for the parts of some operations and for some Artifacts;
`WholeInv` says that the view under the savepoint is consistent without exception,
and the connection's own view except for the operation of the call and the Artifacts
it has just delivered. The delivery is the one step that adds Artifacts no
Verification supports, and storing the result is the only step that can follow it but
a rollback. What the record and curation calls contribute is one lemma each: nodes
keep their type and Case, edges stay, a new Case has a Problem (`Grown`). From it
`AtomicityCorrect`.

`WorkAggregatesReuse`. `ChainIn` is the chain of a result, and as well of the locals
of a call that has come part of the way; `ChainInv` says that each result and the
call itself are chained. A call reuses a node only after it has read the edge that
ties it to the part before, and no call takes an edge away: `ChainCorrect`. For
`ReuseCorrect` the lemma that matters is about the promotion at the end of a record
call: the one node it changes is a Solution that is a candidate or verified
(`PromotionRevives`).

`WorkAggregatesProofs` rests on the two before it. `CallInv` says that while a call is
in progress there is a savepoint, that it holds what the connection saw at the call's
lookup, and that past the lookup it holds no result of the call's operation. So a call
whose operation has a result others can see is still at its lookup, where only the
replay and a rollback are possible (`RepetitionCorrect`). `WorkInv` is the invariant for
the other three. It rests on what no later step of the graph takes back (`Advanced`): a node
keeps its type, Case and data, a check its status, an edge stays, and an Attempt is made
at one Problem. Of the stored results, as the connection sees them and as others do, it
says that there is one row of each part, and that a final one carries on its checkpoint
and is borne out by the graph (`ViewGood`). And it says at each step of a call what
the call has in hand (`InHand`): the parts it has recorded, the checkpoint it has loaded and
what it has taken over from it, and up to which point its outcome is borne out. There is a
lemma per step (`VerifyOn`, `BatchDoneOn`, `DeliverOn`, `StoreOn`...); the one that stores
a result uses `ChainInv`: the Attempts a checkpoint reports are at the Problem it reports.
`TypesCorrect`, `CheckpointCorrect` and `OutcomeCorrect` are read off at the end.

`DaemonLifecycleProofs`. `DatabaseInv` is inductive for the steps of
`DatabaseOpen` alone: past the inspection a process knows that the file is
usable, and one that is to migrate has a copy of the original behind it, whichever
process changed the file meanwhile. `LifecycleInv` adds the port (exactly the process that
is bound, described or serving has it), the descriptor and the pid file of those,
and the token: while a client is between creating and writing the token file
nobody has read a token.

`KnowledgeTransferProofs`. `TransferInv` has five parts. `TablesInv` is the central
one: wherever an id has got to, the row has the type that its root has in the
project that made it. That is what makes "leave a row alone whose id is there" right,
and with `TrustInv` it keeps imported knowledge unverified until the root cause behind
it is confirmed here: an import downgrades what it brings, and each evaluation of
promotion that verifies a Solution has found it a verified root cause, which by the
invariant is a confirmed one. `IndexInv` says that each fingerprint in a row, of a project or of an
archive, is indexed as that row's; `KeysInv` that what came of a preview came when
it was applied. `TypesCorrect` needs two more. `NumbersInv`: a project has numbered the
rows it made without a gap, so the number `Fresh` counts out is free. `RefsInv`: edges,
fingerprints and source keys lead to rows that are there, and an edge stays in one Case.
For an import this rests on `TablesInv` again: the Case of a row is the Case its root had,
followed through the same projects, so a row that is left alone because its id is there
belongs to the Case the archive means.

`ProjectReadsProofs`. `ViewInv` says of a cache entry that its rows are at least as
new as the event it is labelled with (`ReadInv`), of the count of streams what it
counts (`CountInv`), and of an open stream that what is on the wire and what is pending
are `Chained` to where the page would resume, and that reading goes on from the last of
what was sent (`OrderInv`): consecutive but for gaps before a whole page. Sending moves
an event from what is pending to the wire and receiving takes the first away, which
leaves a chain (`ChainedOn`); a poll adds a page behind one (`ChainedWith`).

The rest of the module is about what one step computes. `ExpansionCorrect` has
`ExpansionExplained` of any finite graph, any nodes that were matched and any budget.
The walk is two nested folds, and a fold over n steps is the solution of a recursion:
`Recursion` constructs one for any step that stays in a set, so that the walk is the
last of a row of states, each one `Round` (or one `Visit`) further than the one before
(`RoundsRun`, `VisitsRun`). An induction along such a row is the search for its first
exception (`Steps`, from `Least`). What every round keeps is `WalkInv`: there is a
distance for each node found such that
* `Tree`: seeds are at 0, each other node is one further than its parent, to which a
  used edge leads, and no used edge leads more than one further; the budgets hold;
* `Frontier`, unless the edges are used up: the queue holds nodes in order of distance,
  no two of them further apart than 1, and for the nodes already expanded every edge is
  used, or its other end was left out because the nodes were used up (`Settled`).

A round takes one node from the queue and adds as many as it finds, so that after as
many rounds as there are nodes the queue is empty. `PathLeads` walks back by parents: the
path is as long as the node is away, `NoSooner` says that the used edges reach it no
sooner, and `AsSoon` that everything found can be reached. If no budget was met, the
nodes found are closed under the edges of the graph (`ReachStays`). `Walks` bounds what
a state of the walk is; edges have two ends by `kSubset`.

`HierarchyCorrect` has `HierarchyIsCurrent` of any finite set of Cases, any records and
any changes. A search is a fold too (`ReachedRun`), which each step makes larger until
it is whole (`ReachedWhole`), and stays in every set that no link leaves
(`ReachedStays`); hence components are connected and closed. For peeling the invariant
is `Peeling`, with the worth of the Case taken last: each Case that is left has as
degree the number of its links to others left, or that worth if they are fewer; those
left were in a group knit as much as that worth (`Knit`); and each Case that was taken
has its core number (`CoreOf`). `PeelKeeps` is the step: a group knit more than the least
degree has lost nobody yet, so the Case with that degree is not in it. Peeling a
component gives the core numbers of the whole domain, because what a group has in one
component is as well knit as the group (`CoreNumberOf`). `BranchesInv` then needs little:
a branch is right when it is built (`BranchRight`) and stays so while its Cases do
(`BranchStaysRight`), and `upsert` rebuilds the domain a Case leaves as well as the one
it enters.

### Only model-checked

* Liveness: `CallsReturn`, `RequestsDrain`, `StartupSettles`, `CatchesUp`. They hold
  under the fairness of each module only, and the provers do not evaluate `ENABLED`.

Every other property of a passing run is stated by a theorem.

## Not modelled

* **Project registry**: paths are made canonical by the operating system; what is
  left is two unique indexes.
* **CLI self-update**: its correctness lies in what git, npm and cargo leave behind;
  a model would assume all that it shows.
* **Command runs and raw logs**: one actor, one child process, log files pruned to a
  size.
* **MCP bridge, CLI arguments, contracts**: translation and validation without state.
* **Ranking and text**: relevance scores, preflight scoring, community ranks
  (floating point), redaction as text, the search index.
* Parts of modelled components: `restore_backup` and the integrity command, the
  installation of the login service and the choice of its port, the match of
  operations to calls and the metrics in `native.rs`, poisoned mutexes, the
  assembly of query cards and Case details, rendering and filters of the page.
* Ties of timestamps: the code orders nodes by a millisecond timestamp and breaks
  ties by a random id; the modules order them by creation.
