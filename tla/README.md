# Skein: models, model checks and proofs

Skein is a coding-agent harness in Python (`src/harness`, `src/app/agent`) on top of
Google ADK, with a WebSocket server for durable runs (`src/harness/server`) and a
terminal client in TypeScript (`src/clients/terminal`). This directory holds TLA+
modules for the parts of it that are concurrent, must survive a crash or compute
something that is hard to test, TLC configurations that check them on small instances,
and TLAPS proofs of the results that matter most. All paths below are relative to
`src/`.

1. [The system](#1-the-system)
2. [Modules](#2-modules)
3. [Runs, bounds and what they show](#3-runs-bounds-and-what-they-show)
4. [Fairness](#4-fairness)
5. [Theorems](#5-theorems)
6. [Disagreements between code and documents](#6-disagreements-between-code-and-documents)
7. [What is not modelled](#7-what-is-not-modelled)
8. [Plan](#8-plan)
9. [How to run](#9-how-to-run)

## 1. The system

### Components

| component | code | state it keeps | operations | model |
|---|---|---|---|---|
| Run registry | `harness/server/registry.py` | SQLite: one record per run (status, thread), the public events of each run; in memory: the broker's subscriber queues | `create_run`, `update_status`, `append_event(s)`, `terminalize`, `replay_page`, `publish`, `subscribe` | `RunRecords`, `RunHistory`, and the durable half of `RunCoordinator` |
| Run coordinator | `harness/server/runtime.py` | `_active`, one driver task per run, the workspace lock, the lifecycle lock | `start`, `_drive`, `cancel`, `aclose`, recovery, `attach` | `RunCoordinator`; `attach` in `RunDelivery` |
| WebSocket connection | `harness/server/websocket.py` | outbound queue, attachment task | attach, enqueue, writer, close | `RunDelivery` |
| Terminal session | `clients/terminal/src/remote-session.ts`, `session.ts` | cursor, pending start, socket | connect, reconnect, start or attach, apply an event | `RunDelivery` |
| Conversations | `harness/server/sessions.py` | SQLite: follow-ups, continuation targets; the controller's lock | `enqueue`, `remove`, `continuation_target`, `dispatched`, `after_turn`, `_dispatch` | `Conversations`, promise in `FollowUpQueue` |
| Task workflow | `app/agent/workflow.py` | local: the invocation; durable: event stream, checkpoint | `_initialize_run`, the loop of `_orchestrate_owned`, answers, review, routes, verification | `TaskWorkflow` |
| Task ledger | `harness/state/events.py`, `harness/orchestration/*`, `harness/models/task.py` | the ledger as a fold of the stream | `reduce_event`, `reduce_agent_step`, `decide_route`, `replan_ledger`, ... | `TaskLedger` |
| Event store, checkpoints | `harness/state/event_store.py`, `checkpoints.py` | JSONL stream with idempotency keys; latest checkpoint | `append`, `read`, `save`, `latest` | `TaskWorkflow` |
| Steering | `harness/state/steering.py`, `harness/adk/steering.py` | message rows with leases | `enqueue`, `lease`, `ack`, `release`; model and tool callbacks | `SteeringQueue`, `TaskWorkflow` |
| Command approvals | `harness/approvals/*` | request rows; waits and accepted decisions in memory | `request`, `wait`, `decide`, consult | `ToolCalls` |
| Tools, receipts, edits | `harness/tools/*`, `harness/state/receipts.py`, `harness/environment/*` | receipts; files | `bash`, `edit`, `write`, `begin`, `finish` | `ToolCalls` |
| Notebook tool | `app/agent/builders.py`, `harness/repl/*`, `harness/notebook/*` | kernel process, its epoch and lock; cell events; the `.ipynb` file | `python`, restoration, capabilities, reset, snapshot, close | `Notebook` |
| Trace ledger | `harness/ledger/*` | JSONL or DuckDB events of all tasks, segments, artifacts | `append`, imports, read repair, backfill, seal, erase | `TraceLedger` |
| Sign-in | `harness/ai/codex_auth.py`, `controls.py` | the credential file and its lock; login attempts | resolve, refresh, login, cancel, logout | `SignIn` |
| Model selection | `harness/server/models.py`, `harness/ai/selection.py`, `harness/codex.py` | default file, the conversation's row, receipts, the catalogue | select, show, discover | `ModelSelection` |
| Providers and public stream | `harness/ai/*_responses.py`, `app/agent/streaming.py`, `harness/server/adk_mapper.py` | the accumulator of a response, the gate of a reply, the open message and pending calls | stream, retry, aggregate, normalize | `ModelTurn` with `PublicStream`; when a reply may answer in `TaskWorkflow` |
| Tracing and metrics | `harness/tracing/*`, `harness/telemetry/*` | spans with their keys; usage rows | record, pair, usage | `TurnTrace`, `ModelTurn` |
| Verification | `harness/verification/*`, `workflow.py` `_verify_task` | the report, approval rows | discover, execute, report | `Verification`; its verdict in `TaskWorkflow` |
| Repository search | `harness/repo/fff_search.py`, `search_command.py`, `adk_adapter.py` | the finder, snapshots, cursors | search, page, evict, close | `SearchPages` |
| Workspaces | `harness/workspace/manager.py` | worktree, record, lock file | create, load, remove, cleanup | `Workspaces` |
| Skills | `harness/skills/*`, `app/agent/skills.py` | the pinned skills of a session | discover, select, build the context | `SkillContext` |
| Evaluation experiments | `harness/evals/experiments.py` | the result file | matrix, next, import, analyze | `Trials` |
| The rest | context and compaction, memory, factory, bootstrap, terminal UI, sandbox, repository manifest, ADK persistence, configuration and redaction, evaluation runners, command line, data models | | | not modelled, see section 7 |

### How they interact

A client's `task.start` reaches `RunCoordinator.start` through its connection. `start`
makes the durable record, then a driver task that takes the workspace lock, begins the
run and iterates the ADK runner. Inside that runner the **task workflow** plans, calls
the coding worker, reviews and verifies; the events it yields are mapped (**public
stream**), appended to the registry and published to the subscribers. A connection
*attaches* to a run: it replays the durable events from the client's cursor and then
follows the live queue. When a run ends, the conversation controller's hook may start
the next follow-up. Steering goes past all this: it is a row in SQLite that the ADK
plugin leases before a model call, and that the workflow acknowledges after the step
that saw it is recorded.

The coding worker's tools run in threads, several at a time. A command may need a
person's approval, which the waiter takes from the socket or the command line from the
store; an edit is guarded by a receipt; a notebook cell runs in a kernel process under
the worker's lock and may itself call the tools. Every store writes to its own tables or
files first and then imports the change into the **trace ledger**. A model call resolves
the stored credential, which logins, logouts and other processes replace.

Communication is by calls and shared SQLite rows, files and locks. Within the server
everything but the tools runs on one event loop: the units of interleaving are the
sections between two awaits and, for threads, the steps between two locks or
transactions. The units of crash are single transactions, JSONL appends, file
replacements and response events.

### What is hard here, and what makes each part correct

* **Coordinator.** Two drivers race for the workspace while start, cancel and shutdown
  change the same runs; a cancellation can land before a driver's first step, in its
  body, or in an exception handler; the process can die between two transactions of
  one section. Correct when: no run begins twice or is invoked after it was settled;
  one invocation at a time; one active turn per conversation; record and history
  agree at every crash point; every admitted run is settled; no caller waits for ever.
* **Delivery.** Publication interleaves with replay; queues overflow; connections drop.
  Correct when the client applies every event once and in order, and sees the end.
* **Conversations.** Completion hooks run late, crashes leave half-dispatched rows,
  requests are retried. Correct when messages start in order, at most once, never after
  removal, a retry authorises nothing new, and success drains the queue.
* **Workflow.** Crash between the effect of a tool, its flag, the recorded step, the
  acknowledgement and the checkpoint; leases expire under a running worker; the same
  idempotency keys are used by later invocations. Correct when steering is acknowledged
  only after a recorded step saw it, completion leaves nobody's message behind, step
  keys are never used twice, tool effects cannot be answered away or skip the review,
  and every invocation ends.
* **Approvals, tools, receipts.** A decision races the timeout; threads outlive the run
  they work for; equal calls share a row or a receipt. Correct when a command runs only
  under its own approval and never after its wait lapsed, a mutation answered with
  success took place, and every call ends.
* **Notebook.** A kernel times out, dies or is reset under calls that wait for its lock;
  a new kernel has to be brought back to where the old one was. Correct when a cell runs
  in a kernel that holds what the completed safe cells assigned and nothing else, and a
  closed notebook's file shows all its events.
* **Trace ledger.** Two stores written one after the other, by several threads, with
  stops between; a reader repairs, an erasure removes. Correct when a read serves what
  the file held, each event once, and an erasure takes all of one task and nothing else.
* **Sign-in and model choice.** A rotating token that may be shown to the provider once;
  threads that hold a credential when the operator withdraws it; requests sent again
  over a newer choice. Correct when no rotated token is shown again, what was withdrawn
  stays out, and an acknowledged newer choice stands.
* **Model calls.** Chunks, held-back control headers, aggregates that repeat what was
  streamed, retries, raw call ids used again. Correct when the words of a reply are
  shown once, and results and spans stay with their calls.
* **Verification, search, skills, worktrees, trial results.** Values computed from files
  that change meanwhile, budgets and caps that end anywhere, processes that are killed
  between two writes or that write the same file. Correct when a passing report stands
  for its plan, pages partition their matches, the skills of a task stay what was
  pinned and fit their budget, the base of a task's changes stays what it was, and a
  trial is recorded once.

`PROJECT.json` lists every hazard with its line and the properties that cover it.

## 2. Modules

| module | role |
|---|---|
| `RunRecords` | statuses and event kinds of a run |
| `RunHistory` | abstract: what the registry promises to whoever reads a run |
| `RunCoordinator` | the coordinator over the registry; refines `RunHistory` |
| `RunCoordinatorInvariant` | its inductive invariant `Inv`, and `Cared`, who looks after each run |
| `MCRunCoordinator` | four TLC instances in one: the initial state chooses the cast |
| `RunCoordinatorProofs` | types, `Inv`, safety, what may abandon a run, refinement |
| `RunDelivery`, `MCRunDelivery` | registry fan-out, attachment, connection and client for one run; its producer is `RunHistory` |
| `RunDeliveryProofs` | types, order of delivery, refinement |
| `FollowUpQueue` | abstract: what the queue of follow-ups promises |
| `Conversations`, `MCConversations` | the controller over runs; refines `FollowUpQueue` |
| `ConversationsProofs` | types, its two safety results, refinement |
| `SteeringQueue`, `TaskLedger` | operators: message rows with leases; ledger, fold and decisions |
| `TaskWorkflow` | workflow, plugin, streams and crashes of one task |
| `TaskWorkflowProofs` | types, the five safety results |
| `ToolCalls`, `MCToolCalls` | approvals, commands, edits and receipts of a task's calls |
| `ToolCallsProofs` | types, the three safety results |
| `Notebook`, `MCNotebook` | the python tool, its kernel and its events |
| `NotebookProofs` | types, its two safety results |
| `Listing` | operators: a set in an order, the elements of a list that are in a set |
| `TraceLedger`, `MCTraceLedger` | the canonical ledger beside the stores it shadows |
| `SignIn`, `MCSignIn` | the stored credential and everybody who replaces it |
| `PublicStream`, `TurnTrace` | operators: what is made public of ADK events; how spans are stored and paired |
| `ModelTurn`, `MCModelTurn` | model calls with retries, the reply gate and tools, seen through `PublicStream` and `TurnTrace` |
| `ProviderProofs` | `SignIn` and `ModelTurn`: types and two safety results of each |
| `ModelSelection` | which model the next turn uses |
| `SearchPages` | searches, snapshots, pages and cursors over files that change |
| `Verification` | plan, execution and report of a task's checks |
| `Trials` | the evaluation's trial matrix, result file and analysis |
| `Workspaces` | the worktree of a task under several processes |
| `SkillContext` | the skills of a session, their budget and their pinning |
| `Workbench`, `MCWorkbench` | the last six side by side: they share no state, and the TLC instance lets the initial state choose the one that runs |
| `WorkbenchProofs` | their safety results, part by part, and those of `TraceLedger` |

Each module with variables has a `TypeOK`. It holds in every run's instance; the runs do
not list it, as the properties they do list say more.

### RunCoordinator

*State.* `status` and `journal` are the durable rows. `server`, `active` (the keys of
`_active`), `driver`, `attempt`, `stream`, `cancelling`, `workspace`, `lifecycle`,
`caller` and `targets` are the memory of the process and vanish in a crash. `section`
holds the registry calls the running section has still to make.

*Actions.* One action is one section of the event loop: it updates the memory and puts
the section's registry calls into `section`. `Commit` performs them one by one, and no
task moves until they are done, but `Crash` may come between any two. `Start`,
`StartLocked`, `Created`, `CreateFails` are the stages of `start`; `Enter`, `Acquire`,
`Activity`, `Output`, `Fault`, `FirstEventTimeout`, `Retry...`, `StreamEnds`,
`StreamFails`, `Closed`, `FailClosed`, `CancelClosed` are `_drive` from entry to its
handlers; `Interrupt` delivers a CancelledError at whatever await the driver is in.
`CancelQueued`, `CancelActive`, `Awaited`, `UnstartedClosed` are `cancel`; `Stop`,
`StopNext`, `Stopped` are `aclose`; `Recover`, `Serve` the next start of the server.

*Abstractions.* `factory.create` and the runner's close are external steps that end
somehow. A cleanup warning (deduplicated in the code by its source key) is a free
choice `CloseWarns`. The uncontended path of the lifecycle lock is one section, as
asyncio's lock does not yield when it is free. Follow-up dispatch is one of the
`Clients`. Which of several woken tasks runs first is free, which over-approximates
asyncio's order. At most one driver of a run is represented: a driver awaiting a close
behind a released lock counts as that run's driver. One process uses a state directory.

### RunDelivery

*State.* The run's record and history; the client's `cursor` and whether it knows its
run (`accepted`); the connection (`link`, `wire`, `outbound`); the attachment with its
`position` and `live` queue. `Begin` and `Append1` are the run, as `RunHistory` allows
it. `Replay` is one section (SQLite is read synchronously and `_enqueue` never waits),
so are `Deliver` and `Overflowed`; `Write` is the writer; `Connect`, `Drop`, `Receive`
the client and the network. The last slot of `wire` is the message the writer is
sending. A close frame goes out in the section that closes.

*Abstractions.* Batches are published one event at a time, which allows more
interleavings than the code; pages of the replay collapse into one read because
nothing runs between them; only the client's current connection is kept; a gap and a
close both make the client leave the connection. The handshake, authentication,
connection limit, heartbeat and moving on to another run are left out.

### Conversations

*State.* `queue`, `mark`, `target` are the tables; `status`, `order`, `masked` the runs
as the controller can see them; `ctl` the holder of the lock; `driven`, `late`, `ended`
the tasks; `startedBy` is history. `FollowUp`, `RemoveFollowUp`, `Continue`, `AfterTurn`,
`Dispatch`, `Started`, `StartFails` are the controller; `Submit`, `Resubmit`, `Created`,
`Begin`, `Finish`, `Strand`, `Unstrand`, `CancelQueued`, `DrivenAgain` the life of a run
reduced to what the queue can tell apart, including a run the coordinator abandons and
one a retried start drives anew. `Close`, `Down`, `Recover`, `Serve` are shutdown, crash
and restart. One conversation is modelled; the lock may be held by another one, so a
hook may come arbitrarily late. `FollowUpQueue` is seen
through `accepted` (the rows in order), `started` (the messages whose run exists) and
`removed` (the cancelled rows without one): a message starts where `create_run` runs for
it, which is before its row is marked.

### TaskWorkflow with TaskLedger and SteeringQueue

*State.* Durable: `stream` maps each idempotency key of the task's events to the content
first written under it, `recorded` is the fold of the stream, then `checkpoint`,
`queue` (steering rows), `required` (ADK session state: the task in which a tool with
effects ran) and `tree` (workspace fingerprint). Volatile: `run`, the invocation under
way. Messages move `unsent -> queued -> leased -> acked`, and a lease whose time passed
is `expired`; only one owner leases the messages of a session, so leases carry no owner.

*Actions.* Each is one synchronous section with at most the durable writes of that
section, and `Crash` may come between any two. `Invoke` and `InvokeMoved` are
`_initialize_run` on a fresh, resumed or moved workspace; `Prepare`, `OverBudget`,
`IterationLimit` the head of the loop; `ModelCall`, `ToolFenced`, `Tool`,
`ToolResponse`, `StreamReply`, `WorkerReturns`, `WorkerMalformed`, `WorkerFails` the
worker under the plugin; `Answer...` the direct answers; `Promote`, `Reduce`,
`AckDelivered` what follows a step; `FenceSteered`, `FenceReview`, `FenceRouted` the
boundary; `Blocked`, `Replan`, `VerifyResumes`, `VerifyFails`, `VerifyFenced`, `Finish`
the routes. A tool's effect, and the flag that says so, are two actions (`Tool`,
`ToolResponse`), because ADK stores the flag with the response event. An append whose
key holds other content raises, as in the store, and ends the invocation.

*Abstractions.* Contents that are only compared (error text, report, budget reason) are
"as before" or "otherwise". Prose, plans, paths, criteria and the text of packets are
left out; `next_action` is reduced to whether the task is reconciling; whether an action
repeats an earlier one, the model's step and the verification report are free choices;
priorities of messages are free. Several tool calls of one response are one. The
appends of `_initialize_run` are one action, and so are a ledger patch and the
checkpoint behind it: a crash between these is not modelled. Other tasks of the session
are not.

### ToolCalls

*State.* `rows` is `approvals.db`, one row per asker (the bash tool or a check) and
command; `waits` and `deciding` are the memory of `ApprovalWaiter`; `receipts` is
`managed-tools.db`; `file` stands for every path, as calls on different paths share
nothing; `calls` has the place of each call, whether its coroutine still awaits it and
whether its wait lapsed. `held` is history: the mutations whose result the file has had.

*Actions.* `Ask`, `Check` and `Mutate` begin a bash call, a verification command and an
edit or write. A command is `Consult`ed, `Request`ed, waits (`OpenWait`, `Register`,
`Poll`), is `Answered`, launched and exits; `Lapse`, `ExpireLapsed` and `CloseWait` end a
wait whose time is up. `Accept` and `StoreDecision` are the socket's decision in its two
steps, `DecideInStore` the command line's. `Begin`, `ReadForEdit`, `CheckFile`, `Replace`
and `Finish` are the steps of a mutation's thread, between which other threads run.
`Cancel` drops the coroutines and leaves the threads; `Stop` loses both.

*Abstractions.* What the policy says of a command's text is the parameter `Allowed`,
`Asked`, `Refused`. A text is a sequence of tokens, so that an edit whose new text
contains the old one exists. Reads change nothing and are left out; `expire_due` is too:
the tools set no expiry.

### Notebook

*State.* `epoch` and `namespace` are the live kernel and the cells whose assignments it
holds, `holder` the worker's lock, `restored` the epoch the tool last restored, `log` the
task's notebook events, `book` the watermark of the `.ipynb` file. `alone` is history.

*Actions.* `Call`, `ReadEpoch`, `Open`, `Restore`, `Submit`, `Draw`, `Take` are a call up
to its execution; `Capability`, `Invoke`, `Answer` a cell that calls back into the tools,
with the event written ahead; `Leave`, `Finish`, `Fail`, `Return`, `Reset`, `End`,
`Record` its ends; `Cancel`, `Snapshot`, `Close`, `Stop`, `Resume` the life of the run
and the process. The reduction of the events (`Replayable`, `First`, `AddedAt`, `Watermark`) is that
of `reduce_notebook`.

*Abstractions.* A cell is its identity and whether it may be replayed; output bounds and
externalized artifacts are left out; a kernel dies only while it runs a cell.

### TraceLedger

*State.* `files`, `table`, `objects`, `sealed` are the stores, `ledger` the ledger's
events in order; `writer`, `reader`, `eraser` say how far each thread is. `orderly` and
`calm` are history: what the properties presuppose, stated as what happened.

*Actions.* `Put`, `AppendEvent`, `Record`: an artifact, the line in the file, its import.
`Change` and `CommitSpan` with the import behind it for the rows of the five tables,
`Observe` for spans. `BeginRead`, `Repair`, `Serve` are `LedgerBackedEventStore.read`;
`Backfill`; `Seal` and `List` for segments; `Scan`, `EraseLedger`, `EraseTable` (one
store at a time), `EraseFile`, `EraseArtifacts` are an erasure, each step a commit of its
own, with `ProcessStops` anywhere.

*Abstractions.* An event is its task, its identity in its source and a version that
stands for its content. Metrics and runs are rows like the others; the count audit of
the backfill and the format of segments are left out. The order of a backfill is files by
name and rows by table, in the fixed order `Rank`.

### SignIn

A credential is the number of its refresh token. `Resolve` takes the file lock and reads,
`Refresh` shows the token to the provider, `OpenSave` and `Save` replace the file through
the temporary file, `Send` is the request, whose 401 forces a refresh. `BeginLogin` to
`EndLogin` are the worker thread of a login, with `CommitLogin` asking whether it was
cancelled; `CancelLogin`, `BeginLogout`, `EndLogout`, `CloseControls` the controls;
`Shell...` a `skein codex` command elsewhere; `Stop` a kill of the server. The provider
is external: it issues tokens and takes each once.

### ModelTurn with PublicStream and TurnTrace

A work batch is a sequence of model calls. `Prepare` and `BeforeModel` begin one;
`TextDelta`, `CallDelta`, `Retry`, `ModelFails`, `UsageLost`, `Completed` are the
provider's stream into `acc`, the accumulator, and the gate `reply`; `StartTool`,
`EndTool`, `ToolFails`, `YieldResults` the tools of the aggregate; `Answer`, `GoOn`,
`Block`, `Refuse`, `Finish` what the workflow makes of the reply. Every event goes
through `PublicStream`'s operators into `stream`, every observation through
`TurnTrace`'s into `trace`. A text is a sequence of words with the control header as a
word of its own; raw call ids and arguments repeat. The translation of prompts and
schemas into requests, redaction, length bounds and the contents of spans are left out.

### The parts of MCWorkbench

* `ModelSelection`: the default file and the row with its receipt are written one after
  the other (`Select`, `Commit`); `Answer` may be lost and the request sent again; the
  catalogue's discovery runs beside logins and logouts. A choice is its request.
* `SearchPages`: a search's native batches, hashes and snapshot (`NativeBatch`,
  `HashItem`, `BatchDone`, `PutSnapshot`), a page with its check and its reading
  (`Continue`, `CheckFile`, `ReadFile`, `Give`), `Write` by others, `Close`. A file is
  its version; which lines match in a version is a constant. The caps and the
  round-robin of pages are functions (`GrepPages`, `FindPages`).
* `Verification`: `Begin` makes the plan from the changed paths; `Execute`, `Ask`,
  `Refuse`, `Answered`, `Turned` run its commands, one waiting for a reviewer; the report
  follows the last or the first required failure; `Write`, `Leave`, `Crash`. A path is
  its kind, a command its category; outcomes are free.
* `Trials`: `Import`, `Checked`, `AppendTrial` are one import command between loading
  the file and appending to it, `Crash` may tear the line, `Analyze` computes the scores
  of the complete file. Confidence intervals, costs and the report are left out.
* `Workspaces`: `Create`, `Attach`, `Add`, `Load`, `RemoveTree`, `Unlink` and the five
  steps that write the record through the temporary file; `Kill` between any two. Git is
  external: it adds at a revision and refuses to remove a dirty worktree.
* `SkillContext`: `Discover`, `Select`, `RecordSelection`, `Yield`, `Packet`, `Return`,
  `Crash`, with `Edit` of the files between; the sizes of the three sections in bytes
  and tokens are computed as `build_skill_context` does. A text is its length.

## 3. Runs, bounds and what they show

| run | instance | distinct states | properties |
|---|---|---|---|
| `RunCoordinator_turns` | one run with output and warnings; two clients at one run; two turns of one conversation; two conversations; one retry | 40 311 | `InvokesOnlyRunning`, `OneActivePerThread`, `HistorySpec`, `AbandonedOnlyInHandler`, `EveryCallReturns`, `EveryRunSettles` |
| `RunDelivery_follow` | five events, live queue 2, outbound queue 6, one drop, two replies | 20 601 | `NoGapNoDuplicate`, `CatchesUp` |
| `Conversations_turns` | one turn, two follow-ups, one continuation, one fault (a retried start or a restart) | 651 541 | `PendingNotRunning`, `ContinuationStartsOne`, `QueueSpec`, `SuccessDrains` |
| `TaskWorkflow_resume` | one message, two invocations, one crash, one edit by others, two safe-point settings | 3 093 216 | `AckedOnlyDelivered`, `StepKeysFresh`, `AnsweredUntouched` |
| `TaskWorkflow_steering` | two messages, batch limit 1, two safe-point settings, fair | 404 500 | `CompletionServesSteering`, `ReviewedBeforeComplete`, `InvocationEnds` |
| `TaskWorkflow_reopened` | one message, two invocations | violation | `CompleteIsDurable` |
| `ToolCalls_answers` | two calls, three commands (allowed, asked, refused), an edit and a write of one file, one wait at a time, one restart | 199 616 | `LapsedNeverRuns`, `SuccessWasApplied`, `RunsOnlyApproved`, `CallsEnd` |
| `Notebook_cells` | two cells, one replayable, one restart | 559 543 | `RunsInRestoredKernel`, `ClosedBookIsCurrent`, `CallsEnd` |
| `TraceLedger_shadow` | two tasks, three keys, two rows, one shared artifact, two threads, two writes, two restarts | 856 476 | `ServesTheTask`, `ErasureIsExact` |
| `SignIn_lock` | two calls with two attempts, two logins, three credentials, one kill | 2 853 496 | `NoStaleRefresh`, `WithdrawnStaysOut` |
| `ModelTurn_stream` | two batches of up to three model calls, two raw ids, two arguments, two words, one missed observation | 1 876 524 | `ShownOnce`, `CallsKeptApart` |
| `Workbench_parts` | the six parts of `MCWorkbench`: three select requests; two searches of two files; two verification tasks over three paths; two importers of four trials; two processes on a worktree; three skill directories | 522 523 | `PagesPartition`, `PagesShowMatches`, `CursorsResolve`, `PassedMeansVerified`, `RecordedOnce`, `RecordReliable`, `SkillsPinned`, `ContextFits`, `NewerChoiceStands` |

Why the bounds are enough:

* *Coordinator.* The interesting races need one run with two callers (cancel against
  cancel, start against cancel), two runs with the workspace between them, or two turns
  of one conversation. Crashes are not bounded, and neither are restarts: they add no
  state. `MaxRetries = 1` and `MaxOutputs = 1` reach the retry and the point after which
  none may happen. In all casts but the first the agent yields nothing and no close warns:
  both only lengthen the history, which the first cast covers. Two clients on three runs
  exceed what TLC finishes in minutes; the proofs cover that case.
* *Delivery.* A live queue of two overflows while the outbound queue still has room; five
  events and one drop let every position of the cursor meet every position of the
  attachment. `OutCap = 6` is the longest backlog with the acceptance before it: this is
  the largest history for which the client can catch up at all (section 6).
* *Conversations.* Two items against `MaxPending = 2` (20 in the code) fill the queue;
  one continuation retried any number of times. `MaxFaults = 1` counts starts that are
  retried while pending and ends of the process together: a restart leaves only durable
  rows.
* *Workflow.* `MaxIterations = 2` reaches the iteration limit, a step behind a step, and
  the thresholds `ReplanAt = 1`, `HumanAt = 2`; two invocations let the second meet
  whatever the first left behind; two messages against a batch limit of one leave one
  for the completion fence.
* *Tool calls.* Two calls meet in every pair of steps: parallel, one after the other,
  one of them a thread that outlived its run. `MaxWaits = 1` (32 in the code) lets the
  second wait be refused. The edit expects the hash that was read, the write that there is
  no file.
* *Notebook.* Two cells, of which only one may be replayed, give every order of a kernel
  that dies, is restored and is reset under the other's wait for the lock.
* *Ledger.* Two writes by two threads give every order of two pairs of a write and its
  import, two restarts a stop in each of them; the two tasks share the one artifact, so
  that an erasure has something to keep.
* *Sign-in.* Two calls can hold the same token; three credentials are the first, a
  rotated one and one of a login.
* *Model calls.* Two raw ids and two arguments are enough to repeat either without the
  other, in one response and in the next; `Tries = 2` has one retry, `Budget = 2` ends
  a batch before `MaxTurns = 3`.
* *Workbench.* Budgets of the skills' context end in each of its sections, pages are
  larger than the cap per file and end inside a capped file, one snapshot is retained, so
  that a second search evicts the first; selection, imports, worktree and skills have one
  kill, at any step; a verification is lost once and meets three moves of others.

`CHECK_DEADLOCK FALSE` is said for `RunDelivery`, `TaskWorkflow`, `ToolCalls`,
`Notebook`, `ModelTurn` and `Workbench`: there the run ends and the client has caught up,
or the invocations, calls, batches, restarts and edits of the instance are used up and
nothing runs.

Some properties are conjunctions, so that one run asks one question: `WithdrawnStaysOut`
is `LogoutIsFinal /\ CancelledStaysOut`, `CallsKeptApart` is `ResultsAnswerTheirCalls /\
CompletionsHangUnderTheirStarts`, `RecordReliable` is `BaseKept /\ RecordReadable`.

A property that the code keeps only under a condition names the condition as a history
variable, and says nothing of the behaviours outside: `alone` (cells one at a time),
`orderly` and `calm` (imports in order; an undisturbed erasure), `cut` (an attempt broken
off in mid-stream), `raced` (a write in a window no hash covers), `moved` (a workspace
written during its verification), `overlapped` (imports of one trial at once), `unsure`
(a kill before the record was written, or a removal in between). What is outside is
listed with the hazards and in section 6.

Each property is also run against a changed definition (`mutants` in `PROJECT.json`: a
dropped lock, a retry that is not counted, a lease that is not seen as waiting, a wait
that is not expired when it lapses, a repair by length, ...) and must fail there.

## 4. Fairness

* *RunCoordinator.* Weak fairness of each driver, each call of a client that is under
  way, each await, shutdown and restart: the event loop runs what can run, total and
  close deadlines bound what the agent does, and asyncio's locks are FIFO. Strong
  fairness of `Commit`: a crash does not hit the same call for ever. No fairness of
  requests, cancellations, shutdown, crashes or the agent's output.
* *RunDelivery.* Weak fairness of the server's tasks, of the transport and of
  reconnecting (the client retries with a backoff of at most ten seconds). None of the
  run itself.
* *Conversations.* Weak fairness of the lock's holder, strong fairness of each hook: the
  lock is FIFO, so a hook that waits while others come and go gets it.
* *TaskWorkflow.* Weak fairness of the orchestration and of model calls and tool
  responses; strong fairness of the worker's end: ADK bounds the loop of model and tool
  calls, so the worker cannot always prefer another call.
* *ToolCalls.* Weak fairness of each call's own steps: threads go on, a command ends
  because its shell is killed at its deadline, a wait ends because its timer fires. None
  of decisions, cancellation, stops or starts: `CallsEnd` holds with nobody to decide.
* *Notebook.* Weak fairness of each call's own steps (a cell ends at its deadline) and of
  the close that follows the snapshot. The lock needs no more: a holder leaves it, and
  there are two calls.

The other modules have safety properties only.

## 5. Theorems

All theorems are about the module's specification (`Spec`, `TurnSpec` of `ModelTurn`,
`LedgerSpec` of `TraceLedger`, `SpecAll` of `Workbench`) for arbitrary constants that satisfy the named assumptions
(`ConstantsAssumption`, `DeliveryAssumption`, `ConversationsAssumption`,
`WorkflowAssumption`, `ThresholdsAssumption`, `CommandsAssumption`, `LimitsAssumption`,
`MutationsAssumption`, `NotebookAssumption`, `SignInAssumption`, `ModelTurnAssumption`,
`ModelSelectionAssumption`, `WorkbenchAssumption`, `SkillsAssumption`,
`LedgerAssumption`, each in the module of its constants);
the bounds that keep TLC finite are parameters there too. `WorktreeTypes` assumes in its
statement that `MaxRevisions` and `MaxTreeKills` are natural numbers; `RecordRelied` needs
neither.

| theorem | says |
|---|---|
| `RunCoordinatorProofs!TypeCorrect` | `[]TypeOK` |
| `RunCoordinatorProofs!Invariance` | `[]Inv` |
| `RunCoordinatorProofs!ThreadsExclusive` | one active turn per conversation |
| `RunCoordinatorProofs!InvocationsExclusive` | the agent is invoked for one run at a time, and only for a running one |
| `RunCoordinatorProofs!HandlersAbandon` | a run that is queued or running is left alone only by a cancellation that meets an exception handler, or before a stale start's first step |
| `RunCoordinatorProofs!CoordinatorImplementsHistory` | the coordinator implements `RunHistory` |
| `RunCoordinatorProofs!HistoriesConsistent` | record and history agree between any two registry calls |
| `RunDeliveryProofs!TypesCorrect` | `[]TypeOK` |
| `RunDeliveryProofs!DeliveryInOrder` | a client is shown every event once and in order, whatever is replayed, overflows, closes or is lost |
| `RunDeliveryProofs!FollowsAHistory` | the registry's side is a `RunHistory`, like the coordinator's |
| `ConversationsProofs!TypesCorrect` | `[]TypeOK` |
| `ConversationsProofs!PendingIsNotRunning` | a pending follow-up has no run that executes |
| `ConversationsProofs!OneContinuationStartsOne` | a continuation starts at most one message, however often retried |
| `ConversationsProofs!QueueKept` | the controller implements `FollowUpQueue` |
| `TaskWorkflowProofs!TypesCorrect` | `[]TypeOK` |
| `TaskWorkflowProofs!Acknowledged` | steering is acknowledged only after a recorded step saw it |
| `TaskWorkflowProofs!CompletionsServe` | completion leaves no sent message unacknowledged |
| `TaskWorkflowProofs!AnswersUntouched` | no direct answer after a tool with effects |
| `TaskWorkflowProofs!CompletionsReviewed` | no completion with tool effects without the review |
| `TaskWorkflowProofs!StepsFresh` | the key of the next step is unused |
| `ToolCallsProofs!TypesCorrect` | `[]TypeOK` |
| `ToolCallsProofs!AnsweringKept` | `[]Answering` |
| `ToolCallsProofs!LapsedStaysOut` | a command whose wait lapsed never runs |
| `ToolCallsProofs!SuccessesApplied` | a mutation answered with success was made |
| `ToolCallsProofs!ApprovalsHeld` | a command that is asked for starts only when its row is approved |
| `ToolCallsProofs!DecisionsFinal` | a row that is not pending any more never changes |
| `NotebookProofs!TypesCorrect` | `[]TypeOK` |
| `NotebookProofs!KernelRestored` | a cell that runs alone has the assignments of the completed safe cells, and no other |
| `NotebookProofs!ClosedBookDrawn` | a closed notebook shows every event |
| `ProviderProofs!TypesCorrect` | `[]TypeOK` |
| `ProviderProofs!CredentialsKept` | `[]Credentials` |
| `ProviderProofs!RefreshesCurrent` | a refresh shows the credential that is in the file |
| `ProviderProofs!WithdrawalsFinal` | what a logout or a cancellation withdrew is not stored again |
| `ProviderProofs!TurnTypesCorrect` | `[]TurnTypeOK` |
| `ProviderProofs!MessagesShownOnce` | a reply is shown once, and nothing else is, unless an attempt broke off in mid-stream |
| `ProviderProofs!CallsApart` | results answer the call of their own turn, completions hang under their own start |
| `WorkbenchProofs!NewerChoices` | a repeated request does not take back a choice acknowledged later |
| `WorkbenchProofs!CursorsGood` | a cursor resolves when it is given out |
| `WorkbenchProofs!PassesVerified` | a report that passes stands for the whole plan |
| `WorkbenchProofs!TrialsRecordedOnce` | a trial has one line, unless its imports overlapped |
| `WorkbenchProofs!WorktreeTypes` | `[]Worktrees!TypeOK` |
| `WorkbenchProofs!RecordRelied` | the record parses and names the base its worktree was added at |
| `WorkbenchProofs!SkillsStayPinned` | all packets of a task have the same skills, and those are on record |
| `WorkbenchProofs!ContextsFit` | the skills' context never exceeds its budget: the assertion at its end does not fail |
| `WorkbenchProofs!LedgerTypes` | `[]LedgerTypeOK` |
| `WorkbenchProofs!ReadsServeTheTask` | a read serves every event of its task's file once and nothing else, in order when imports did not overtake each other |
| `WorkbenchProofs!ErasuresExact` | an undisturbed erasure leaves nothing of its task and takes nothing of another |

*Coordinator.* `OneActivePerThread` and `InvokesOnlyRunning` are not inductive: whether a
commit is harmless depends on what the section decided before it, and the decision on
who else may have worked on the run. `Inv` adds exactly that: `SectionLegal` (the calls
a section has left are steps of the life cycle from the present status, and only the
last settles), `HoldersLegal` and `WorkspaceLegal` (who is inside the lock, and that the
section at hand does not settle its run), `Registered` (a driver that may still begin a
run is in `_active`, unless the run is settled: this is what keeps `start` from driving
it a second time), `ClosersLegal`, `DownLegal`, `Recorded`, `ThreadLegal`. Each action
has a lemma; actions that only move one driver or one caller share `DriverMoves` and
`CallerMoves`. The refinement then says that a `Commit` is a step of `RunHistory` and
everything else stutters, and `HistoriesConsistent` uses it.

That only a handler abandons a run rests on `Cared`, on top of `Inv`. `CancelledAwaited`:
whoever cancels a driver's task waits for it, with the run, until the task is over, and
the task is not over yet. `ActiveAttended`: a queued run in `_active` has a driver under
way or somebody about to settle it. `SeenKept`: what `start` read of a queued run is still
so when it decides. `BirthsAwaited` and `BeginsInside`: a run is made by a caller that is
still there, and begun by its own driver. `TargetsStopping`: only `aclose` has runs to
await. With these, each lemma `...Cares` says of one action that a run it leaves alone was
left in one of the two ways that the property names.

*Delivery.* `NoGapNoDuplicate` speaks of three stretches of one history: what the client
has shown, what is on its way, what the subscription still holds. `Follows` joins them:
there is one event `l` up to which the messages on their way continue the cursor and
behind which the attachment stands, and a live subscription holds everything recorded
since. `Linked` says what of it a closed or closing connection may still have,
`Introduced` that the acceptance precedes the first event that a client sees of its run.
Most of the proof is a small theory of `Chain(u, c, l)`, "the messages `u` carry the events
`c + 1` to `l`": what appending, taking from the front and losing the rest do to it.

*Conversations.* `Legal` relates the two tables. `Rows`: a message without a row has no run,
a dispatched one has; `Drivers`: only a dispatched follow-up is driven; `Dispatching`: the
run of the message at hand is not driven yet. `Authorising`: what a continuation starts is
what it was authorised for, and that is one message or none. The refinement needs `Legal`
at `Dispatch` and at removals; `First` must be the oldest pending message there
(`FirstIsPending`, `MinIsFirst`). Every other action changes one mark or none.

*Workflow.* `Typed` is `TypeOK` with "a task with a checkpoint has a recorded ledger".
`Served` says what may be leased at each place of an invocation (the packet's messages
are before the model from the first model call on; nothing leased is unseen when the
step is judged), `Settled` that no lease survives the acknowledgement, `Flagged` that a
tool's effect has set the flag unless its response is on its way, `Reviewed` that the
review's key is in the stream only if the ledger says reviewed, and `Counted` that the
invocation and the stream agree on the number of steps and no step key lies beyond it.
The last two hold across crashes only because `_initialize_run` restores from the
stream and not from the checkpoint.

*Tool calls.* `Answering` is `Typed`, `Waited` (a call whose wait lapsed has not launched
its command and is on its way out; if it closes its wait in time it did not read an
approval), `Cleared` (a call past the check has its row approved, or its command needs no
asking) and `Applied` (which adds to `SuccessWasApplied` that an idle call has answered
nothing). `DecisionsFinal` is what keeps `Cleared`. Across a restart they hold because rows
survive and calls do not.

*Notebook.* `Sound` has seven parts. `Locked` and `Awaited` say who holds the lock and
whose coroutine still listens. `WasAdded` and `Single` order the events of a cell.
`Faithful` is the heart, needed only while calls are made one at a time: the names of the
kernel are those of cells that completed in it or that it replayed, it has all of them
once the restoration is over, and a kernel that may be dirty is never entered again
without a reset. `ClosedBookIsCurrent` is a part of `Sound` as it stands.

*Sign-in.* Both properties of the run are about two states, and what they rest on is an
invariant of one, `Credentials`. `Locked`: a call between its read of the file and its
save holds the lock and its token is still the stored one, because everybody else writes
under the lock. `Withdrawn`: a login inside its save has not been cancelled (the check
under the commit lock, which a cancellation needs), and all that a logout voided have
been. `Apart`: the token a login was given is nobody else's to save, so that it cannot
come back through another door. Each action is a step of one of four lemmas: what a
call's step, a login's own step (`LoginEffect`), a cancellation of all (`AllCancelled`)
and the rest leave. TLC checked `Credentials` on the run's instance first.

*Model calls.* `TurnTyped` has the types of what is under way. `Answered` is what keeps the
public calls apart: those still without an answer are the calls of the response at hand,
and the one that a raw id points to is of this turn, with these arguments. `Traced` says
the same of the spans: an operation that runs has one open start, its own, and every
parent belongs to its span's operation, as long as no observation failed. For `ShownOnce`,
`Streamed` says what a stream may still do while no attempt was cut off. `Shown`: what the
gate has published is what is shown, a prefix of the message. `Gated`: what has come and
what is still to come are together calls without text, the reply after its control header,
or the reply without one (`CallsOnly`, `Headed`, `Unheaded`), and the gate publishes only
in the second. From this the step that closes a stream finds the whole message shown, and
an aggregate that repeats it adds nothing. `SpansGood` and `Counted` are what the counters
of `TurnTypeOK` need beyond that. `YieldResults` folds over a response's results: the fold
is unfolded for this one operator, by an induction over the set of its prefixes
(`ResultsFolded`).

*Workbench.* Its parts share no variable, so `PartSteps` turns a step of the whole into a
step or a stutter of each, and each part has an invariant of its own.

* `SelectionSound`: only requests with a receipt are told, each once, and the one between
  file and commit has none yet. So whoever writes a choice has not been answered.
* `StoreSound`: the store is a sequence of at most `Retained` snapshots. What `put` leaves
  contains what was put, also when that drops the oldest.
* `ChecksSound`: the results are those of the plan's first commands (`ResultsSound`), the
  plan has a required command and its paths are the changes unless somebody moved the
  workspace (`PlanSound`), and a report is built from all of them or from a plan that was
  stopped (`ReportSound`), which does not pass.
* `TrialsSound`: two importers that are at one trial overlap, and one that is about to
  append has met no line of its trial but those of imports that overlap it.
* `Relied`: `Locked` (who may write holds the lock), `Intact` (a writer who is alone finds
  in the temporary file what it wrote) and, while nothing has made the record unsure,
  `Present`, `Absent` and `Added`: what the files say at each point of a worktree's life,
  also after a kill there.
* `SkillsSound`: packets have the stored skills (`SessionSound`), and an invocation of the
  stored task has the stored skills from its first step on, recorded before they are
  stored or given (`InvocationSound`).
* `SkillsFit`: what is pinned fits the budget. The step that pins something new is
  `WholeFits`, on three sections that each ask what the ones before have left
  (`CatalogFits`, `RoomTyped`, `RemainingTyped`). The loop over the candidates is a fold:
  `FoldExists` gives the function that it chooses, `ChosenFits` follows it along the
  prefixes of the sequence, and `AddedFits` is one round. That there is a sequence of
  candidates at all needs the sort key to be a strict total order (`PrecedesOrders`) and
  every place in such an order to be taken (`PlacesTaken`, by the pigeonhole principle).

*Trace ledger.* `LedgerTyped` says of the types what the rest needs: a file names each key
once and only keys of its task, the ledger has each identity once, and a fact about a key
is the one fact that the key can have. Every import is then the same kind of step, facts
added at the end that the ledger did not have (`Adding`), whether it comes from a thread
(`ImportAdds`) or from a backfill (`BackfillAdds`). The latter needs that the facts of all
stores can be laid out in their order (`EarlierOrders`, `OrderedPlaces`). For a read,
`EventsAreFiled` says that what the ledger has, or is about to get, is in the files,
`ReadIsPast` that a reader has imported the part of the file it is past, and `FiledInOrder`
that at most the last of a file is missing and the rest is in order, as long as imports
kept pace. For an erasure, `NamedAreStored` says that until one is done everything a file
names is in the store, and `ErasureUnderWay` what each of its stages leaves for the next.
`Only`, the filter of both, is defined by places (`Picking`, `OnlySound`).

`TypeOK`, `Inv` and `HistoryConsistent` are proved and therefore not among the properties
of the runs any more.

Only model-checked:

* everything under fairness (`EveryRunSettles`, `EveryCallReturns`, `CatchesUp`,
  `SuccessDrains`, `InvocationEnds`, both `CallsEnd` and the liveness of the other runs),
  which the proof system does not reach;
* `PagesPartition` and `PagesShowMatches` of `Workbench`. Both speak of sequences that
  `SelectSeq` made, and the provers have no facts about this operator.

## 6. Disagreements between code and documents

One is a run that TLC ends with a violation, quoted in `PROJECT.json`:

1. **A reopened task completes only in memory** (`CompleteIsDurable`, `workflow.py:786`).
   The constant key of `task.finished` makes a second completion a no-op or an error.

The others are definitions of the modules that are false in them, or conditions that a
property has to exempt; to see one fail, put it into a configuration as said:

2. **A cancelled run can stay running** (`CancelSettles`, `runtime.py:909`; as a PROPERTY
   of `RunCoordinator_turns.cfg`; compare `tests/unit/test_server_runtime.py:614`,
   "cancellation is terminal"). A CancelledError that arrives while an exception handler
   of `_drive` awaits the close of the execution leaves the handler; nothing settles the
   run until the next restart. `AbandonedOnlyInHandler` shows that this is the only way.
3. **A backlog longer than the outbound queue is never delivered** (`CatchesUp` with
   `OutCap = 2`, `MaxEvents = 4`; `websocket.py:637`). The replay that is meant to repair
   an overflow (`registry.py:814`, `websocket.py:486`) overflows the queue before the
   writer runs, every time.
4. **A late hook advances the queue behind a cancelled turn** (`AdvancesOnlyAfterSuccess`
   with two roots; `sessions.py:251`, against `docs/design/pi-terminal-migration.md:207`).
   `after_turn` judges the turn it was called for, not the latest.
5. **A replayed edit can apply twice** (`ReplayNeverApplies` with `Mutations <- Growing`;
   `adk_adapter.py:618`, against `docs/security.md:156`). When the process stops between
   the replacement and `finish`, the receipt stays "started", and a repeated edit whose
   new text contains the old one finds it again.
6. **A cancelled run can leave a pending request** (`CancelledLeavesNonePending`;
   `builders.py:202`, against `docs/security.md:92`). The thread inserts the request after
   the coroutine that would expire it is gone.
7. **A broken-off stream is shown again** (`ShownOnce` without `cut`;
   `codex_responses.py:483`, against `adk_mapper.py:175-176` "so clients never display it
   twice"). The retry keeps the accumulator, so that its aggregate does not begin with
   what was streamed.
8. **An erasure that was cut off leaves artifacts** (`ErasureIsExact` for a repeated
   erasure; `erasure.py:99`). What the task named is read from the ledger, which the first
   attempt had erased already.

Met on the way, without a document that says otherwise:

* a late cleanup warning hides a blocked outcome from `_successful` (`sessions.py:245`);
  `remove` marks a row cancelled whose run exists after a crash (`sessions.py:122`);
* executions are still closing after the workspace lock was released (`runtime.py:885`);
  the live tail of a settled run is one page of 1000 events (`registry.py:654`);
* the flag of a tool effect is lost with a crash before its response (`builders.py:162`);
  the second reconciliation of the same moved workspace raises (`workflow.py:556`); the
  packet's steering text may be cut while its messages count as shown
  (`orchestration/core.py:155`); parallel tool calls each write the whole list of action
  fingerprints into their state delta, and the last one wins (`adk_plugin.py:300-314`);
* `atomic_write` without an expected hash compares nothing between its read and its
  replacement, so that of two such writes one is lost (`environment/local.py:149`);
* parallel cells may run in a kernel that the other had discarded (`builders.py:510`), a
  notebook file is replaced by an older drawing until close (`materializer.py:79`), and
  the worker's lock is waited for without the cell's deadline (`repl/worker.py:466`);
* two appends may be imported in the other order, which the ledger then numbers
  (`ledger/shadow.py:52-56`); an artifact another task is about to name can be erased
  (`erasure.py:93`);
* the credential's temporary file is named by the pid and created exclusively, so that
  one left by a kill blocks the saves of a later process with that pid
  (`codex_auth.py:157`); two calls with a 401 each force a refresh, one after the other;
* the server's token file exists before its text is written: another start in between
  reads it empty and fails (`bootstrap.py:125-138`);
* a torn line of the result file makes every later load raise, and two overlapping
  imports of one trial record it twice (`experiments.py:515`);
* a `create` killed before its record was written leaves a worktree whose base is
  resolved anew (`workspace/manager.py:149`).

## 7. What is not modelled

* Text: packets, prompts, compaction, redaction, presentation, the terminal's view. These
  are functions without state of their own; `build_compaction_snapshot` is used by
  nothing but its tests. Memory is an index rebuilt from the ledger, read as text.
* External programs and services: providers, sandboxed commands, Git, the native finder,
  the benchmark runner, the ADK session store. What the code does with their outcomes is
  modelled, the outcome is a free choice.
* One sequence without concurrency: agent factory, server bootstrap, repository
  manifest, configuration, evaluation runners, the command line. Those commands that
  share state with other parts (login, logout, import, analysis, erasure, prepare,
  cleanup) are actions of the module of that state.
* Validation and mapping: protocol fields, provider request schemas, data models.
* Within modelled parts: acknowledged cursors, owner checks, the connection limit and
  handshake, control requests that only read or forward, the expiry of approvals by
  time, artifacts of long outputs, confidence intervals and costs of an evaluation.

The components of `PROJECT.json` give the reason for each part.

## 8. Plan

The modules planned at first are written; what is left, in this order:

1. **Proofs** of the two properties of `SearchPages` that section 5 lists as
   model-checked, with `Only` in place of `SelectSeq`.
2. **Composition**: `TaskWorkflow` as the agent of a run in `RunCoordinator` (invocation,
   cancellation, steering of a run that is ending), and `ToolCalls` as its tools.
3. **Control requests** of the coordinator and the connection: ownership, limits,
   handshake, acknowledged cursors.
4. **Notebook with approvals**: a cell's capability calls as calls of `ToolCalls`, with
   the lock held across a wait; today each module has the other as a step that ends.

## 9. How to run

```
tlc -workers 2 -config RunCoordinator_turns.cfg MCRunCoordinator.tla
tlc -workers 2 -config TaskWorkflow_resume.cfg TaskWorkflow.tla
tlc -workers 2 -config ToolCalls_answers.cfg MCToolCalls.tla
tlc -workers 2 -config Workbench_parts.cfg MCWorkbench.tla
tlapm RunCoordinatorProofs.tla
tlapm RunDeliveryProofs.tla
tlapm ConversationsProofs.tla
tlapm TaskWorkflowProofs.tla
tlapm ToolCallsProofs.tla
tlapm NotebookProofs.tla
tlapm ProviderProofs.tla
tlapm WorkbenchProofs.tla
```

`PROJECT.json` names module, configuration and properties of every run. The proofs check
from nothing in minutes, `ProviderProofs` in about ten; the longest runs take three to four.
