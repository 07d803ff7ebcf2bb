# BuildBee: a TLA+ development

BuildBee is a chat server where people and AI agents ("Bots") work on Tasks.
A Server (Go, Postgres) keeps Projects, Tasks, a queue of Runs and the
conversations around them; agent processes claim Runs, let a coding agent work
in a checkout of the Project's repository, and push and merge the results;
*autopilot* decides what follows what. These modules model that program, TLC
checks them on small instances, and TLAPS proves the most important theorems
for instances of any size.

Paths below are relative to the repository (`internal/` and `cmd/` under
`src/`). `PROJECT.json` maps every definition to the lines it models, lists the
hazards each property answers, and gives each property a mutant: a plausible bug
in one definition that makes TLC refute it.

## Inventory

| Part | State | Operations | What is hard | What makes it right |
|---|---|---|---|---|
| **Run lifecycle** `models/models.go`, `core/runs.go` | status of each Run | CanBecome | nothing alone: every writer must respect it | a Run starts once, for one worker, and ends once |
| **Run queue and leases** `core/queue.go`, `core/runs.go`, `store/runs.go`, loops of `agent/agent.go` | rows of `runs` (status, bot, worker, lease_until), max_runs, row locks; each agent slot's phase | create, claim (long poll, SKIP LOCKED, recount under the Project's lock), heartbeat, report, cancel, reap | claims race; the claim is several steps; agents crash, reports are late, lost or repeated; a lease expires under a live worker | one worker per Run; a lease exactly while running; max_runs holds; abandoned Runs end; queued Runs are taken |
| **Decisions** `core/decisions.go`, `core/chat.go` | Decision rows, remembered answers | ask, answer, close, remember | an answer, a second answer and the end of the Run race | the first answer stands; no question outlives its Run |
| **Projects and Members** `core/projects.go`, `store/projects.go`, `core/inbox.go` | Projects, People, Members (each with a copy of its Person's name), archived_at, left_at, settings | create, update, archive, join, leave, add, remove, rename | read-then-write of whole rows and of names; removal races claims | a removed Bot's work stops and it takes no more; a Member has its Person's name; who joins and goes is said once |
| **Run event log and steering** `core/runs.go`, `agent/steer.go`, `agent/agent.go` (emitter) | `run_events` with a sequence, the Run's prompt | append, list after a sequence, steer, listen | batching, a listener that starts mid-way, a message sent as the Run ends | messages reach the agent once and in order |
| **Autopilot** `core/autopilot.go`, `core/tasks.go` | the Task's status, branch, head, merged_at; verdicts; CI results; merge Decisions | what follows a plan, build, review, CI result or answer | approval, CI and answers race; branches move under reviews and merges | only agreed commits land; nothing is overwritten; one merge per Task; ready work is taken up |
| **Agent workspace and delivery** `agent/workspace.go`, `agent/agent.go` | mirror, worktrees, locks, branches of the remote | prepare, push, merge, clean up | Runs share a mirror; others push to the remote; a push or merge succeeds though it seems to fail; a crash leaves worktrees behind | what is reported stays true; only what was approved lands |
| **Agent sandbox and containers** `agent/container.go`, `agent/sandbox.go`, `agent/setup.go` | scratch homes, copied logins, containers, leftovers | start, write back, clean up | the AI refreshes its login in a copy, in several Runs at once; a process dies with its containers running | a refresh is never undone by an older token |
| **Routines** `core/routines.go`, `store/runs.go` | schedule, last_run_at, the Task of the last firing | create, edit, fire, tick, replay | every server ticks; an edit races a firing | a due Routine fires once an interval; work does not pile up |
| **WebSocket hub** `ws/hub.go` | topics, subscribers, queues, pending lists | publish, subscribe with replay, deliver, detach, close | publish races replay; slow clients; events out of commit order | a subscriber sees each topic in order without a gap, or is cut off |
| **Files and blobs** `core/files.go`, `store/files.go`, `blob/` | file rows, blobs, attachments | upload, attach, sweep | row and blob are written separately; sweeps and deletions race messages | an attached file has its blob; bytes without a row are known leftovers |
| **Migrations** `migrate/migrate.go` | applied versions, advisory lock | up | several servers start at once, of different builds; a crash between migrations | each migration is applied once, in order; who serves has its schema |
| **Presence and inbox** `core/presence.go`, `core/inbox.go` | connections and last-seen clocks in memory, unread counters | connect, hear from an agent, list, mark read | a change is published after the lock is let go, by whoever changed it | viewers end up showing what is so |
| **Chat and threads** `core/chat.go` | messages, closed DMs, read markers | post, edit, delete, close, mark read; reply in a Task's thread | numbers drawn before the commit; a reply races the claim, the end or the start of the Run it is for; locks taken in different orders | replies reach the agent; new messages show; deleted ones stay empty |
| **ACP session** `agent/acp/` | outstanding calls, turns, the output sink's channel | call, reply, notify, prompt, cancel, ask, emit, close | replies race cancellation and the end of the process; close races blocked writers | every wait ends; one turn at a time; output in order |
| **HTTP API, clients, web and desktop, load test** | none of their own that outlives a request | | | |

How they interact. An HTTP request runs one core function, which is one
database transaction (`store.Tx`); after the commit it publishes events to the
hub and, when it queued a Run, wakes the claims waiting in `queue.go`. Agents
only ever talk to the Server over HTTP: claim, heartbeat, events, permission
questions, report. `ReportRun`, `RecordPipeline` and `AnswerDecision` call
autopilot inside their own transaction, with the Task's row locked. A ticker in
`cmd/buildbee-server/main.go` fires Routines, sweeps and reaps. Several servers
may share one database, so two handlers only exclude each other by row locks.

## Modules

| Module | What it is |
|---|---|
| `RunStatus` | the statuses of a Run and which may follow which; shared by all |
| `RunLifecycle` | abstract specification of the queue: no requests, leases, locks or transactions |
| `RunQueue` | the queue in detail; implements `RunLifecycle` |
| `MCRunQueue` | two small instances of it and their symmetry |
| `RunQueueProofs` | theorems about `RunQueue`, and the lemmas they need |
| `Autopilot` | autopilot on one Task, with its repository and its agents' pushes |
| `TopicReader` | abstract specification of the hub: what a reader of a topic is owed and shown |
| `Hub` | the WebSocket hub, for one topic and one reader; implements `TopicReader` |
| `RunStream` | a Run's events and the messages people send its agent; composes `Hub` with the agent's listener |
| `EventPipe` | abstract specification of an agent's output: in order, once, until refused |
| `EventSink` | the sink of a session's output; implements `EventPipe` |
| `Session` | a conversation with the coding agent over JSON-RPC, from its first call to its process's end |
| `Workspace` | an agent process's mirror, checkouts and pushes, and the remote |
| `AgentHome` | a Run's scratch home, the login copied into it, its container |
| `MCAgent` | these four parts of an agent process on small instances |
| `Routines` | one Routine: tickers, firing by hand, edits |
| `Attachments` | files of a conversation: rows, blobs, messages, sweeps |
| `Conversation` | one direct message, as one of its people has it |
| `Migrate` | servers of several builds that migrate one database |
| `Presence` | who is online on one Server, and what a viewer shows |
| `Thread` | a Task's thread and its Runs: replies, hand-offs, steering, claims, reports |
| `Membership` | People and their Members of one Project |
| `Questions` | Decisions in the same words and their memory; permissions between agent, worker, Server and people |
| `MCServer` | these eight parts of the Server on small instances |
| `AutopilotProofs` | theorems about `Autopilot` |
| `RunStreamProofs` | theorems about `Hub` and `RunStream`, and that `Hub` implements `TopicReader` |
| `SessionProofs` | theorems about `Session`, and that `EventSink` implements `EventPipe` |
| `AgentProofs` | theorems about `Workspace` and `AgentHome`, and about the parts of the agent process together |
| `ServerProofs` | theorems about `Routines` and `Migrate`, and about the parts of the Server together |
| `ChatProofs` | theorems about `Attachments`, `Conversation` and `Thread` |
| `PeopleProofs` | theorems about `Questions`, `Membership` and `Presence` |

### RunQueue

*State.* `status project bot worker lease` are columns of the Run's row. A lease
is "none", "live" or "expired": the code compares `lease_until` with `now()`
only in the reaper, so nothing else about time matters. `limit` and `archived`
are the Project's, `left` the removed Bots, `asked` and `answer` the permission
Decisions. A *slot* is one of the loops of an agent process (`agent.go` starts as
many as its concurrency); `phase` and `hand` are where it is and with which Run,
and, while it claims, what its transaction on the Server holds: a claim in phase
"picked" holds the Run's row, one in "loaded" its Project's row too. `reports` are outcomes
under way; they are never removed, so they may arrive late, twice or never.

*Steps.* A transaction that first locks the row it decides on is one action
(`ReportRun`, `Heartbeat`, `AskPermission`, `Cancel`, `ReapRuns`, `RemoveMember`).
A claim is four: asked (`Connect`, where the Bot's membership is read),
picked (`ClaimRun`: the `UPDATE ... FOR UPDATE SKIP LOCKED`), loaded
(`ProjectLoad`: the Project's row locked, the Runs recounted; or `OverLimit`,
which rolls back) and committed (`CommitClaim`, whose answer may be lost).
`AbortClaim` is a server that dies between them and `Crash` an agent process
that does. An uncommitted claim is invisible to others: `status` changes at the
commit, while `RunLocked` and `ProjectLocked` say who must wait.

*Abstractions.* Prompts, costs, events, Activity and notifications are left out.
`UpdateProject` may write any limit and archived flag together, since
the code writes back every column of a row it read earlier. `Enqueue` does not
ask whether the Bot left or the Project is archived: autopilot does not, and
other callers read both without a lock.

### Autopilot

*State.* One Task: `task` (its status), `branch`, `head` (the commit it
records), `merged`; the Project's `autoRun` and `policy`; its `runs`, oldest
first, with what each reported and, while it lasts, its agent: how far it is
(claimed, prepared, done), the branch it was told of at the claim and the
commit in its checkout; merge `decisions`; `ci`, the latest result of each check
on each commit; and the repository: `tips` of branches, each commit's `parent`,
and what `landed` in the default branch. A branch is named by the Run that opened
it, a commit by its number.

*Steps.* Each handler holds the Task's row (or inserts a single Run) and is one
action, autopilot's decision included: `Follow` carries out what `Advance`,
`SendBack` and `TryMerge` choose, as `advance`, `sendBack` and `tryMerge` do.
What an agent does is separate steps, because the repository is outside the
Server's locks: `Claim` reads the Task, `Prepare` the repository, `Push` and
`Land` write it, and the report comes later. `Stop` ends a Run (a person
cancels it, or the reaper fails it) while its agent goes on and may still push.
"failed" stands for failed and canceled: nothing in autopilot tells them apart.

*Abstractions.* Claims and leases are RunQueue's. CI results without a commit,
Projects without a repository, several Builders on one Task, Handoff rows and
notes are left out. A build's push and a person's add one commit each. A person
may push to a branch but does not force or delete it. The landed commit stands
for the merge made of it, whether by `git` or by `gh pr merge
--match-head-commit`. `Land` deletes the branch as `git` does, under a lease; that `gh` deletes it in a second request
which compares nothing is in `Workspace` (`DeletePRBranch`).

### Hub and RunStream

*State.* An event is its cursor. `committed` is the last one in the database,
`unpublished` those whose transaction has committed but whose `Publish` has not
begun, `delivering` where `Publish` (which copies the subscribers first and then
goes through them without the hub's lock) has yet to deliver. `topic` is the hub's
table, `client` its record of each connection: how far its subscription is, what it
holds back during the replay (`pending`), what the release still has to queue
(`rest`), its queue and what was written. `conn`, `dialled` and `cursor` are the
reader's. `RunStream` adds the Run's status, which events are people's messages, the
prompt, and what the agent was given: `job` in its prompt, `inbox` by its listener.

*Steps.* `subscribe` takes and releases locks, and has a step for each: the
connection's own table, the hub's, the database, and the release, which holds the
connection's lock (so `deliver` waits) and queues a frame a step (`Released`: the
backlog in order, then what was held back and is not in it). A dropped frame only marks the connection `closing`, because the
code starts `go c.close()` and goes on. `Write` stands for the writer and the
socket; frames in a queue or a socket are lost by `Close`. `SteerRun`, `Claim` and
`ReportRun` hold the Run's row, so each commits its event in one step with its change of
the Run; an append reads the status without the row, so one may follow the end.

*What the reader may count on.* `TopicReader` has no hub, no locks and no queues: of each connection, whether it
follows the topic, the cursor it came with, the events it is `owed` and those it was `shown`. `Hub` maps a connection to
"live" once it has read its backlog, to "behind" from the moment a frame of it is dropped (or if the
backlog left events out), and what is on its way and was not written to what is owed. So a goroutine's step that loses an
event, shows one twice or shows one that nobody was owed is no step of `TopicReader`, and neither
is a cursor that goes back. Publishing and the steps of a subscription are invisible to the reader.

*Abstractions.* Cursors of a Run's topic are handed out under the Run's row, so
events commit in their order; other topics use database sequences and are not
modelled. Each event is its own transaction. Unsubscribing and subscriptions
without a cursor are left out.

### The agent process: EventSink, Session, Workspace, AgentHome

*EventSink.* `Output` is what the session's goroutines read, `in` the bounded channel, `pend`
what is merged and not yet handed over. `KindOf`, `IsEvent` and `Event` are `acp.go`'s
translation of updates into events, the unknown ones and empty texts dropped. An event that merges
others is the sequence of them, so what the Handler took can be compared with what was added however it
was cut. `add` holds the sink's lock while it waits for room, and `close` needs it. `Pipe` maps what
the buffer and the channel hold to what `EventPipe` still owes.

*Session.* The client's calls and the agent's requests are messages in two streams that
keep their order and may break. `converse` is a program counter; the reader, the
goroutine that asks a person, the timers and the agent move on their own. The agent may
answer anything, nothing or an error, refuse to sign in, ask for permission or exit at
any moment. Files and terminals, which the client does not offer, are left out.

*Workspace.* A commit is a number with a parent; the remote has the default branch and each
build's, the mirror what was last fetched. People push to the branches too. A push, of a branch or of the default
branch, may reach the remote though the worker is told it failed. So may each of the two requests that `gh pr merge
--delete-branch` makes: `MergePR` squashes the branch onto the default branch if its head is the approved one,
`DeletePRBranch` deletes it wherever it is by then, and others may push in between. `discarded` records the commits
that were only on a branch deleted so; no action reads it. `Crash` ends the process between any two
steps, and `FilesFail` is the early return that does not close the checkout. What they leave in the mirror stays: the next
start removes containers only (`agent/setup.go:83`).

*AgentHome.* A login is a number in the order of issue, with those it goes back to. `writeBack` is two steps (`Compare`,
`Replace`) under a lock of its own process. The user's CLI takes no lock, nor do agents of other processes take this
one, so `LogIn` and another process's `Replace` may come between the two; two processes even share the name of the temporary file,
so that a rename may put the other's token there. `overtaken` records the Runs whose comparison was overtaken; no action reads it.

### Parts of the Server

*Routines.* The row, and what each ticker, hand and editor has read of it. A firing is
four steps: the Routine is read (`ReadToFire`), the transaction begins (`BeginFiring`), the compare-and-set claims the firing and
locks the row, with a look at the last Task that takes no lock (`Claim`), and the transaction commits (`Skip` or `Fire`) or
leaves nothing (`NotFired`). Until then another claim and an edit wait for the row, but people close the Task or open it again
(`SetTask`); `reopened` records that they opened one since the look. An edit is two steps (read; write the whole
row back), with `lost` when it wrote over a firing. `BeginFiring` needs a clock later than the `last_run_at` it read: two firings with the same
stamp would make the compare-and-set pass for both, and the code's stamps are microseconds while a
firing that read a stamp comes a transaction after it. So one clock is assumed of all Servers.

*Attachments.* `rows` and `blobs` are separate: `UploadFile` writes the blob, then the row, then on
failure removes the blob; `SweepUploads` and deletions remove rows in a
transaction and blobs after it. Each is a step, and a Server may die between them. Each may also fail after it took effect:
`Put` may have stored the bytes; an insert without an answer ("unsure") may have committed, commit later or not at all, while the
bytes are deleted either way (`UploadFails`); a transaction that removed rows may have committed though its answer was lost, and then nobody drops
the bytes (`Drops`). The uploader learns a file's id only from the answer (`UploadOver`), so a message is sent with such files only.

*Conversation.* A message's number is drawn when its row is inserted and seen when it is committed.
Edits and deletions read the message in one step and write in another, with the
condition the `UPDATE` repeats.

*Migrate.* The advisory lock belongs to a connection and goes with it. A migration
and its record commit together. `Builds` are histories by checksum, one of which changed a migration.

*Presence.* Counting is under the lock; publishing is a later step by the goroutine that counted, so
two may be out of order. A viewer that is told looks again.

*Thread.* Each request is a transaction of several statements with the row locks it
keeps; `InDeadlock` picks one of those that wait in a circle to be aborted, as the database does. Whether a
reply goes into a Run's prompt, to its agent as an event or into the next prompt is
decided from rows read before.

*Membership.* A Person's Member keeps a copy of the name. `call` is a request that has read (which name, was
the actor a Member, the row to update) and has yet to write; a write and its commit are one step,
because rows it changes stay locked in between and an insert is invisible. `Rename` is two: its `UPDATE`
reaches the Members committed by then, and it holds them and the Person to its commit.
`AddMember` locks the Person before it reads the name, so it waits, where a join does not. `outrun`
records which names were overtaken. Archiving and Bots are in `RunQueue`.

*Questions.* `CreateDecision` reads the memory in one step and commits in another, so two
people may both be asked; `AskPermission` holds the Run's row and is one step, as is
`AnswerDecision`, whose `UPDATE` succeeds once. `relay` is the worker's `asker`: its request, or the
answer to it, may be lost, and its context may end while it polls. A text is a sequence of
pieces of 100 bytes or blanks, because the Server shows people a trimmed and cut name and the
worker compares the answer with the agent's own.

## What the runs check

| Run | Instance | Checks |
|---|---|---|
| `queue` | 2 Runs, 2 Bots, each with a slot in a process of its own, 1 Project, 1 question, max_runs unlimited or 1 | `TypeOK` `OneWorkerPerRun` `LeasedWhileRunning` `NoQuestionOutlivesItsRun` `ClaimsWithinLimit` `ImplementsLifecycle` |
| `queue_live` | 2 Runs, 1 Bot, 2 slots of one process, max_runs 1, with fairness | `AbandonedRunsEnd` `QueuedRunsAreTaken` |
| `autopilot` | Scout, Builder, Sentry; 4 Runs, 3 commits; one round of builds before people are asked | `TypeOK` `LandedWorkWasAgreed` `WorkIsNotOverwritten` |
| `autopilot_ci` | Builder, Sentry; 4 Runs, 1 commit, one check; both policies, the Task canceled and resumed | `TaskMergesOnce` `ReadyWorkIsTakenUp` `ClosedTasksRest` |
| `run_stream` | 3 events, 2 connections, queues of 1 frame, replays of 1 event, with fairness | `TypeOK` `NoGapWhileConnected` `PromptOrStream` `MessagesAreHeard` `ServesReader` |
| `agent` | a sink of 2 places with 2 writers; 2 messages, 1 of them interrupting; 2 builds and 2 merges, 4 commits; 2 processes with 2 Runs and one login, 3 tokens; with fairness | `AgentTypeOK` `WaitsForSomething` `OneTurnAtATime` `ReportsStayTrue` `SessionEnds` `OutputInOrder` `CloseReturns` `OnlyApprovedLands` `LoginFollows` |
| `server` | 2 tickers, 1 hand, 1 edit, 2 Tasks; 1 file, 2 messages; 2 letters, 2 changes; 2 servers, 4 builds; 3 connections, 2 calls; 1 reply, 1 hand-off, 1 start, 1 steer, 2 Runs; 2 people, 2 names, 2 requests at a time; 2 questions, 1 permission of 3 options; with fairness | `ServerTypeOK` `FilesKeepTheirBytes` `DMsShowWhatIsThere` `SchemaIsOfABuild` `ViewersAreUpToDate` `RepliesReachAgents` `RosterIsTrue` `PeopleDecide` `FiresOncePerInterval` `OnlyPeoplePileUp` `StartsEnd` `ReportsLand` |
| `run_stream_gap` | 4 events, 1 connection, replays of 4 events | violated: `NoGapAfterReconnecting` |
| `queue_removed_bot` | as `queue` | violated: `RemovedBotTakesNoWork` |
| `autopilot_stale_ci`, `autopilot_canceled`, `autopilot_deleted_branch` | 4 or 5 Runs, 2 commits, 3 rounds | violated: `OldFailuresSendNothingBack`, `CanceledTasksAreNotMerged`, `BuildersHaveTheirBranch` |

*Why these bounds.* Every race in the queue is between two claims, or a claim
and one other transaction, for a Run or for the last place of a Project: two
Runs, two slots and a limit of 1 make all of them, and a limit that changes
between 1 and none makes people race them too. With one slot per Bot a Run can
be for this agent, for the other or for any. One question is enough, since
questions do not read each other. In `queue_live` both slots serve
the Run's Bot, so that one may starve the other. In `autopilot`, four Runs are a build, its
review and its merge with one more racing any of them, and three commits are a
first push and two that race on top of it; `MaxRounds` 1 makes the "ask a
person" path short enough to happen together with the rest. `autopilot_ci` gives up
racing pushes (one commit) for a check whose result changes at any time and
for policies switched at any time. With MaxRounds at 2, a failed check both
sends back and gives up. Bounds only appear in guards (`Len(runs') <= MaxRuns`,
`Len(parent) < MaxCommits`).

In `run_stream` the claim's
event and two more are enough for two publishers that overtake each other, for a
queue of one frame and a list of one held-back event to overflow, and for a replay of
one event to leave one out. In `run_stream_gap` a replay leaves nothing out, so
the gap it finds is not that one.

*Parts in one run.* The parts in `MCAgent` and `MCServer` share no variable, so
each run lets one of them (`focus`) move in a behaviour and the others rest in their initial
states. An invariant or an action property that reads one part's variables holds of that
part alone exactly if it holds in company, since steps of the others stutter
for it. The same goes for the leads-to properties, because a part at rest has no step
whose fairness is assumed: the fairness of one part can be met whatever
the others do. What a composition could add is only what the parts share in the program, and
that is modelled where it matters (`Thread` for Runs and messages, `RunStream` for events and
the agent, `Autopilot` for the repository and the Tasks).

The races of each part are between two actors, or two and a crash: two tickers and a
hand for one firing, two messages and a sweep for one file, two servers and a third
build's history for one database, an upload that fails in each of its steps, a reply between a claim and
a report. Files race for nothing, so one is enough; that a message gets all of several or none is proved for any number
(`SeenFilesHaveTheirBytes`). `Interval` 2 with a clock to 3 has one firing on time and the next begun. The
session needs two messages, one of which interrupts, for a message to come
after the cancel and before the turn's end. Two builds and two merges
of four commits make pushes that overtake each other in a branch and in the default
branch. In `Membership`, requests are reused, so any number follow one another, two at a time; two names are
enough to lose one, to be refused one and to take one that became free.

*Symmetry.* `queue` may exchange the two agents with their Bots, slots and
processes at once; nothing orders them. Runs are numbered in the order of
`created_at`, which claims read, so they are not symmetric. The liveness run
uses no symmetry.

*Deadlock.* It is checked in the runs of the queue and of autopilot; people can
always do something there, so this shows little, and progress is what the liveness properties are
for. A Run that is over with its events published is done, so the runs of `RunStream` may stop.

*Fairness.* `FairSpec` assumes what the program keeps doing: time passes
for the lease of an abandoned Run (`LeaseOut`) and the reaper's ticker runs
(`ReapRuns`, `cmd/buildbee-server/main.go`); an agent's loop asks again
(`Connect`), works no longer than its RunTimeout (`SendReport`) and stops
reporting after its retries (`StopReporting`). The steps of a claim are strongly
fair, because a claim may be rolled back (another claim came first, a
connection was lost) and tried again any number of times. People, crashes,
heartbeats and the delivery of reports promise nothing: a live worker may never
get a heartbeat through, and a report may never arrive.

`RunStream`'s fairness is that each goroutine of the hub gets its turn, and that a
frame is written or, after its write deadline, the connection closed. Nobody need
send messages, connect, or end a Run.

In `agent`, the goroutines of the sink and of the session get their turn, the Handler returns (its requests
end with the Run's context), timers fire and a killed process goes; nothing is
assumed of the coding agent or of people. In `server`, the database hands the
advisory lock on to those who wait, breaks deadlocks and lets a transaction that can go on do so, and an
agent reports again when its report failed. The program does that six times at most (`agent/agent.go:282`); the model
asks no more of it, since a report is only aborted in a circle with one of the two requests that write to the thread, each of which is
aborted or commits and is over, so three attempts are enough there. A longer row of replies could
use up the six, and then the Run is the reaper's (`AbandonedRunsEnd`). The other parts have no liveness property and
assume nothing. These two runs allow deadlock, because a conversation that is over, a
database that is up to date or a Routine whose clock has run out stops.

*What the properties say of the code.* `OneWorkerPerRun` is that SKIP LOCKED and the
`ownRun` check keep two agents from one Run; `LeasedWhileRunning` that the reaper
can always find a Run whose agent vanished, and never one that ended;
`NoQuestionOutlivesItsRun` that all four ways a Run ends close its questions,
and that no late request opens one; `ClaimsWithinLimit` that counting twice
(in the query and again under the Project's lock) is enough;
`ImplementsLifecycle` that all of it together is the simple machine of
`RunLifecycle`. `LandedWorkWasAgreed` is autopilot's central promise: whatever
moves while a review, a question or a merge is under way, only a commit that
Sentry approved or a person agreed to lands. `WorkIsNotOverwritten` is that
`--force-with-lease` with the fetched commit is enough for racing builds;
`TaskMergesOnce`, `ReadyWorkIsTakenUp` and `ClosedTasksRest` are that reviews, CI
results and answers, each judging the Task on its own, neither merge it twice, nor
each leave the merge to the other, nor start anything on a closed Task. `NoGapWhileConnected` is the hub's promise for one
connection, where publishing races the replay (that nothing is written twice, `NoDuplicates`, is proved, and part of `ServesReader`); `PromptOrStream` that a message is in
the agent's prompt or passed on by its listener and never both; `MessagesAreHeard` that
one sent to a connected listener gets there unless the connection ends; `ServesReader` that all the
goroutines of the hub together are the simple machine of `TopicReader`.

Of the agent process: `OutputInOrder` is the refinement of `EventPipe`; `CloseReturns` that a
writer that waits for room while holding the lock does not stop `close`;
`WaitsForSomething` and `SessionEnds` that no order of answers, exits, broken streams and
cancellations leaves somebody waiting or a process behind; `OneTurnAtATime` that an interrupt
hits the turn it was meant for and is sent once; `ReportsStayTrue` that reported work is where the report says, whatever later
Runs push and clean, but for commits that came to a branch between `gh`'s merge and its deletion; `OnlyApprovedLands` that a merge lands
the approved commit and nothing that came after it, whatever the worker is told;
`LoginFollows` that Runs that refresh one login undo neither each other nor the user, unless they were overtaken between comparison and rename.

Of the Server: `FiresOncePerInterval` and `OnlyPeoplePileUp` are what the compare-and-set and the check
of the last Task achieve, and that only people break the second, by an edit or by opening a Task again; `FilesKeepTheirBytes`
(`SeenFilesOpen` and `BytesAreAccountedFor`) what the order of blob and row achieves, and that a row whose insert only seemed to
fail, the one case of a row without bytes, never gets into a message; `DMsShowWhatIsThere` that numbers drawn
before commits hide nothing written after a close or a read, and that no edit revives a deleted message;
`SchemaIsOfABuild` and `StartsEnd` that the lock, the record and the checksums keep servers of
different builds from mixing histories, or blocking each other; `ViewersAreUpToDate` that unordered publishing
is harmless because viewers look again; `RepliesReachAgents` and `ReportsLand` that each reply is in the thread a Run's prompt was made from or with an agent (a
prompt has the newest 60 replies and 24000 bytes of it, `core/chat.go:342`), and a report gets through whatever locks replies take; `RosterIsTrue` that a Rename reaches all Members, those who left too, but for
names written by requests that it overtook, and that racing departures and returns are announced once each; `PeopleDecide` that
an agent goes ahead only with what a person picked for that very question, and that memory repeats only
what a person said.

## Findings

Five statements of the repository's tests, docs and comments are not what the
code does:

- **A late CI failure of an old commit sends the Task back** (`onPipeline`,
  `core/autopilot.go:312`). A failed check's commit is never compared
  with the Task's head, although a test says "a result for another
  commit does not" count.
- **A canceled Task is merged** if its merge was queued before the
  cancellation: neither the claim, nor the agent, nor `advance` looks at the Task's
  status. A test named `TestACanceledTaskIsNotMerged` tries only a Decision answered
  afterwards.
- **A reopened Task cannot be built.** Its merge deleted its branch, but
  `branchesFor` (`core/runs.go:148`) goes on naming that branch, and the agent's fetch
  fails with "no branch to start from".
- **A reader that fell behind may lose events.** A connection that drops a frame goes on
  sending later ones until its `close` runs, so "the last cursor you saw" may be past a dropped
  event; publishing out of order has the same effect. `docs/api.md` promises
  "no gap and no duplicates", and the agent's listener loses a person's message this way.
- **A removed Bot may take one more Run**: a claim already waiting when the Bot
  is removed takes a Run queued for it, or for any agent, afterwards.

Some properties above name an exception, because without it the code does not have
them. No run is kept for these, of which the first three contradict a comment:

- a commit pushed between `gh`'s merge and its deletion of the branch is deleted with it, reported or not (`agent/workspace.go:328`): the head
  is compared for the merge only, though `workspace.go:322-323` says of both "provided its head is still commit" (`discarded`);
- a login that the user, or another process, puts between a Run's comparison and its rename is overwritten by the Run's token
  (`agent/container.go:369`), though `container.go:353-354` says "nobody changed the host file meanwhile" (`overtaken`);
- a firing opens a second Task if people open the last one again after the firing looked at it, without its lock, and before it commits
  (`core/routines.go:315`), though `routines.go:295-296` says that the Routine then "skips, so work does not pile up"
  (`reopened`); so it does if an edit wrote back the row it had read before the last firing (`routines.go:203`, `lost`).

And a message sent to a waiting Run directly
is lost if a reply overwrites the prompt it read before (`core/runs.go:390`); a Run started by hand
may miss a reply that is being posted; a row whose insert seemed to fail is left without its bytes until the sweep takes it
(`core/files.go:60`); a Person's name stays
stale in a Project they joined while renaming themselves, or if an update wrote back their whole row
(`core/inbox.go:23` says "everywhere they appear"); a quiet Bot that a
heartbeat brings back is announced to nobody (`core/presence.go:103`). And `PeopleDecide` is about going ahead
only: an option whose name is longer than 100 bytes, or has blanks at its ends, is shown in a form the agent does not
match (`core/decisions.go:205`, `agent/agent.go:553`), so picking it refuses the request.

## What is proved

Every safety invariant and action property the passing runs check is a theorem for constants of any size, and so are the
three refinements. Each module of proofs has the same plan: the invariant that is wanted is
strengthened to one that each step keeps, with a lemma for each action or for a few that do alike; what
the lemmas need to know of the model's operators (a queue with one more frame, a Run put in another's
place, what a send leaves) is stated before them and cited by name. TLC had checked the strengthened invariants
before they were proved.

**`RunQueueProofs`**, from the assumptions of `RunQueue`: Runs and limits are
natural numbers and the Runs finite (`RunsAreNumbers`, `LimitsAreNumbers`), and
the "none" values are not members of what they stand outside of (`Names`).

- `TypeCorrect`. `TypeOK` alone is not inductive: a report names the Run in hand,
  so the proof carries `Handed` (a slot has a Run exactly when its phase says so).
- `RunsHaveOneWorker`. Strengthened to `Hands`: a Run being claimed is pending and
  one being worked on is not, so a row no claim holds is in no hand; and a Run that
  has not started has no worker, so no late report can reach it.
- `LeasesFollowRuns` follows from the invariant itself with `Hands`.
- `QuestionsEndWithRuns` needs `Asked`: a question that was asked belongs to a Run.
- `ClaimsKeepTheLimit`. The argument is about locks: `LocksApart`, no two claims
  have loaded one Project; so `Room`, the place a claim counted under the lock is still there
  when it commits, because only another claim could take it and the limit
  cannot change without the row. `ClaimStartsOne` then bounds the number of Runs going.
- `QueueImplementsLifecycle`: initial states map to initial states, and each
  step starts one Run where there is room, ends Runs that had not ended, queues
  one, changes a limit, or is nothing the abstract specification sees. The
  refinement mapping is the identity on `status project worker limit`; `Room` gives the
  guard of `Start`.

**`AutopilotProofs`**, for any team, checks, settings and bounds (`TeamOfRoles`, `Settings`, `Bounds`).

- `TypeCorrect` carries `Sound`: the Task records a branch and a commit or neither, a review is of a
  branch, merges and questions are about a commit, and a merge's checkout holds the one it is of. Without it
  a merge might land "no commit".
- `OnlyAgreedWorkLands`: a merge Run is only ever queued for a commit that is agreed (an approval of that
  commit, or a person's answer to the question about it), approvals and answers are never taken back, and the
  commit in a merge's checkout is the Run's own, not the branch's.
- `TaskIsMergedOnce`: a merge is queued only when none is unfinished and the Task is not merged, and `merged`
  is set by the report of the one that succeeded.
- `NoWorkIsOverwritten`: a push is a commit made on what the checkout had fetched, and the lease makes that
  the tip; a merge deletes a branch only if its tip is what landed.
- `ClosedTasksStayQuiet` and `ReadyWorkIsNotLeft` are about single steps, from `TypeOK`: the second looks at each
  handler after which a Task may have become ready.

**`RunStreamProofs`**, for any numbers of events and connections, and any limits of queue and replay (`HubBounds`).
The invariant, `StreamInv`, says of each connection that an event is in one place
only (what is to be queued, is queued, was written) or is held back although the backlog has it (`OnceEach`); that
the backlog is there whole unless a frame was dropped (`BacklogWhole`); and that what the hub has yet to deliver
was not seen there, unless in the backlog, and with what the connection has nothing is missing (`OutsideSound`). The last is
where the order of `subscribe` matters: into the hub's table before the replay reads.
`NothingIsMissed` and `NothingIsSentTwice` follow from it. `MessagesComeOneWay` is separate: the prompt holds exactly the messages
sent while the Run was queued, and the agent's listener gets none of them. `StreamTyped` bounds all queues.
`HubServesReader` is the refinement of `TopicReader`, from `StreamInv` and `OneAtATime` (all connections but the last are closed, so
a reader that dials has no other). What a step does to one connection is said by its record (`OneViewed`); moving frames between queues
changes nothing that is owed or has the connection closed (`MovesOn`), because an event the release or `deliver` skips is in the
backlog, which is whole; a replay makes all events after the cursor owed, by `OutsideSound`; and a frame that is written was
owed and not yet shown, by `OnceEach`.

**`SessionProofs`**.

- `NobodyWaitsInVain` and `TurnsDoNotOverlap`, for any finite set of messages (`SessionAssumption`), share the invariant `SessionInv`.
  `Waits` is nearly the first. For the second: a prompt that the agent has to read or works on is the last
  request and the only one, nobody has answered it (`TurnsSound`), and a cancel for an earlier turn
  stands before the prompt of the next, so it is read before it. `MessagesSound` and `CallsBounded` keep the
  numbers of requests within `MaxCalls`: each message is in a prompt once.
- `OutputStaysInOrder`: `EventSink` implements `EventPipe`, for any output, buffer and size of a merge (`SinkAssumption`).
  The mapping hands over what the buffer and the channel hold as owed, so `Put` adds to it, and each of
  `Take`, `Flush` and `Drained` shows some of its first, or nothing more after a refusal. `SinkSound` has what the end needs:
  once the channel is closed nobody adds, and when `run` returns nothing is left. `SinkTypeCorrect` is that a failure is told once.

**`AgentProofs`**.

- `ReportsHold` and `MergesAreFaithful`, for any builds, merges and commits (`WorkspaceAssumption`). `RepoGrows`, of every step: commits are
  only added, and what is on a branch stays there, is on the default branch or is `discarded`. With it, `BuildSound` (work is made on
  top of what it started from, and is on the remote from the push on) and `MergeSound` (a merge adds to the
  default branch as it was, still part of it, what was approved and nothing else) are kept by other Runs' steps.
- `LoginIsNotUndone`, for any agent processes, Runs and tokens (`HomeAssumption`): the login is still what a Run that writes back found, unless
  the Run is `overtaken` (`WriterIsRight`), and a token that differs from the one a Run was given goes back to
  it (`Descends`). Who replaces the login overtakes all who have compared.

- `PartsAreTyped`: in `AgentSpec` each part keeps its type invariant. `SessionRest` has what the promises of a session do not
  need, an outcome exactly when `converse` has returned; `HomeTypes` that tokens and processes exist.
- `AgentKeepsItsPromises`: a step of the process is a step of one part and stutters for the others (`PartsMove`), so every behaviour of
  `AgentSpec` is one of each part's own specification (`PartsBehave`), and the theorems about the parts hold in the
  specification that the run checks.

**`ServerProofs`**.

- `ScheduleIsKept` and `WorkDoesNotPileUp`, for any tickers, hands and editors (`RoutineAssumption`): a ticker that begins to fire saw the
  Routine due (`TickersSawItDue`); `last_run_at` only grows, so if the compare-and-set finds the
  one it read, the Task it read is the last one's, unless an edit put an older row back (`ReadsAreOlder`, `LastTaskKnown`); and from
  the claim to the commit the row stays so and the Task closed, unless `reopened`, since nobody else has the row's lock
  (`ClaimSound`). This
  proof found that the model had let two firings have one time stamp, which the code's microseconds
  do not; see *Routines* above.
- `SchemaStaysOfABuild`, for any servers and builds of at least one migration (`MigrateAssumption`, `NoServerAssumption`): who applies has the
  lock and knows all that is recorded (`AppliesAlone`), so what it applies is its build's next.
- `ServerPartsAreTyped`, of `ServerSpec`: the types of Routines are kept by all its actors (`RoutineTypes`), no more numbers are drawn in a
  conversation than messages were begun, since one is drawn only for a message that had none (`DrawnFits`), a Server that does not exist
  never gets the lock (`LockTyped`), and what a Run's agent was passed are the thread's replies and steers (`ThreadRest`).
- `ServerKeepsItsPromises`: as for the agent process, every behaviour of `ServerSpec` is one of each part (`ServerPartsBehave`),
  so what `ChatProofs`, `PeopleProofs` and this module prove of the parts holds of them together.

**`ChatProofs`**.

- `SeenFilesHaveTheirBytes`, for any finite set of files (`AttachmentAssumption`, `NoPostAssumption`): what is about to be deleted
  has no upload under way nor a row, unless its upload failed; only uploads that were answered are in messages; and a transaction has taken
  files nobody else has or takes (`BytesSound`, `TakenSound`).
- `DMsStayTrue`, for any finite set of messages (`ConversationAssumption`): numbers are drawn in order, and all that is seen, read
  and closed is of numbers drawn before (`DMSound`).
- `NoReplyIsMissed` (`ThreadAssumption`, `NoneAssumption`): a reply that looks for a Run or has found one has the Task's row (`TaskLocked`), so what it
  read of the Run's prompt has all the replies that are in it (`PromptRead`).

**`PeopleProofs`**.

- `AgentsDoWhatPeopleSaid`, for any questions, options and remarks (`QuestionsAssumption`; `OptionsAssumption`: options
  are shown by something, remarks are not empty, and no option is called what the Server writes when the Run ends).
  The memory, and what a request read of it, is an answer that a person gave (`QuestionsSound`).
- `RosterStaysTrue`, for any people, names and requests (`MembershipAssumption`): `TrueBooks`, of every Member, that a Rename of its Person in progress
  has reached it or has overtaken whoever wrote it; two Renames are never of one Person.
- `ViewersSeeWhoIsThere` (`PresenceAssumption`): the count is the number of open connections.

*What is only model-checked.* All liveness under fairness: `AbandonedRunsEnd`, `QueuedRunsAreTaken`, `MessagesAreHeard`,
`SessionEnds`, `CloseReturns`, `StartsEnd`, `ReportsLand`; the prover has no rule for fairness. The five violated properties are refuted by TLC, so there is nothing to prove.

"For any size" includes the bounds: they are constants of the modules, so the theorems hold whatever their
values. What stays finite is what the models leave out (one Task, one topic and its reader, one Routine, one direct message at
a time).


## Not modelled

HTTP decoding, the clients, the web and desktop applications and the load test keep no state
whose order matters: a handler decodes, calls one core function and prints. Of the
sandbox, the arguments of `docker` and of the coding agents are left out. So are
notifications, preferences, reactions, search, channels, the Activity feed, and Artifacts:
rows written once and listed. `PROJECT.json` says for each
component how much of it is modelled, and for each hazard without a property why.

## Plan

Done: `RunQueue` with `RunLifecycle`, `Autopilot`, `Hub` with `TopicReader`, `RunStream`, the parts of the agent process and
of the Server, and the proofs of their safety properties and of the compositions. What is left, the most important first:

1. `Wakeup`: the signal that wakes waiting claims, which would justify part of the
   queue's fairness.
2. The outer layer that is not modelled: a CI report that comes before the build's own (`httpapi/handlers.go`).
