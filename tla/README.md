# A TLA+ model of athena-class-agent

The agent is a Go daemon that wakes on an event, assembles a prompt from several
memory tiers, runs an LLM loop, logs the experience (T2) and, after the session
has ended, compresses it in the background into narratives (T3).  All of it is
kept in one database.  That is SQLite: the repository has Postgres twins of its
stores, but imports no `database/sql` driver for them (`internal/platform/db.go:15`),
so that a Postgres DSN is refused.  These modules model the parts in which rows,
goroutines, files and processes have to agree with each other: how the program is
wired and boots, how an event reaches the daemon, the life of a session with its
identity check, its prompt and the loop inside it, the metabolism that follows
it, and the records of memory that are derived from one another.

Paths are relative to the repository, with `src/` before them in `PROJECT.json`.

## 1. Inventory

| Component | State it keeps | Operations | Interacts with |
|---|---|---|---|
| Job store (`internal/platform/storage/jobs_*.go`) | `metabolism_jobs`: status, claim token, claim count, retries, `started_at` | Commit, Claim, Complete, Fail, MarkReviewRequired, Recoverable, LastStatus | called by supervisor, runner and session runner |
| Supervisor, JobRunner (`internal/metabolism/supervisor.go`, `runner.go`) | slot semaphore, wait group, goroutines | Submit, Recover, Drain, Run | job store, pipeline, daemon |
| Compression pipeline (`pipeline.go`, `compress.go`, `backlink.go`, `consolidation_*.go`) | T3 narratives and the T2 back-links | UncoveredLogs, CompressSession, CommitNarrative, AtomicT2T3Link | LLM client, Aegis gate |
| Daemon (`internal/daemon`) | startup note, root context | Run, scanInterruptedSessions, ShouldWake, handle event, drain | supervisor, session runner, channels |
| Session runner (`internal/app/session_runner.go`, `helpers.go`) | locals of one RunSession | policy, plan, wake facts, disclosure, assembly, manifest, loop, checkpoints, submit | everything below |
| Lifecycle store (`lifecycle_*.go`) | plans, wake facts, disclosures, manifests, checkpoints | one insert each, newest-row queries, InterruptStale | session runner, daemon |
| Policy and disclosure (`internal/session`) | `lifecycle.json` and its hash | Read, HasChanged, GenerateDisclosure | lifecycle store |
| Resolver (`internal/lifecycle/resolver.go`) | none (pure) | Resolve | session runner |
| Context assembly (`internal/assembly`) | character budget, depth manifest | six phases in order of priority | memory tiers, identity, embedding provider, bridge |
| Engine loop (`internal/engine`) | message list, iterations, steering and follow-up queues, token budget | RunLoop, tool batch, hooks | LLM, tools, Aegis, T2 |
| Identity integrity (`internal/identity`, `phase_identity.go`) | documents on disk, anchors, amendments, witness letter | load, verify, anchor, amend, witness check and its bypass | assembly |
| Aegis (`internal/aegis`, `platform/trust.go`) | `trust_registry`: score and interactions | ProcessInbound, Score, ReviewOutbound | daemon, engine hooks |
| Channels (`internal/channels`) | cursors, buffered Go channels, fan-in goroutines | poll, scan, send, merge, close | daemon |
| Awareness (`internal/awareness`) | nudge count and spacing | bridge, grounding, peripheral nudges | assembly, engine hooks |
| Memory tiers and graph (`internal/memory`, `platform/memory.go`, `edges.go`) | T2-T5 rows, belief metadata, derivation and supersession edges | write, link, distrust, decay, invalidate, supersede, search | tools, metabolism, assembly |
| Tools (`internal/tools`) | registry, active groups, advisor budget | register, discover, call | engine |
| Composition root (`internal/app/app.go`, `profile.go`, `platform/config.go`, `db.go`) | settings, the dependency graph | Load, NewApp, Validate, Run | everything |
| Commands, telemetry, benchmark | - | I/O around the above | - |

What is hard in this system, and would hardly be reached by a test:

* the claim of a job outlives its holder: an LLM call may take longer than the
  five-minute lease, a process may crash with the claim, and two daemons may
  overlap on one database during a restart;
* a statement may be applied although its caller sees an error, and every call
  carries the root context, so after a signal none of them succeeds;
* RunSession writes a dozen rows in sequence with two error disciplines
  (fail closed before the engine loop, log and go on after it) and may die
  between any two;
* what a session is told (a changed policy, an interruption, unfinished
  metabolism) is computed from rows that earlier, possibly broken, sessions
  left and that background workers still move;
* recovery runs once, at startup, and holds the daemon while it waits for slots;
* the calls of one response run in parallel or in sequence, fail, are blocked or
  stop the batch, and whichever it was, the next request must carry one answer
  to each, and T2 the same answers;
* a boot reads the identity files, verifies them one query at a time, anchors
  the new ones one statement at a time and asks for the witness last: files
  change meanwhile, and a boot may end between any two steps;
* an event passes a poller, two bounded Go channels and a fan-in goroutine, each
  of which may wait for the next, be cancelled, or be closed;
* records are linked while a walk over the links is under way, and replacing an
  entity takes three statements without a transaction;
* a dependency that was not built is a nil interface, which nobody notices until
  the first call through it.

`PROJECT.json` lists each hazard at its line with the properties that cover it.

## 2. Modules

| Module | Models |
|---|---|
| `JobStore` | one row of `metabolism_jobs` and each statement's WHERE and SET clause, as operators on a row |
| `Metabolism` | several daemon processes with their supervisors and runner goroutines on one store; T2 links and T3 narratives; crashes, signals, drain, lost answers, lapsed leases |
| `JobContract` | abstract specification: a job is opened, attempted a bounded number of times, covered once, settled once |
| `MetabolismProofs` | the theorems about `Metabolism` |
| `SessionLifecycle` | one daemon over crashes and restarts: startup scan, events, RunSession with every row it writes, the policy file, the notes in the prompt |
| `SessionLifecycleProofs` | the theorems about `SessionLifecycle` |
| `EngineLoop` | one RunLoop: responses, tool batches, Aegis review, the turn hooks with T2 and the token budget, steering and follow-up messages, every return |
| `EngineLoopProofs` | the theorems about `EngineLoop` |
| `Identity` | IdentityPhase.Assemble in one or several processes on one database: documents, anchors, amendments, witness letter, crashes and failing calls |
| `IdentityProofs` | the theorems about `Identity` |
| `Assembly` | ContextAssembler.Assemble: the six phases under the character budget, every read of them failing or not, and the depth manifest |
| `AssemblyProofs` | the theorems about `Assembly` |
| `Inbound` | Discord pollers and stdin reader, buffers, fan-in, the daemon's event loop and Aegis' trust scores, over signals and restarts |
| `InboundProofs` | the theorems about `Inbound` |
| `Knowledge` | records of tiers 2 to 5 with their belief metadata, derivation and supersession edges: distrust, inference distance, decay, replacement |
| `KnowledgeProofs` | the theorems about `Knowledge` |
| `Boot` | platform.Load, ParseProfile, NewApp, Validate and Run over every combination of settings |
| `BootProofs` | the theorems about `Boot` |
| `MCMetabolism`, `MCSessionLifecycle`, `MCInbound`, `MCKnowledge` | instances for TLC: symmetry, the flagged events, the links of the graph; the other modules need none |

How they fit together: `Boot` ends where `Inbound` begins (a daemon that listens)
and `Inbound` where `SessionLifecycle` does (a session that is started; there
the wake is a choice).  `SessionLifecycle` takes assembly as one step whose
notes it computes, and the loop as a number of turns; `Assembly`, `Identity`
(its first phase) and `EngineLoop` are those steps from inside.  What
`SessionLifecycle` submits is what `Metabolism` works off; its `Metabolise` is a
step of that module as a session sees it.  `Metabolism` implements `JobContract`.

Definitions whose comment starts with *Mutant* are deliberate errors, defined
beside what they distort; nothing refers to them.  They show that a property can
fail.

### Metabolism

A job stands for its session: RunSession submits exactly one.  `jobs[j]` is the
row, `t2[j]` says what the session logged (`none`, `clean`, `unscreened`) and
which narrative its logs are linked to, `t3[j]` is the set of its narratives,
each named by the claim that wrote it.  `worker[p][j]` is the goroutine of
process `p` in `JobRunner.Run` with the token it holds; `mode[p]` and `todo[p]`
are the daemon goroutine in Recover, Submit or Drain and the jobs it has yet to
hand over.

| Action | Code |
|---|---|
| `Start`, `Dispatch`, `DispatchDone` | Daemon.Run's startup, `Supervisor.Recover`; Dispatch and DispatchDone also serve `Submit` |
| `Submit` | `Supervisor.Submit`: the row is committed before a slot is awaited |
| `Claim` | `JobStore.Claim` with its stale-lease and claim-count clauses |
| `LoadLogs`, `Compress`, `CommitNarrative` | `ProcessSession`: uncovered logs, review gate and LLM, narrative and links in one transaction |
| `Complete`, `Fail`, `MarkReviewRequired` | the token-fenced updates at the end of Run |
| `Signal`, `BeginDrain`, `DrainDone`, `DrainTimeout`, `Crash` | the root context, `Supervisor.Drain` and its timeout, and a killed process |
| `LeaseLapse` | five minutes pass since `started_at` |

`Consolidation` chooses the store the pipeline writes through: TRUE is the
production wiring (`ConsolidationStore`, no token), FALSE the `AtomicT2T3Link`
fallback (fenced by the token).

### SessionLifecycle

RunSession runs on the daemon goroutine, so `pc` is the daemon's place and the
next thing RunSession does; `wake` holds its locals.  The tables are sets of
sessions that have a row (`plans`, `wakeFacts`, `disclosures`, `manifests`) or
functions (`checkpoint`, `t2`, `job`); queries of the form
`ORDER BY ... DESC LIMIT 1` are variables (`lastPlan`, `lastApplied`,
`lastCheckpoint`, `lastJob`) holding the row they return.  `told`, `ended` and
`crashed` are history variables that only properties read.

Every database call may succeed, fail, or be applied with its answer lost;
`FailClosed` and `WarnOnly` are the two ways RunSession takes an error.  The
actions from `Resolve` to `Submit` follow the function from top to bottom.
`Boot` is the startup scan, `WakeEvent` and `DeclineEvent` the two outcomes of
Aegis and ShouldWake, `Shutdown` the done branch of the select, `Metabolise` the
step of some worker of module `Metabolism` as this module sees it.

### EngineLoop

`history` is the message list RunLoop builds; a message is named by its role,
its turn and its place in the turn, and its content is one of a few kinds.
`batch`, `text` and `cost` are the last response, `slot[i]` the goroutine of its
call `i` in executeSingleTool together with the result, `t2` the rows of the
session in their order, `used` the token budget's counter, `steering` and
`followUp` the two channels.

| Action | Code |
|---|---|
| `Request` (`Respond`) | client.Complete and what follows it: the assistant message, the answers to the calls of a truncated response, or the error return |
| `Begin`, `Execute`, `Review` | executeSingleTool of one call: lookup, arguments and inbound scan; the handler with its timeout; AfterToolCall with ReviewOutbound |
| `Collect` | executeToolCalls returns and the tool messages are appended |
| `LogEntry`, `FinishHooks` | the hook pipeline: one append of the T2 logger at a time, then the budget monitor, and the two returns behind the hooks |
| `Steer`, `EndTurn` | the drain of SteeringChan, FollowUpChan, ShouldStop, MaxIterations |
| `Send` | whoever holds the other end of the channels |

A batch is sequential if one of its tools is; a call of a sequential batch waits
for its predecessors and is not started after one that signals Terminate, the
calls of any other batch interleave freely.  An unknown tool, malformed
arguments and a blocked inbound scan have one outcome, an error result.
`Send` is the contract of the channels, which RunSession does not set so far.
Dry runs, rehearsals and TransformContext, the hooks without state that another
part reads (nudges, memory surfacing), and streaming are left out.

### Identity

`disk`, `anchors` and `amendments` give each document a version or a set of
them; a hash stands for its content.  `at[p]` is where process `p` is in the
phase, `loaded[p]` what it has read, `report[p]` the status of each file, and
`todo[p]` the anchors it has yet to write.  `VerifyDoc` is one turn of the loop
of VerifyAnchors, `WriteAnchor` one of WriteInitialAnchors; `Verified` and
`Refused` are the two verdicts, `Accepted`, `Bypassed` and `WitnessRequired` the
ways out of enforceWitnessCheck.  `Fault` is a failing call or the end of the
process at any place.  `EditDoc`, `InsertAmendment` and `WitnessWrites` are the
people around the agent.  `lived`, `woken` and `gap` are history variables.

`HasAnchorStore` says whether `AssembleConfig.anchors` is set.  In the
repository it never is: the field is private and has no setter.  The phase is
modelled as it is written, and the run `identity_unwired` as it is wired.

### Assembly

The loop of Assemble is `OutOfBudget`, `Charged` and `Errs`; the other actions
are the phases, split where a read may fail (`Narratives`, `Threads`,
`Entities`, `Profiles`, `EmbedSeed`, `Echoes`).  Lengths are thousands of
characters.  `manifest` is what the agent is told of the rows, `shown` what of
them is in the prompt.

### Inbound

`posted` is the outside world, `batch` what a poller or the reader holds, `out`
and `merged` the Go channels with their capacities, `hand` the event a fan-in
goroutine has received and not yet passed on.  `live` is the context.  An event
`<<feed, n, id>>` is the n-th that was read from a feed and carries message `id`:
the two differ since `fetchMessages` reads messages again.  `Page` is the
service: the oldest messages after the cursor (without one, the newest), newest
first, and `Fetch` leaves the cursor at the last element, as the code does.
`fetched` (what was read of each feed, in order), `handled` and `verdicts` (which
messages started a session) are history variables.  The reader's channel is
closed by `CloseOut` (end of stdin, cancelled) or by `ScanFails` (a failed read or
a line too long for the scanner), which `broken` remembers.  A source
of Aegis is an adapter (`discord`, `cli`), as `InboundEvent.Source` is; scores
are integers in hundredths, the number of interactions is counted up to the
ramp, and which events are flagged is a constant.  The ShouldWake of the wired
conditions (`.*` for each adapter) leaves the decision to the annotation.

### Knowledge

A record is a model value of its tier.  `derived` and `supersedes` are the
edges, `vstate` the verification state in `belief_meta`, `stated` and `aged` the
reflections whose confidence the agent gave and those for which it has decayed.
PropagateDistrust is `Distrust`, `MarkNeedsReview`, `MarkFails`, `Expand`,
`Propagated` and `Return`; RunEndOfSessionDecay is `RunDecay` and `FlagStale`;
SupersedeEntity is one action for each of its three statements in each of two
callers.  InferenceDistance is ComputeInferenceDistance's breadth-first search
as a recursive function on its frontier.

### Boot

Each initial state is an environment; the actions follow Load, ParseProfile,
NewApp and Validate.  `deps` is the set of dependencies that are not nil.
`Opens` is NewStore: only a SQLite DSN opens, since sql.Open knows no driver by
the name parseDSN gives Postgres.  Development goes on without a database
(`app.go:96`) and is refused by Validate.
`RunPing`, `RunOnce`, `RunDaemon` and `Event` are the first things Run does with
them that could meet a nil.

## 3. Runs

Passing runs:

| Run | Instance | Shows |
|---|---|---|
| `metabolism_production` | production store, 1 process, 2 jobs, 1 slot, 3 claims, 2 disruptions, fairness | `AtMostOneNarrative`: reruns after crashes and lost answers are idempotent; `UnscreenedNotPromoted`; `ImplementsContract`; `RecoveryFinishes`, `EventuallyResolved` |
| `metabolism_fleet` | fallback store, 2 overlapping processes, 1 job | `AttemptsBounded`, `CompletedIsCovered`, `TerminalIsFinal`, `StaleNeverWrites` |
| `session_faults` | 2 sessions, policy file present or missing, both modes, 1 disruption, fairness | `EndingsAreTrue`: what is recorded of a session's end, and told of it later, is what happened; `NoUnrecordedWake`, `SilenceMeansCovered`, `SessionReturns`, `SignalStops` |
| `session_changes` | 3 sessions, 2 policies or an invalid file, 1 disruption | `ChangeLeavesRecord`, `DisclosedUnlessFailed`, `CheckpointIsFinal` |
| `engine_turns` | tools `post` (parallel, external) and `exit` (sequential, terminating), batches of at most 2, 3 turns that all have a text, 2 sent messages, 1 fault, a budget that two turns with hooks make hard, fairness | `EveryCallAnswered`, `ArchiveMatchesHistory`, `NoRequestWhenHard`, `InjectionOrder`, `LoopReturns` |
| `identity_boots` | 1 process, 2 documents, 2 contents, 3 edits or amendments, 1 fault, fairness | `OneVersion`: an unamended change never reaches a session; `NoneForgotten`: nor does a deletion; `WitnessedOrLogged`; `RepairedBoots`: with a witness letter and files in order, no failed boot before locks the agent out |
| `knowledge_graph` | 6 records of which 3 exist at a time, a cycle of links, 2 callers that supersede, 2 walks, 1 fault, fairness | `DistrustIsExact`, `PropagationEnds`: the walk reaches what derives from the source and nothing else, and ends; `DistanceIsLeast`; `Lineage`; `ReflectionConsent` |
| `inbound_events` | 1 Discord channel and stdin, pages of 2, capacities of 1, 3 messages and 1 line, 1 fault, fairness | `NothingLost`: what is read arrives once and in order; `NoGap`, `RepeatsBounded`: the cursor passes nothing unread and goes back a bounded number of times; `EofDrains`, `CleanWakes`, `EventuallyHandled` |
| `boot_profiles` | every combination of settings, 2 events | `RunsWired`: what Validate accepts calls nothing that is nil and has its supervisor; only a negative poll interval panics |
| `assembly_prompts` | every wiring; 0, 3 or 11 rows of each kind; budgets from ample to too small; 1 fault | `NotesDelivered`, `ManifestTruthful` |

Two overlapping processes with the production store are in `metabolism_double`
and in the theorems, which do not depend on the store except where they say so.

Bounds.  Two jobs and one slot make jobs compete for the slot (three jobs add
no new kind of wait, the code's two slots only more parallelism between jobs
that share nothing else); two processes are what fencing is about; three claims
let a lapsed holder, its successor and a retry coexist; two disruptions let a
lost answer and a crash, or a signal and a crash, meet in one run.  Three sessions are needed
where a property speaks of a session between two others, two elsewhere; two
turns distinguish the first, a middle and the last iteration of the loop.
In `engine_turns` two calls and two tools give every kind of batch (parallel,
sequential, cut short, unanimous), and with a truncated response among three
turns the bound and the budget end the loop at different places; a drain of one
message lets two sent messages exceed it.  Responses without a text, whose
entry the T2 logger leaves out, are in the theorems only.
In `identity_boots` two documents let a boot end between two anchors, and three
edits change a document, change it back and amend it.  In `knowledge_graph`
three rows are a log, a narrative and a reflection in a cycle, or three entities
of which two callers want to replace one by the others.  In `inbound_events`
three messages overflow a page of two and every buffer of one, so that pages
overlap and a page waits for the buffers, and two flagged messages come before a
clean third of the same source with a ramp of two.  In
`assembly_prompts` three and eleven rows are at and beyond the queries' limits,
and the budgets are exhausted before each phase that has a minimum.
Every bound is a named constant and stands only in guards of failures, claims,
edits, rows or new sessions.

Violated properties, each a sentence of the repository that the code does not
keep (`findings` in `PROJECT.json` quotes it):

| Run | What happens |
|---|---|
| `metabolism_double` | `CommitNarrative` has no token: two overlapping daemons write two narratives for one session |
| `identity_unwired` | nothing sets `AssembleConfig.anchors`: a changed document is lived with, unverified, and the witness check in the same branch is never made |

Deadlock is checked in the runs of `Metabolism`, `SessionLifecycle` and
`Identity`.  RunLoop, Assemble and NewApp return, a daemon that has returned is
not always started again, and the records of `Knowledge` run out: there it is
not.  `LoopReturns`, `PropagationEnds` and `EventuallyHandled` say that nothing
stops elsewhere.

### What the properties leave out

Properties are stated as strongly as the code keeps them; the exceptions they
name are behaviour a reader should know of.

* Recovery runs once, at startup, and `Claim` refuses a row younger than five
  minutes: after a quick restart an interrupted job waits for the restart after
  it (`docs/lifecycle/metabolism_runtime_contract.md:45` says recovery resumes
  it).  A drain that times out leaves its job `running` in the same way.
* The first checkpoint is written after the engine loop: a crash inside the
  loop leaves T2 rows and no record of an interruption
  (`docs/lifecycle/ersa_minimum_viable_lifecycle.md:120`).
* The resolver's disclosure of an interrupted session never reaches the prompt;
  the startup note does, unless the first event, which takes it, wakes nobody.
* A failing submit leaves an ended session without a job (contract, lines
  35-39), and a response cut off by its length skips the hooks, so its text is
  in the history and never in T2 (contract, line 37).
* Only the newest job's status is read: an older failed session is missing from
  memory without a note (contract, line 128).
* Removing `lifecycle.json` changes the policy without a disclosure, and the
  fallback policy of an invalid file takes the last *resolved* assembly profile,
  not the last valid file's.
* A sequential batch of three or more calls that stops at a Terminate which is
  not unanimous leaves its last calls without an answer (`EveryCallAnswered`
  has the premise `BatchesEndTogether`); steering messages drained in the turn
  in which the loop stops are in the history but no model sees them.  No
  registered tool is sequential and no caller sets the channels.
* A first boot that ends between its first anchor and the witness verdict, be it
  by the refusal itself, is not asked again: the next boot finds anchors (`gap`
  in `WitnessedOrLogged`).  An amendment excuses its `new_hash` whatever the old
  one was, and never moves the anchor.  Two processes that boot on a fresh
  database may anchor two versions.
* A record that could not be marked is not expanded either (`missed` in
  `DistrustIsExact`).  Marks of distrust and of staleness share a column and
  overwrite each other, and UpsertEntity resets it.  `base_confidence` of tiers
  3 and 5 is stored nowhere, so the first decay pass finds all of them stale.
  SupersedeEntity is not a transaction (`broken` in `Lineage`).
  PropagateDistrust, CreateEdge, RunEndOfSessionDecay and SupersedeEntity have
  no caller in the program yet; the model lets them be called at any time.
* The Discord cursor lives in memory and is set by the first page that is not
  empty: a restart fetches the newest page again, and a burst longer than a page
  before the first fetch, or during a restart, is cut.  Within a process the
  cursor is left at the last element of a page, its oldest message
  (`discord.go:181`), so the rest of the page is fetched again: a message is
  handled, and starts a session, up to 50 times, and within a page newer messages
  come before older ones.  `BACKLOG_TECHNICAL_REFERENCE.md:75` calls this
  "infinite re-fetch loops"; the cursor does move by one message with every
  fetch, so that the repetition is bounded (`RepeatsBounded`) and nothing is
  skipped (`NoGap`), as long as the service answers `after` with the oldest
  messages behind the cursor, newest first.
* A failed read of stdin, or a line longer than the scanner's buffer, closes the
  reader's channel: later lines are never read, and with no other channel the
  daemon returns (`broken` in `EofDrains` and `EventuallyHandled`; the comment at
  `cli.go:32` names the end of input and cancellation only).
* The stored trust score never leaves the prior, since it starts there and is
  only blended with it.
* A Postgres DSN is always refused: by NewApp in production and connectivity, by
  Validate in development, although `app.go:120` lists postgres as a supported
  driver.  A negative poll interval panics in `time.NewTicker` (the exception of
  `RunsWired`).
* The tokens of a response that is cut off by its length while it calls tools are
  counted nowhere: the budget monitor is one of the hooks it skips.  The budget
  (`NoRequestWhenHard`) limits the other responses; only MaxIterations limits
  these.
* In the depth manifest a total is at most the query's limit (3, 5, 10), a read
  that failed shows as 0/0, and reflections count as loaded although only the
  bridge's model is given them.

### Fairness

`Metabolism`: weak fairness of each goroutine (the Go scheduler runs it and its
calls return: the LLM client has a timeout, the others are database calls), of
`Dispatch` and `DispatchDone` (the daemon goroutine), of `BeginDrain` once the
context is cancelled, of `DrainDone`, of `LeaseLapse` (time passes) and of
`Start` (a service manager restarts the process).  No failure, signal, session
or drain timeout is fair.  `EventuallyResolved` has the premise that the process
stops again and again, since recovery runs only at startup.

`SessionLifecycle`: weak fairness of RunSession as a whole (every call returns
and the loop is bounded by MaxIterations) and strong fairness of `Shutdown`: the
select of the event loop chooses at random among ready cases, so it does not
pass over a closed Done channel for ever while events keep arriving.

`EngineLoop`: weak fairness of the loop with its tool goroutines (the client, the
tools and the database calls return, by timeout if need be).  `Send` is not fair.

`Identity`: weak fairness of every process's steps (files and queries are read
or fail; a service manager starts the next session).  Edits and faults are not
fair, and `RepairedBoots` has the premise that from some time on there is a
witness letter and the files are in order: without a letter a first boot is
refused, as it should be.

`Knowledge`: weak fairness of a propagation that has been called.  `Inbound`:
weak fairness of each goroutine's step on its own, so that no poller or fan-in
goroutine is passed over for ever, and of the daemon's loop (a session ends, see
`SessionReturns`).  Messages, signals and restarts are not fair.

## 4. Proofs

Every safety invariant and action property that a passing run checks is also a
theorem, and the refinement of `JobContract` is; what is left to TLC is
liveness.  `LogsBeforeJob`, `TurnsBounded` and `EchoesFirst`, which follow from the
order of the code and its constants, are proved only.

Constants are arbitrary apart from the named assumptions: positive claim and
retry limits (`BoundsAssumption`), a positive slot count and a finite set of
jobs (`MetabolismAssumption`), disjoint names and a positive iteration
bound (`LifecycleAssumption`), for the loop positive iteration and drain
bounds, natural numbers elsewhere, and known contents (`LoopAssumption`), for
the event pipeline finitely many channels, positive page size and capacities
and a ceiling and stored prior of trust that are not below the threshold
(`FeedAssumption`, `CapAssumption`, `TrustAssumption`: 0.95, 0.40 and 0.30 in the
code), for the graph finitely many records and disjoint tiers
(`TierAssumption`), and for the prompt natural numbers of rows and positive
sizes of texts; its budgets may be negative.  The sets of processes, tools and
documents may be infinite.

`MetabolismProofs`.  None of the safety invariants is inductive.  `Inv` adds to
`TypeOK`, for every job: `RowInv` (the claim count equals the number of tokens
minted, the row's token is one of them, retries never exceed claims), `TierInv`
(a link is a narrative that exists, nothing but clean logs is linked, and the
status agrees with both), `HolderInv` (what a goroutine knows at its place
in Run: a goroutine that holds the row's current token still sees it `running`;
one about to complete has covered the session; one about to ask for review has
unscreened logs), and `ExclusiveInv` (two goroutines never hold the same token).
`HolderInv` is what makes the missing status clause of Complete and Fail
harmless.  From it follow

* `TypeCorrect`, `Invariance`: `TypeOK` and `Inv` hold always;
* `AttemptsAreBounded`, `CompletionIsHonest`, `GateHolds`: the invariants
  `AttemptsBounded`, `CompletedIsCovered`, `UnscreenedNotPromoted`;
* `TerminalStays`, `FallbackIsFenced`: the action properties `TerminalIsFinal`
  and, for the fallback store, `StaleNeverWrites`;
* `RetriesAreIdempotent`: with one process, `AtMostOneNarrative`, by the
  further invariant `SoleOwnerInv` (a goroutine with loaded logs finds them
  uncovered); `metabolism_double` shows that two processes break it;
* `Refinement`: `Metabolism` implements `JobContract` under the mapping
  `Phases`, `Attempts`, `Covered`, step by step.

`SessionLifecycleProofs`.  Here not even `TypeOK` is inductive: that T2 stays
within its bound depends on how far the loop has come, and that a row belongs to
a session on where RunSession is.  `Inv` adds: `PlaceInv` (the session in hand is
the newest one), `FreshInv` (a session not yet created has left no trace),
`ProgressInv` (what the session in hand has logged, checkpointed and submitted at
each place), `RecordInv` (the rows written before the agent lives), `PolicyInv`
(the hash in hand against the newest configuration_applied row; every earlier
life under another hash has such a row after it) and `JudgedInv` (a status that
yields no note belongs to a completed job).  From it follow `TypeCorrect`,
`WakesAreRecorded` (`NoUnrecordedWake`), `ChangesAreRecorded`
(`ChangeLeavesRecord`), `SilenceIsHonest` (`SilenceMeansCovered`),
`JobsSeeAllLogs` (`LogsBeforeJob`) and `SessionEndsAreFinal`
(`CheckpointIsFinal`), for any number of sessions, turns and failures.

A second inductive invariant, `More`, rests on the first.  `EndInv` says in
which places a row may still be active, `CopyInv` that the prompt says what
RunSession found, and `NoteInv` follows the startup note from the scan through
the first event, and the resolver's finding from the query, into the prompts;
that a record of an interruption does not go away under them is `RowsMove`,
from which `SessionEndsAreFinal` follows too.  They give `EndingsAreHonest`
(`EndingsAreTrue`).  The other parts speak of histories without a failure:
every session lives (`AliveInv`), so that successive lives are successive
numbers; between sessions the newest plan is the newest life's and the newest
configuration_applied row agrees with it (`SettledInv`, with `AppliedOf`); and
within one, a policy other than the last life's is one that HasChanged has seen
(`TakingInv`), also when the file is invalid and the policy comes from the last
plan.  They give `ChangesAreDisclosed` (`DisclosedUnlessFailed`).

`EngineLoopProofs`.  `Inv` adds to `TypeOK`: `SlotInv` (a slot for each call, and
only a terminating tool has signalled Terminate), `CountInv` (a request is sent
only while an iteration is left), `BudgetInv` (`billed`, the tokens of the
responses that were not cut off, is what the monitor has counted, or will have
when the running turn's response is), and `HistoryInv`, which is
`EveryCallAnswered` at every place: all messages are well placed except the last
assistant message while its calls run, and a batch that was cut short leads to a
return (`CutShort`), not to a request.  Its steps rest on
lemmas about appending a block of answers to a well-placed list (`Grows`,
`BlockPlaced`, `UserPlaced`).  From it follow `TypeCorrect`, `LoopIsBounded`
(`TurnsBounded`), `BudgetIsKept` (`NoRequestWhenHard`) and `CallsAreAnswered`
(`EveryCallAnswered`), for any tools, batch sizes within the premise, budgets,
queues and numbers of failures.

`Deep` is the second inductive invariant.  `KeysInv` orders the messages that
are not the user's by turn and place (`Before`), `TurnInv` says which messages
the running turn has, `ArchiveInv` which of them are in T2: all that are worth
keeping, except in a turn whose entries are being written, where it is those
before the entry the logger is at, or one more after a lost answer.  Since both
lists follow one order, equal sets are equal sequences, and no induction over
sequences is needed; `ArchiveMatchesHistory` is stated in that way, by
positions.  `InjectionInv` says that what waits in a queue was sent after what
has left it.  They give `ArchiveIsFaithful` (`ArchiveMatchesHistory`) and
`InjectionIsOrdered` (`InjectionOrder`).

`IdentityProofs`.  Three theorems have the premises `Solo` (one process) and
`HasAnchorStore`; both are needed, as `OneVersion` without either shows.  `Inv`
adds to `TypeOK`: `Reports` (the report of a boot in progress is true of the
anchors it has read: New means unanchored until this boot anchors it, Match and
Amendment mean what they say of the loaded version), `Quiet` (between boots
nothing is left of a report), `LivedAnchored` (a version lived with is the
anchored one or amended), `Origin` (an anchor was left by a session, by a fresh
boot that did not end well, or by the boot in progress) and `WitnessedOrLogged`
itself.  From it follow `TypeCorrect`, `ChangesHalt` (`OneVersion`),
`WitnessIsAsked` (`WitnessedOrLogged`) and `DeletionHalts` (`NoneForgotten`), for
any documents, contents, edits and faults.

`InboundProofs`.  `NothingLost` says of each feed that the handled events and the
events in transit are the first, second, ... that were read, in order, whatever
messages they carry.  `InOrder(f, s, lo, hi)` says so of one buffer: the events of
`f` in it are the lo-th to the (hi - 1)-th.  The lemmas `InOrderConcat`,
`InOrderAppend`, `InOrderTail` and `InOrderPage` tell what becomes of it when
events are fetched, sent, taken, merged and handled.  `Inv` adds to `TypeOK`:
`Home` (a buffer of an adapter holds only its feeds), `Cursor` (the cursor is
never beyond what was posted), `FlowInv` (the four buffers' runs join up from what
was handled to what was read), `Ends` (what the end of stdin or a failed read has
closed) and `EofDrains` itself, which follows from `Flow` in the step in which the
daemon finds the merged channel closed.  It gives `PipelineIsFaithful`
(`NothingLost`) and `EndOfInputDrains` (`EofDrains`).  A second invariant, `Pages`,
is about the cursor: by `Span` what was read of a channel has no gap and contains
the cursor, and by `Repeats` a message within a page of the cursor has been read
at most `Quota` times, one for each place the cursor has come closer to it since
the page reached it.  They give `CursorSkipsNothing` (`NoGap`) and
`ReadingsAreBounded` (`RepeatsBounded`) for any page size.
`CleanEventsWake` (`CleanWakes`) rests on `Solvent` (no stored
score is below the threshold) and on bounds of the blended score under integer
division; its hypothesis `MinTrust =< Prior` is needed, as the prior is read
from `AEGIS_TRUST_SKEPTICAL_PRIOR` and a prior below the threshold keeps every
new source from waking the agent.

`AssemblyProofs`.  `Inv` adds to `TypeOK`: `Gathered` and `NotesSoFar` (where
the notes are at each place of the loop), `LoadedIsShown`, `ReadsCounted` (what
the reads have put in the manifest so far) and `CutInOrder` (which phases the
budget can cut at all, and what is left of it in a prompt that had room for
echoes).  It gives `NotesReachTheAgent`, `ManifestIsTrue` and
`EchoPoolIsCutFirst`, for any store, budget and sizes.

`KnowledgeProofs`.  Each theorem has its own strengthening.  `ConsentIsKept`
needs that the rows a decay pass has in hand are still consented to;
`LineageIsKept` needs `ReplacingInv` (the caller between its statements is the
one that expired the entity); `DistrustReachesAll` needs `WalkInv`, the
invariant of a breadth-first walk over edges that grow meanwhile, with
`Downstream` as the least closed set.  `DistanceIsShortest` is about recursive
functions.  The library's induction theorems take an operator, which the
provers cannot instantiate; a least counterexample takes a set, and
`LeastNatural` and `HopInduction` get the induction from the well-foundedness
of the natural numbers.  `FrontierUnfolds` and `AwayUnfolds` show that the two
recursive functions satisfy their equations, `VisitedIsQueued` and
`QueuedIsAway` that a record is queued exactly at its distance.

`BootProofs`.  `Inv` follows construction: which dependencies exist behind which
point (`Opened`, `MemoryWithDB`, `GatewayWithMemory`, `Validated`, `Supervised`),
and that only the other two profiles listen (`Listening`).  The DB and the stores
that both profiles require bring the memory store and the gateway with them,
which development does not require.  It gives `OnlyKnownGap` (`RunsWired`).

Only model-checked, because the proof system does not handle liveness under
fairness or ENABLED: `RecoveryFinishes`, `EventuallyResolved`, `SessionReturns`,
`SignalStops`, `LoopReturns`, `RepairedBoots`, `PropagationEnds` and
`EventuallyHandled`.

## 5. Abstractions and limits

* Texts (prompts, notes, summaries), scores, embeddings and clock values are
  left out.  A lease is fresh or lapsed; a scan's cutoff is an arbitrary point
  in the order of sessions; the wake gap is short or not, by choice.
* Regular expressions and trust decisions that gate a wake are a choice between
  their outcomes.
* Newest-row queries follow insertion order; two rows within the resolution of
  a timestamp are not distinguished.
* The SQLite and Postgres stores issue the same statements; what is modelled is
  SQLite, which is what the program opens.  A transaction is one step.
* The wake causes `initial` and `recovery` of the resolver are never produced by
  the daemon and are left out.
* `internal/metabolism/jobs.go` and `recovery.go` have no caller.
* Only one propagation of distrust and one decay pass run at a time; the order
  of their queues is left out.
* In-band notes together, and the grounding block, are below a thousand
  characters; echoes are at most two of three hundred.
* Discord is external: that a page after a cursor holds the oldest messages, and
  that every page is sorted newest first, is assumed.  A rate-limited or failed
  fetch changes nothing and is repeated.
* Not modelled because there is no protocol state to model: the HTTP client and
  its event-stream parser, dialect rewriting and the settings table, sandboxes
  and the Unix socket, tool handlers (argument checks around one store call),
  sanitizing and pattern matching, telemetry and the benchmark harness.
* Not modelled because nothing reaches it: the forum adapter (NewApp does not
  register it), the Postgres twins of the memory store, peripheral nudges, the
  embedding worker, contradiction retrieval, substrate records, keyword
  activation of tool groups and the phase 1 loop.
* Programs of their own: `cmd/migrate`, `cmd/cli`, `cmd/benchmark`.

## 6. Plan

1. Done: job store, metabolism and its contract, session lifecycle, engine loop,
   identity, assembly, inbound events, knowledge graph, composition root.
2. Done: every safety property of the passing runs as a theorem.
3. Next.  Refinement: the loop of `SessionLifecycle` as an abstraction of `EngineLoop`.
4. `Resolver` as a function, over all its inputs; once Postgres can be opened, a
   variant of the fenced link, which there reads and writes at READ COMMITTED.
