# A TLA+ development of memflywheel

This directory holds TLA+ models of memflywheel's core, the TLC runs that check
them, and theorems about them that TLAPS has proved. `PROJECT.json` ties every
definition to the source lines it translates (`map`), lists the runs, one
mutation of the model per checked property (`mutants`), the places where the
code and its documentation disagree (`findings`), the hazards of the code, and
the theorems. Paths below are relative to `src/packages/` unless they start with
`docs/`.

To check: `tlc -config X.cfg MCModule` for a run, `tlapm ModuleProofs.tla` for the
proofs.

- [1. The system](#1-the-system)
- [2. Modules](#2-modules)
- [3. Runs](#3-runs)
- [4. Bounds](#4-bounds)
- [5. Fairness](#5-fairness)
- [6. Proofs](#6-proofs)
- [7. What is not modelled](#7-what-is-not-modelled)
- [8. Plan](#8-plan)

## 1. The system

memflywheel gives a coding agent a long-term memory. A *host* (OpenCode, Pi,
OpenClaw, Hermes) reports prompts, turns and session ends through a *port*; an
SDK instance turns these into *extraction* (an agent reads the new messages and
writes memory files), *skill evolution* (an agent edits a tree of learned
skills), and *dream* (consolidation of the memory files). All of it works on
directories that other processes of the same user work on as well.

```
 host --> port --> onPromptBuild / onTurnEnd / onSessionEnd / onIdle
                        |               |                       |
                      recall     lifecycle queue           dream gate
                    (no lock)    (one per process)              |
                        |        extraction  -> skill evolution -> dream pass
                        |               |             |            |
                        |          root lock      (no lock)    root lock
                        v               v             v            v
                    MEMORY.md    memories, traces   skillsRoot   memories, .dream-state
```

| Component | Source | State | Operations | Talks to |
|---|---|---|---|---|
| write lock | `core/src/lock.ts` | lock directory of a root with its mtime; the timers of the holder | `acquireLock`, `withLock` | every writer of the root, in this process and others |
| extraction | `core/src/extract.ts` | cursor per session, JSONL trace per session | `selectMessagesForExtraction`, `selectMessagesForSourceTrace`, `appendSourceTrace`, `redactExistingSourceTraces`, `relocateRootFiles`, `runExtractionSession` | lock, file tools, index, agent |
| SDK lifecycle | `sdk/src/index.ts` | session table, lifecycle queue | `onPromptBuild`, `onTurnEnd`, `onAgentEnd`, `onSessionEnd`, `onIdle`, `runDream`, `save` | extraction, skill evolution, dream, recall |
| learning loop | `sdk/src/learning-loop.ts` | counters of a session, last run of skill evolution | `shouldRunSkillEvolution`, `runLearningLoop`: gates and order of the three loops of a turn | extraction, skill evolution, dream |
| dream gate and state | `core/src/dream-state.ts`, `core/src/dream.ts` | `.dream-state.json`: stamp of the last pass, sessions since | `readDreamState`, `bumpDreamSessions`, `markDreamConsolidated`, `shouldRunDream`, `runDreamSession` | lock, pre-pass, agent |
| dream pre-pass, health | `core/src/dream.ts`, `core/src/health.ts` | memory files | `planDeterministic`, `applyDreamOps`, `buildHealthFindings` | storage |
| storage, paths, frontmatter | `core/src/storage.ts`, `paths.ts`, `frontmatter.ts` | memory files | write, merge, delete, archive, read a document | audit, atomic writes |
| file tools | `core/src/file-tools.ts` | memory and skill files, as an agent sees them | read, write, edit, bash, glob, grep with policies | storage, index, agents |
| memory index, recall | `core/src/index-file.ts`, `scan.ts`, `recall*.ts` | `MEMORY.md`, `memory-index.json` (vectors) | scan, rebuild, context, retrieval | lifecycle, dream, prompt builds |
| privacy | `core/src/privacy.ts` | none | redaction of spans and secrets | extraction |
| learned-skill store | `skills/src/learned-skill.ts` | `skillsRoot`, checkpoint (stage, snapshot, manifest) | catalog, checkpoint, finalize, rollback, package validation | skill evolution, prompt builds, people |
| skill evolution | `sdk/src/skill-evolution-agent.ts` | one run | checkpoint, agent, coordination, validators, finalize or roll back | store, dream |
| agent runners | `sdk/src/agent-runner.ts`, `*-agent.ts` | a tool loop | model call, tool calls | file tools |
| host bridge | `memflywheel/src/host-memflywheel.ts`, `make-adapter.ts` | tool calls per session | conversions of messages, lifecycle calls of a port, idle tick after each | SDK |
| OpenCode port | `memflywheel/src/opencode-port.ts` | dispatch chains, pending turns, texts, calls | `session.idle`, `session.deleted`, tool events | host bridge |
| Pi and OpenClaw ports | `memflywheel/src/pi-port.ts`, `openclaw-port.ts` | background queue, context or selection, failures | prompts, turns, tools, end of session | host bridge |
| adapters, installer | `memflywheel/src/adapter.ts` | a host's config file | plan, apply, verify, doctor | config files of hosts |
| Hermes bridge | `memflywheel/provider`, `bridge/worker.mjs`, `guard` | a worker process, cursor file | requests and answers over pipes, timeouts, restart | host bridge |

What is hard, and what makes each part correct:

- **The lock is a lease.** It is a directory with a modification time; the holder
  renews it from a timer, others may take it when it looks old. Correct: at most
  one writer inside; a dead holder does not keep writers out; nobody waits for
  ever; ELOCKED only when somebody live had it.
- **Extraction is a retried, replayed consumer.** A pass appends to the trace,
  calls an agent, then moves the cursor; each of these can be the last thing that
  happens. Hosts deliver either a turn or the whole transcript again. Correct:
  what the cursor has passed was seen by an agent that returned; what an agent
  has seen is in the trace; the trace is in order, without repetition, and only
  grows, because memories cite its lines; a failed window is tried again.
- **The lifecycle queue** serializes the tasks of a process, so a task that rejects
  must not hold up the rest, and an ended session must leave the table, but not
  before everything in it was seen.
- **The dream state** is read and written by lanes (queue, idle ticks, other
  processes) without the lock, and the gate is read before the lock is waited
  for. Correct: stamp and count describe the passes and sessions that happened; a
  pass through the gate is due; an open gate is served.
- **The pre-pass** plans once and then applies step by step, relocations first,
  each of them a delete followed by a write. Correct: it keeps every body, and
  comes to rest.
- **Skill publication** replaces directories file by file in a tree nobody locks,
  while prompts read it, other processes publish and people edit. Correct: all or
  nothing; only what the agent changed; readable at rest; the coordination it
  hands to the dream agrees with what happened.
- **The learning loop** publishes a skill before the dream hears of it, and either may
  fail. Correct: only what was learned makes a skill, and a published skill reaches the
  dream or the turn is rejected.
- **MEMORY.md and the vector cache** are rebuilt by prompt builds that hold no lock while
  a locked writer adds, moves and removes files. Correct: a prompt shows what is there;
  retrieval that may fail does not fail the prompt; no vector of another line is used;
  the newest text of a memory survives; a writer reports truly what it did.
- **The ports of Pi and OpenClaw** learn in the background: a turn is processed while
  later events arrive, with a context that is not its own, next to tool calls that
  belong to another turn. Correct: turns run once and in order, the end of a session
  comes after them, failures surface, agents use the model of their event.
- **The conversions of messages** know different shapes of calls and results. Correct: each
  keeps all words and all calls of the shapes that it knows, pairs a call with no result of
  another, and two that know a shape read it alike.
- **The installer** has four readers of one config file that must agree.
- **The Hermes worker** may be killed at any time by a timeout; its cursors are on
  disk and its messages are not.

`PROJECT.json` lists each hazard at its line with the properties that watch it.

## 2. Modules

```
 Mutex    <---refines--- RootLock
 Requests <---refines--- WorkerBridge <- WorkerBridgeProofs
 RootLock, DreamGate, DreamPrepass <- LockAndDreamProofs
 LearnedSkills <- LearnedSkillsProofs       MemoryStore <- MemoryStoreProofs
 OpenCodePort  <- OpenCodePortProofs        LearningLoop <- HostQueues <- HostQueuesProofs
 SourceTrace, HostMessages, FileTools, Wiring, SkillPackages <- Operators <- OperatorsProofs
 SourceTrace <- SessionLifecycle
 SessionLifecycle, OperatorsProofs <- SessionLifecycleProofs
```

An arrow without a word points to the modules that the one on its right EXTENDS. `MCX` extends `X` with model values
and small sets for TLC. Operators whose comment starts with *Fault* stand for a
plausible mistake in the code. They are part of no specification: the mutants of
`PROJECT.json` put them in the place of the right definition to show that a property
notices. A few operators are written out where a module of the library has one (`++` and
`NewestFirst` of MemoryStore, `InOrder` of DreamPrepass, `Redact` of SourceTrace): the
provers know the library's `@@`, `SortSeq` and folds by name only.

**Mutex** – what a caller of `withLock` relies on: one writer at a time; anyone may
leave, be it by return or by death.

**RootLock** – `acquireLock` and `withLock` (`core/src/lock.ts:20-50`) over
proper-lockfile, which is not part of the sources and modelled as external from
the options `lock.ts` passes. The unit of time is one retry interval. `dirOwner`
and `dirAge` are the lock directory and its mtime; `beat[w]` is the age of the
holder's own refresh; `due`, `tries` and `waited` belong to a call that waits. A
writer requests, finds the directory absent, fresh or stale, reclaims a stale one
(in one step, or in the three system calls it consists of: `SeeStale`, `RemoveStale`,
`Recreate`), beats, releases, exits in order (an exit hook removes the directory),
crashes (it stays) and restarts. Ages saturate just above the threshold. `env` is chosen
at the start: which processes run, whether reclaims interleave, and the deadline, which
says how late the timer of a live holder may fire; `Tick` never passes it.
`TimelyHolder` is an environment in which the lock is one.

**SourceTrace** – the pure part of extraction: which messages form the window
(`extract.ts:295-346`), which of them are traced, which lines `appendSourceTrace`
adds after it has searched for the longest overlap with the existing trace
(`253-276`), which line range is cited. No state of its own.

**SessionLifecycle** – session table and lifecycle queue of the SDK (`sdk/src/index.ts`),
and the extraction pass that a turn, an agent end and a session end run. Message
*n* of a session is the number *n*. `StartExtraction` takes a task from the queue;
`Skip`, `LockTimeout`, `BeginAgent` (lock obtained: redaction of all traces,
append, reference), `AgentReturns` (cursor moves) and `AgentThrows` are the
ways on. `learned` and `owed` are history: what agents that returned have seen, and
what agents that threw were shown as new, `skipped` what a pass that succeeded left
out because its window was full. `host` is chosen at the start and says what the
environment does: turns or whole transcripts, reused session ids, cursors that
survive a crash, torn trace writes, which messages open and close a private span,
how many messages, failures and crashes. `CrashInTraceWrite` is a crash during the
`writeFile` of the trace.

**DreamGate** – `.dream-state.json`, the lanes that count sessions (`BumpRead`,
`BumpWrite`: a read and a write with an await in between), the gate, and what a
pass does to the file when it completes, fails or dies. `stamps` and `ended`
are history: completed passes, and sessions ended since the last one. `lost` is
history too: a lane has written its state over a newer one since the last pass.
`seen[l]` is the state a lane has read last.

**DreamPrepass** – a store of memory files over types, names and bodies. `Plan` is
`planDeterministic`, what follows `applyDreamOps`: `TakeOut` and `PutIn` are the delete and the
write of a relocation, which redacts private spans (`Redacted`), `RemoveDuplicate` a planned
deletion, `RelocateRootFile` the move of
stray files of the root that follows. `PutInThrows` is a document the write
refuses. Every store of up to `MaxFiles` files is an initial state. `apart` is history:
no two files of the planned store have the same name and no copy is misplaced. What
the three modules about writers and dreams would both call `Init` or `Next` begins with `Prepass` or
`Gate`, because one module holds the theorems about all three.

**LearnedSkills** – `runSkillEvolutionAgent` and the store operations it calls. A
skill is two files, so that a directory can be half there. The actions of an
evolver follow the code: read the catalog, list the tree, copy it to the stage
and to the snapshot, let the agent leave any stage or throw, infer what was
deleted from a limited glob, refuse or accept in finalize, then per changed
directory a check, a removal file by file and a copy file by file. A rollback is
the same replacement with the whole tree as its scope and the snapshot as its
source; the code owes two of them when publication fails (finalize's own and the
runner's), one when finalize refuses or the agent throws. `FileFault` makes the
next file operation throw, `Crash` leaves the tree as it is, `ForeignEdit` is
anybody else.

`CoordinationAccepted` and `ChangeSetAccepted` are the two validators of the result
(`validateSkillEvolutionCoordination`, `validateSkillEvolutionChangeSet`).

**SkillPackages** – the other interface of the store: `PackageAccepted` is
`validateLearnedSkillPackage`, and `Checkpoint`, `Finalize` and `Rollback` publish a single
skill from a package, as operators over a root with one skill and one other file. What another
process does is in two records: `now`, the root when finalize checks it, and `meanwhile`, which
files finalize copies until it ends or fails, what is in the root then, and which files were
changed again after they were copied.

**MemoryStore** – the memory files with their index lines and mtimes, `MEMORY.md` and the
vector cache. Writers take turns under the root lock: an extraction (`relocateRootFiles`,
the scan before, the tools write, edit and bash of its agent with `afterMutation`, a second
relocation, the scan after, the result) or a `save` (archive, then write or be refused).
Prompt builds (`buildContext`) walk the type directory file by file, write and read
`MEMORY.md`, and, if it is too long, look vectors up, store them, select and `stat` what
they selected; the providers may fail at each call. What `parseMemoryIndexRecords` takes for the
path of a memory is a table of the configuration (`paths`): it may be the right one, that of
another memory, one where nothing is (`"absent"`) or something else (`"present"`), one that
`resolveRelativePath` refuses, or none, and then the line is no record (`"unparsed"`). `Records`,
`Lasts` (a map by path keeps the last), the cache entries (`Hit`) and `Fails` go by that path.
`RelocateCopy`/`RelocateCopied` are the
copy over an existing file in two steps. `WriterDies` ends a writer anywhere. `due`,
`removed`, `damaged` and the `seen` and `always` of a prompt are history.

**LearningLoop** – the lifecycle queue, the session table and `runTurnEndLearningLoop`
with the gates of `learning-loop.ts`: extraction, skill evolution, dream, each of which
succeeds or fails and asks the host for a model when it starts (`resolved`). A turn is the
number of the host event that reported it.

**HostQueues** – the Pi and OpenClaw ports on top of `LearningLoop` (`EXTENDS`; a step of
the SDK leaves the port alone and the other way round, they meet in the queue and in
`answers`). `waiting` and `task` are the background queue; `TaskBegins` to `TaskIdleFails`
a background turn, `EndDrains` to `EndIdleFails` the handler of the end of a session.
`Used` is the context an agent gets that asks now. `host` says which port, whether it sends
events while an end is handled, whether turns bring the whole transcript, and how much
happens. A tool call and its result are one event.

**HostMessages, FileTools, Wiring** – operators for what has no state that interleaves: four
readings of a host's transcript; the answers of the read tools with their footers; the
installer's plan, apply, verify and doctor. What the code builds with a loop and an array that
it pushes to is written as a function on the places it has something for: in `HostMessages` a
reading is a function on some of the places of a transcript, and its calls one on some of the
parts of a message. Each reading looks at its own kinds of parts (toolCalls, tool_calls,
tool_use, toolCall, tool_result), roles (tool, toolResult) and id fields (toolCallId,
tool_call_id), as its code does:

| Reading | Calls | Without an id | Results |
|---|---|---|---|
| `FromPi`, `FromPiScribe` | toolCall | dropped | messages toolResult, by toolCallId |
| `FromOpenClaw` | all four kinds | dropped | messages tool and toolResult, by either field; no parts |
| `Normalize` (adapter) | toolCalls, tool_calls, tool_use | kept | messages tool, by tool_call_id; tool_result parts; of toolCalls their own output |

`HostsAgree` says that each loses nothing of what it knows and mixes nothing up, whatever the
transcript, and that two readings agree on the shapes that both know: Pi's and OpenClaw's on
Pi's (`OfPi`), OpenClaw's and the adapter's on OpenAI's (`OfOpenAI`).

**Operators** – makes the inputs of these, of `SourceTrace` and of `SkillPackages` the
initial states of a specification, and says what is expected of each. TLC takes every bounded
input from `Operators.cfg`; the theorems are about every input there is. `MCOperators` only
adds a table of two adapters.

**OpenCodePort** – the events of an OpenCode session (`opencode-port.ts`), the
handlers of `host-memflywheel.ts` behind them, and the lifecycle queue they end in.
`dispatch` is the sequence of all dispatches with the one each is chained to
(`after`); `Ask` is the host's reply to `session.messages`, `HandOver` what follows it
up to the queue, `TurnReturns` the task, `HandlerReturns` the rest of the dispatch
after the idle tick. `Deleted`, `SweepReturns`, `EndReturns`, `DeletedReturns` are
`session.deleted` in the same way. The host's list may lag behind `turns` up to
`listed`; the buffers `pending` and `calls` are what the port was told directly.
`handed` and `learned` are history, `raced` too: sessions deleted with a dispatch in
flight. The SDK is a table of messages which an extraction learns as a whole, what it
does with them is `SessionLifecycle`.

**Requests** – a remote call that runs at most once, over a worker that may be lost: a command
is sent, starts or is lost, ends, and its request returns or raises.

**WorkerBridge** – `_MemFlywheelBridge` of the Hermes provider and `worker.mjs`, with
the two pipes between them and the read buffer of Python's text stream. `ReadLine` is
one turn of the loop of `request`: select, then readline. `Begin` starts a worker when
there is none and sends the command; `AskModel` and `Respond` serve a model request;
`Return`, `GiveUp`, `TimeOut` and `WorkerGone` end the request. A line may fail to
parse on either side. `left` is history: commands of this worker whose request has
raised while they run on. `Open`, `Waiting`, `Running`, `Ended` and `Returned` read the state of
`Requests` off the pipes, the buffer, the jobs and the callers.

## 3. Runs

A run that should pass checks properties of the code as it is. A run marked ✗
checks one sentence of the documentation, a comment or a test, and TLC finds a
behaviour of the code that violates it; `findings` quotes the sentence.

| Run | Shows |
|---|---|
| `RootLock` | three writers with timely holders, two with late heartbeats and interleaved reclaims: `MutualExclusion` and the refinement of `Mutex` (`ImplementsMutex`) for the first; for both, ELOCKED never comes from a dead holder alone (`ElockedOnlyIfAlive`) and a call of `acquireLock` ends (`BoundedWait`) |
| `Operators` | for all inputs within the bounds: windows, traces and appended lines agree with reference definitions (`TraceOfAPass`); each reading of a transcript keeps what it knows, and those that know the same agree (`AnyHostIsRead`); footers of the read tools lead through everything and cut searches say so (`AnswersAreComplete`); plan, apply, verify and doctor agree and an install converges (`InstallIsIdempotent`); a single-skill package is refused over a change that came before the check, is whole where it is published, and can be taken back, whatever happens during the copy (`PublishedOrRefused`) |
| `Sessions` | nine hosts, one or two failures and a crash: at-least-once (`BehindCursorIsLearned`); the trace covers what was learned, is in order, and references hold the messages of their pass (`TraceIsEvidence`); a session is dropped only when all was seen; a failed window is retried; a rejected task does not stall the queue |
| `SessionsDurableCursor` ✗ | the Hermes cursor file outlives the messages it indexes |
| `DreamGate` | two lanes: stamp and count of the file are exact until a state is written over a newer one, and the stamp is that of a completed pass even then (`StateIsExact`); a pass that begins while the file is as the gate has read it is due (`DuePassOnly`); an open gate is served |
| `DreamPrepass` | two completed passes leave nothing to do, and a store without collisions keeps every body but for its private spans |
| `DreamPrepassLastCopy` ✗ | a planned deletion takes the copy that was to stay |
| `Skills` | two evolutions whose agent leaves any stage, with a failing operation, a crash or a foreign edit anywhere: all or nothing; readable at rest; the inferred coordination agrees with the tree and with both validators (`CoordinationIsTrue`); a publication changes only what its agent has changed |
| `MemoryStore` | two prompt builds race one another and a writer, or two writers, one of which may die, follow each other: a prompt build that overlaps no other shows what is there (`LonePromptIsExact`); lenient retrieval fails only for a selected line whose file was removed or whose path was misread; vectors are of their lines, unless lines of two memories are read as having one path; the newest text survives; results are true |
| `HostQueues` | Pi with one and two sessions, Pi that goes on during an end, OpenClaw: the model is of the event, tool calls come in time, ends follow the turns before them, failures surface once, published skills reach a dream, every turn settles |
| `OpenCodePort` | a host whose list lags, dispatches in flight at a deletion, two rejections: a dispatch that resolves was learned, with calls and an answer (`DoneIsLearned`); no older transcript replaces a newer one (`DeliveredMovesOn`); a session deleted at rest leaves nothing behind (`GoneWithoutTrace`) |
| `WorkerBridge` | two threads, timeouts at any point, a crash or a shutdown, lines that do not parse: nothing of a command that timed out runs on (`NothingRunsOn`); no request waits for a line it has read already (`NothingLeftInBuffer`); all in all a remote call that runs at most once and returns its own result (`ImplementsRequests`) |

The type invariant of a module is a conjunct of the invariant its name is given with in the
module (`BehindCursorIsLearned`, `IdempotentAfterTwo`, `NewestIsKept`, `ModelIsOfTheEvent`,
`DoneIsLearned`, `NothingRunsOn`, `StateIsExact`); all of them are proved.

### What the properties exclude

A property that holds only under a condition names it, and each condition is there
because TLC has found a behaviour of the code without it. Dropping the condition shows it again:

| Dropped condition | What happens |
|---|---|
| `TimelyHolder`: the deadline | a holder whose timer is one interval late shares the root with another writer |
| `TimelyHolder`: no interleaving | of two writers that find the same stale directory, the slower removes the faster one's fresh one |
| `CursorDiesWithArray`, reused ids | the cursor of an ended session is applied to a new array under the same id |
| `CursorDiesWithArray`, durable cursors | the same after a restart of the Hermes worker (`SessionsDurableCursor`) |
| `TraceInOrder`: not both replay and failure | with whole transcripts, a failed pass makes the session array hold messages twice, and the trace gets them again |
| `TraceInOrder`: not both replay and a cursor that outlives its messages | the cursor of another array cuts the replayed transcript in the middle, and its end is appended to a trace that does not end with its beginning |
| `RefCoversPass`: no failed pass | a retry cites none of the lines its failed predecessor wrote |
| `Untorn` | a crash inside `writeFile` takes lines from the trace |
| `SpansAreClosed` | a private span that opens in one message and closes in another removes the lines between |
| `~lost` | overlapping lanes lose counts, or write an old stamp back |
| `DuePassOnly`: `seen[l] = file` | a pass that waited for the lock runs although another has just closed the gate |
| `apart` | a relocation overwrites a file of the same name |
| `Undisturbed` | a relocation dies, or is refused, after its delete |
| two passes in `IdempotentAfterTwo` | one pass may leave work for the next, because root files move last |
| `foreign = 0` in `AllOrNothing` | an edit between finalize's check and the publication is overwritten |
| `crashes = 0` in `ReadableAtRest` | a crash during publication leaves half a directory for good |
| one evolver in `ReadableAtRest` | a snapshot taken during another process's publication holds half a directory, and a rollback restores it |
| rest in `ReadableAtRest` | a prompt build meets a directory that is being replaced, and the catalog throws |
| `skipped` in `FailedWindowIsRetried` | after failed passes the backlog outgrows the window; the pass that succeeds shows the agent the newest messages only and moves the cursor past the rest |
| one skill or one survivor in `ChangeSetAccepted` (`skill-evolution-agent.ts:471` says that a coordination always agrees with its change set) | an agent that changes two skills is reported with one of them, and the validator of the change set refuses what the run returns |
| `foreign = 0` in `CoordinationIsTrue`, `AllOrNothing` (`packages/skills/README.md:61-64` promises that finalize fails when a file outside the change set was edited) | finalize does refuse, and the rollback that follows restores the snapshot over the foreign edit |
| `s \notin raced` in `DoneIsLearned`, `GoneWithoutTrace` | a dispatch in flight when its session is deleted has lost its buffered answer and calls, and puts the session back into the SDK's table after its end |
| *an* answer in `DoneIsLearned` | when the host lists answers of earlier turns and not yet the last one, the last one is not handed over and its buffer is dropped |
| `"gone"` in `GoneWithoutTrace` | when the final sweep or the idle tick after it rejects, the maps of the port keep the session |
| `left = {}` in `NothingLeftInBuffer` | a request that raises over a line it cannot parse leaves its command running; its answer and the next one arrive together, and the next request times out with its answer in the buffer |
| `left` in `NothingRunsOn` | the same: two commands run in the worker side by side; one whose model response did not parse waits for ever, inside the root lock |
| `alone` in `LonePromptIsExact` | of two prompt builds, the one with the older walk writes `MEMORY.md` last and the other reads it |
| `always` in `LonePromptIsExact` | a memory that is rewritten, or moved, during the walk may be missed |
| `removed` in `AutoThrowsOnlyForRemoved` | the `stat` of a selected file is outside the `try`: a file archived after the search rejects the prompt in every mode |
| `Path(e) # e.name` in `AutoThrowsOnlyForRemoved` | index lines are read back with regular expressions: a comma in a file name, which `isValidMemoryFilename` allows, cuts the path (`recall-index.ts:77`, `:81`), and the `stat` of what is left rejects the prompt with nothing removed; a path that `resolveRelativePath` refuses throws (`recall.ts:259-261`) |
| `Unshared` in `VectorsAreOfTheirLines` | lines of two memories that are read as having one path share an entry of the vector cache, and one of them gets the vector of the other |
| `damaged` in `NewestIsKept` | a crash in the copy of a root file over the one in its type directory leaves a torn file; the newer text stays in the root, but the torn one has the newer mtime, wins the next relocation, and the text is gone |
| `crowded` in `ResultIsTrue` | with more memories than a scan lists, a removal lets an old memory into the second scan, which counts as a change |
| the agent did not fail, in `ResultIsTrue` | what an agent wrote before it threw stays |
| `host.awaits` in `ModelIsOfTheEvent` | Pi's end of a session and a background turn overwrite each other's context: an agent gets the model of another event, or of the latest |
| OpenClaw in `ModelIsOfTheEvent` | it has one selection: an agent that starts late gets that of a later event; never one older than its turn |
| calls after the turn in `CallsComeInTime` | tool calls reported while a turn waits in the queue are drained into it, and learned a turn early |
| `Pi` in `TurnsPrecedeEnd` | OpenClaw's end of a session does not wait for the queue: the session is swept and dropped, and the turns behind put it into the table again |
| `masked` in `FailuresSurface` | a session end that fails itself throws its own error and the failures it has drained are lost |
| `failed` in `PublishedIsDreamt` | the lock of the coordinated dream times out: the turn rejects, the skill stays, and no dream hears of it |
| a directory in `InstallIsIdempotent` | a directory in the config file's place makes every install throw |
| `object` in `InstallIsIdempotent` | a config file that cannot be read, for whatever reason, counts as corrupt and is replaced, with its other keys |
| one shape of transcript in `AnyHostIsRead` (`OfPi`, `OfOpenAI`) | the readings disagree on what one of them does not know: the adapter, which also reads OpenClaw's history (`openclaw.ts:51`), loses every toolCall part and toolResult message, as Pi and OpenClaw write them (`make-adapter.ts:144`, `:216`); the OpenClaw port ignores tool_result parts, so that calls of Anthropic's shape keep no output, and drops calls without an id (`openclaw-port.ts:157`, `:166`, `:176`), which the adapter keeps; the output in an element of toolCalls is used by the adapter only |
| what was changed before the check, in `PublishedOrRefused` | an edit of the target directory between the check (`learned-skill.ts:334`) and the copy of that file (`:359`) is overwritten and the call succeeds: the second look (`:362-375`) is for deleted files and for the rest of the root |
| `\ meanwhile.after` in `PublishedOrRefused` | an edit of a file that is already copied stays, in a publication that succeeds, and counts among its changes |
| `GlobLimit` above the number of skills | skills that the glob tool cuts off count as merged although they are there |

## 4. Bounds

All unbounded counters are capped by a named constant, and each cap is high enough
for the cases the properties are about:

- `Timeout = 3` intervals stands for 720 (the lock's 3 minutes at 250 ms): the smallest
  value with a heartbeat period (a third of it) below the threshold. Three writers
  are a holder and two that compete for its lock; two suffice for a reclaim that
  interleaves with another, since either may have left the directory behind. Behaviours are
  otherwise unbounded, writers request and crash for ever.
- The window of 40 messages with 6 of context is scaled to 4 and 1 (4 and 2 for
  the operators). Six messages in turns of one or two overflow it, so truncation,
  context and backlog all occur. One failure and one crash suffice for retry after
  failure, replay after a crash, and both in either order; the backlog, and a final
  sweep that fails after a failed turn, need two failures. Two of the hosts have two sessions, so that one waits behind the other.
- The thresholds of the dream gate (24 h, 5 sessions) are scaled to 2 and 2, so that
  both sides of *or* are reached separately and together. Two lanes are enough for
  every overlap of a read and a write with another's write; the theorems cover any
  number.
- The pre-pass needs three types to move a file onto a file that itself moves, three
  files for a chain and three names so that they need not collide, two bodies for
  equal and different (a third for one with a private span that becomes another by its redaction,
one of them refused by the write), and two passes for rest.
- A skill needs two files to be half there, and a tree needs two skills for a
  publication to stop between them; two texts give valid and refused, or old and
  new. Two runs of skill evolution are one and a later one that finds what it left.
  `MaxMishaps = 1` makes the failing operation, the crash and the foreign edit
  alternatives. Two evolvers exceed what TLC finishes in minutes; the theorems that do
  not assume one cover any number.
- The operators: traces of up to six lines over two texts; transcripts of three messages, whose
  parts are calls of each kind with and without an id, two of one kind, two of different kinds,
  or a call with its result, and results in every role, field and place; files of
  four lines by limits of up to four, searches with one match more than the limit; config
  files with every marker of up to two bindings; packages with `SKILL.md`, one allowed and
  one forbidden path, over any change of one file before the check, or during a copy that stops
  before the first file, after one, or not, and before or behind the change.
- Two memories are one that is shown and one that is cut (`MaxLines`, `Limit` and `ScanCap`
  are 1), two lines an old and a new one. Two prompt builds against one writer with one write
  give every overlap of two index writers and a change; two writers with two writes, one of
  which may die, give every file in the root next to one in the type directory. Three
  prompt builds add no new pair. Of misread paths there are those of one memory, in all of its lines
or in one, and with no further writes: what a misread path does it does to a search of what is
there. The theorems are about any table of paths.
- Five events of one Pi session are two turns, two calls and an end; four of two sessions let
  one end before, between or behind the turns of the other. One failure may hit any lock
  or agent of either. The gate (`minDoneTurns`, `cooldownTurns`, `minToolCalls`) is 1, 2, 1, so
  that it is open, in its cooldown, and short of tool calls.
- One OpenCode session is enough: sessions meet in the queue only, which is serial. Three
  turns with a window of two make transcripts lose their beginning; three idle events
  are a dispatch that runs and two behind it; one rejection may hit the first of a
  chain and another its successor or the session end.
- Four commands are one that leaves something behind, one that meets it, one more
  behind that, and a worker started anew; two model requests per command make a stale
  one meet a fresh one.

Deadlock is checked for `RootLock`, where some process can always move, and for
`OpenCodePort` and `WorkerBridge`, which may stop only when everything has settled. The
other models stop when the host's input or their bounds are used up.

## 5. Fairness

Passing liveness runs use the weakest fairness the code's scheduling gives:

- `RootLock`: time passes, a waiting call makes its next attempt when its retry timer
  is due, a holder's timer fires. No fairness on release: a task may stay inside
  `withLock` for ever and the wait of the others is still bounded by their retries.
- `SessionLifecycle`: weak fairness of `Task`, the disjunction of everything a running
  process does by itself. A lock request ends (that is `BoundedWait`), an agent ends
  because its loop has a maximum of steps. The host owes nothing, and neither does a
  crash. Which way a task ends is left open.
- `DreamGate`: weak fairness of `Proceed` for each lane. The host bridge calls
  `onIdle` after every turn and every session end (`adapter.ts`), so an idle tick
  always comes again. No fairness for the host's session ends or forced passes.
- `HostQueues`: weak fairness of `PortStep \/ LearningStep`, everything the process does by
  itself: locks time out, agents and models answer or fail. None for the host. Which of the
  enabled steps comes next, and whether it succeeds, is left open.

## 6. Proofs

The proofs hold for every value of the constants that satisfies the named assumptions
of the modules. These say that bounds are natural numbers, that model values differ, what a
host record holds, and little else; what else is listed below the proofs.

**LockAndDreamProofs.** Of the lock: of `TypeCorrect`, `LeaseInvariant`, `LockIsExclusive` and
`LockImplementsMutex` the last three say something where holders are timely (`TimelyHolder`):
a live holder's heartbeat is never later than the staleness threshold, and no second writer
acts in the middle of a reclaim. Neither half can be dropped (section 3). Mutual exclusion is
not inductive: nothing in it keeps a second writer from finding a stale directory. `LockInv`
adds that the writer inside owns the directory, that the age others see equals the
age its heartbeat knows (`HolderOwnsDir`), and that this age is within the
deadline (`HeartbeatInTime`), so the directory of a live holder is never stale.
The refinement maps the holder to the owner of the directory that is inside, and
each step changes that for at most one writer (`OneWriterMoves`, `MutexStep`).
`DeadHoldersDoNotFailCalls` (`ElockedOnlyIfAlive`) needs no timely holder: a call has waited an
interval for each failed attempt, so that when the attempts are used up it has waited for
as long as a directory stays fresh; and after it has removed a stale directory, any that it finds
is younger than its wait (`WaitInv`).

Of the gate: `GateTypeCorrect` (with the count bounded by the sessions that
ended) and `StampsAreOfPasses` hold for any number of lanes; the second needs
`SeenStampsAreOfPasses` for the states that lanes have read and not yet written
back. `StatesAreExact`, which rests on both, and `PassesAreDue` hold for any number of
lanes as well. Their invariant `ExactInv` says that the file agrees with the history
unless `lost`, that what a waiting lane read opens the gate (`GatedWasDue`), and that
no stamp lies in the future. `DueIsStable` is the lemma behind the second: time only
grows, so a state that opens the gate keeps it open.

Of the pre-pass, for any types, names, bodies and any finite store: `TwoPassesSuffice` and
`NoBodyIsLost`. What is left of a plan is relocations of files that are there, each once,
then deletions, each once (`PlanInv`). `FitInv` is why two passes suffice: a relocation is
still to come for each misplaced file, and after a completed pass nothing is misplaced or
in the root, so that the second only deletes copies, all of them. A relocation redacts, so bodies are compared as redacted (`Known`), and all that
is assumed of redaction is that a second one changes nothing (`StoreAssumption`). `ApartInv` is why no body is
lost: where files are apart nothing lands on a file, and for each deletion to come a copy stays
that no operation names. The lemmas are about plans: a total order of a finite set has an
ordered sequence (`OrderExists`), which names each element once (`OrderedIsComplete`), and
every copy has a first one (`FirstCopyIsFirst`).

**LearnedSkillsProofs.** `TypeCorrect`, `PublicationInvariant` and
`PublicationsAreLocal` hold for any number of evolvers, skills, foreign edits, faults
and crashes: whatever interleaves, a skill changes by a foreign hand, a rollback, or
the publication of an evolver whose agent changed it. `SoleEvolverIsAtomic` assumes
one evolver (`SoleEvolver`) and proves `AllOrNothing`; it
exempts runs whose last rollback itself fails (`pc = "torn"`). Its invariant
`ProgressInv` follows a run: until publication the tree is what the checkpoint found;
during it, names to do are as before, names done are as staged, and the one in work
is, file by file, one or the other or empty; in a rollback the same holds with the
snapshot as source. `SoleEvolverIsReadable` adds what the run knew when it was accepted
(`CatalogInv`: the tree was readable, what was replaced is valid). `SoleEvolverTellsTheTruth`
also assumes that the glob lists every skill (`GlobSeesAll`; section 3 says what happens
otherwise): then what a run declares as merged is what its agent has removed from the catalog
(`MergedInv`), it is gone from the tree, and both validators accept the report
(`CoordinationFollows`).

**HostQueuesProofs.** `StepsOfNext` says what each of the many steps of port and SDK does to
the background queue and to the ends of sessions; the invariants are then about those few
abstract steps. `TurnsRunOnce`: what waits is newer than what runs, which is newer than what
is through (`QueueInv`), so turns run once and in order, in both ports. `FailuresAreThrown`
rests on it (a turn that fails has not failed before) and on `FailInv`: a failure is in one
place at a time, `failures`, the hands of one end, `thrown` or `masked`. `EndsFollowTurns`
rests on it and on `TurnInv`: a reported turn is through, runs or waits, and what an end
awaits holds every turn before it that is not through.
`RequestInv` ties the port to the SDK: what waits in the lifecycle queue, runs or is answered
has been asked for, once. `PublishedSkillsAreDreamt` follows a turn through the three loops
from there (`LearnInv`). `AgentsGetTheirModel` needs to know whose context is set: while Pi's
host waits for an end, that end is the only one and nothing is queued behind it (`AwaitInv`).
`CallsAreLearnedInTime`: a call in the buffer is later than the last turn of its session that
has begun (`BufferInv`). Any number of sessions, events and failures, and any gate.

**WorkerBridgeProofs.** `BridgeInvariant` for any number of callers, commands, model requests,
worker deaths and garbled lines. A command is in one place, on its way, running or answered,
and belongs to the request in progress or to one that has raised (`CommandInv`); until one has
raised, one thing happens at a time between the two processes (a line goes in, a command runs, a
line comes out, or the model is asked), nothing outside a request, and the buffer holds nothing
but garbage (`PipeInv`). `AnswersAreOwn` rests on the check of the id, as the code does;
`CommandsDoNotRunOn` and `BufferHidesNothing` rest on `CommandInv` and `PipeInv`.
`BridgeImplementsRequests` maps every step to one of `Requests` or to a stutter
(`RefinementStep`, a case for each action). That an answer which is read has ended only once needs
`StreamInv`: in what is in the buffer and the pipe together no answer stands twice
(`StreamRead` for a line that is read, `StreamGrows` for one that is written).

**OpenCodePortProofs.** `PortInvariant` for any sessions, turns, idle events, failures and any
message limit. A dispatch that is not settled is reached over `after` from all later ones and,
while the session is open, from the tail (`ChainInv`, `AfterInv`), so that at most one dispatch of
a session is between question and answer (`OneAsked`); it has one task in the SDK's queue, and a
session that is being deleted one sweep or end (`TaskInv`). What was handed over is learned, in
the table or queued, and the sweep finds nothing coming (`GivenInv`); a call is in the port's map
or was handed over (`CallsInv`). `ReadInv` says of a dispatch what it read and that what counts as
delivered was read by one that was learned. From these follow `DoneDispatchesAreLearned`,
`DeletedSessionsAreForgotten` and, as an action property, `DeliveredIsNeverOlder`.

**OperatorsProofs.** For inputs of any size, not only those of the run. Where one would
use induction over a list, the proofs take the first place that goes wrong, which the library's
theorem on least elements of sets of numbers gives (`LeastOf`), or count, with a bijection
between the two lists. `TracesOfPasses`: the window is the shortest suffix with
the messages it should show, and the overlap that `appendSourceTrace` finds is the longest.
`AnyHostIsAlwaysRead`: a transcript's reading is fixed by what each of its places yields, so it
is enough to show place by place which calls a reading keeps, and that the output of each is the
text of the last result that names it. Transcripts mix roles, kinds of parts and ids at will. `AnswersAreAlwaysComplete`: the pages that the footers of `read` name are
disjoint and cover the file (`FootersTile`), and a search that returns as many as its limit says
so. `InstallsConverge`: a case for each state of the config file and of its marker.
`SkillsArePublishedOrRefused`: checkpoint, finalize and rollback file by file
(`AlwaysPublishedOrRefused`, for any root before the check and any that the copy may leave).

**SessionLifecycleProofs.** For any hosts, sessions, numbers of messages, failures and crashes, and
any window and context. What windows, traces and overlaps of `SourceTrace` are comes from
`OperatorsProofs` (`WindowSet`, `AppendTraceFacts`, `OverlapIsLongest`).
`LifecycleInvariant` then says that a pass holds what was new when it began (`PassInv`), that the
tasks of a session come as turns, sweep, end (`QueueInv`), and that what is behind a cursor was
learned or skipped, what an agent failed on is still in the array or was, and a cursor beyond the
array is that of a session that is over (`CursorInv`). It gives `NothingIsPassedOver`,
`SessionsEndLearned` and `FailuresAreRetried`. `TracesAreEvidence` has one invariant for each case
of what it promises. `CleanInv`: where spans are closed, no line is redacted. `EvidenceInv`: the
last `MaxMessages` messages behind the cursor are in the trace, because a window may reach that
far back. For hosts that hand over each message once, `FreshInv` orders trace, array and queue,
`OrderInv` orders the trace, and `NewInv` keeps new messages out of the trace until a pass
appends them. For hosts that replay, `ReplayInv`: what is queued and what
is behind the cursor are beginnings of one transcript, in the order of their length, and the
trace holds, below its newest line, all that a window over them holds (`Covered`). The attempt to prove
`TraceInOrder` without `CursorDiesWithArray` for those hosts failed at a cursor that survives
its array, and is a condition now (section 3).

**MemoryStoreProofs.** For any finite set of memories, any prompt builds and any bounds.
`FilesInvariant`: no two memories have files of one mtime (`StampsDiffer`), at most one file is
being copied over and it is the newest (`CopyInv`), only that one and damaged ones are torn
(`TornInv`), and of the files of a memory that can be read the newest holds what was written last
(`DueInv`). All the actions of writers are first reduced to what they do to one file
(`FileStep`). `NewestStays` is `DueInv` with `StampInv`. `ReportsAreTrue` adds what a writer
remembers between its scans (`ListedInv`: what it has listed is older than anything written
since, and complete unless `crowded`) and `WroteInv`. `PromptsInvariant` gives each stage of a
prompt build what it may rely on (`PromptOK`), while `MEMORY.md` (`IndexInv`) and the cache
(`CacheInv`) are replaced by anyone; while a build counts as alone no other is under way
(`AloneInv`), so that the index it reads is younger than its walk. `StoreMoves` is all it needs to know of writers: a file goes only by removal or for
a newer one. `CapKeepsNewest` is the lemma on sorted lists that are cut. It gives
`LonePromptsAreExact`, `AutoThrowsForRemoved` and `VectorsAreOwn`, for any table of paths: what a
build looks up is of its line because a cache entry is used only for the very line it was stored
with (`Hit`), and because nothing else has its path, which `Unshared` assumes.

The assumptions beyond bounds and distinct model values: a lock times out after three intervals
or more and a heartbeat may take its period at least (`TimeoutAssumption`,
`EnvironmentsAssumption`), a window holds a message at least (`WindowAssumption`,
`PortAssumption`), a search returns a match at least (`SearchAssumption`), the adapters' tables
are lists of bindings (`WiringAssumption`), the names of memories are a finite set and `NoFile` is
no file and no misread path is a name (`MemoryStoreAssumption`), redacting twice is redacting once
(`StoreAssumption`), and the store that a pre-pass finds is finite (`PrepassInit`).
The theorems on one evolver assume `SoleEvolver`, the last also `GlobSeesAll`.

Every safety property and every refinement that a passing run checks is stated by one of these
theorems. Only model-checked:

- liveness (`BoundedWait`, `QueueDrains`, `OpenGateIsServed`, `TurnsSettle`), which is out of the
  prover's reach;
- that the properties can fail at all, which the mutants of `PROJECT.json` show;
- `LearningLoop` but for what `HostQueuesProofs` says of it under the two ports;
- the two runs that find a violation.

## 7. What is not modelled

- Texts: prompts, formatting and parsing of frontmatter, secret patterns, audit lines, log
  lines, the replacement strategies of the edit tool, the matching of glob and grep patterns.
- `atomicWriteFile` is one step: it writes a temporary file and renames it.
- `DreamPrepass` scans everything, the code the newest `MAX_SCAN_ENTRIES` files; the
  move of a root file is one step (`MemoryStore` has its parts). The consolidation agent's
  own writes are left out.
- `LearnedSkills` leaves out a `skillsRoot` that does not exist yet and a directory that
  is empty between `mkdir` and the first copy; a text is valid or not (the rules are in
  `SkillPackages`). A catalog read that throws has changed nothing, and is the run that did
  not begin.
- `MemoryStore` has one type directory; the `stat` and the header read of a file are one step,
  as are the two syncs of `save`; a directory that is removed during a walk is not modelled.
  Which records a search selects is left open, only their number is given; that the
  80 records which the dense ranking returns exceed the limit is assumed. How a line is parsed is
  a table; what is at a misread path where a memory is not (`"absent"`, `"present"`) stays so. Aging
  hints, the byte limit of the index and skill recall are texts. An embedding provider answers or fails.
- `HostQueues` leaves out `attachPiScribe` and its binding, Pi's idle timer and the model calls
  themselves. `HostMessages` assumes the folding of tool calls on (`MEMFLYWHEEL_FOLD_TOOL_CALLS`), and that
  the words of a message are in its content or in its field `text`, not in both. Calls whose name is
  missing are dropped by all readings and left out; so are ids that are empty strings, and
  inputs that cannot be read: Pi's drops such a call, the adapter keeps the text, and
  OpenClaw's throws, so that the whole transcript is lost (`openclaw-port.ts:144`). The parts
  of an OpenCode message (`hostMessagesFromOpenCodeSessionMessages`) are a shape of their own that no
  other reading knows.
- `SkillPackages` takes the listing and the snapshot of a checkpoint (`learned-skill.ts:279-283`), and each
  listing of finalize, as one step.
- `OpenCodePort` leaves out prompt building, which changes nothing but the last session id,
  and the choice of the model. `WorkerBridge` leaves out the size of pipes: a worker
  that blocks in a write to a full stdout while the provider blocks in a write to a
  full stdin waits for ever, because writes have no deadline; stderr is read only
  after the end.
- Agent runners are a loop around a model, and appear as an agent that returns or throws. The
  registry, the installer's command line, embeddings, examples and end-to-end tests are
  configuration, packaging or I/O without state that interleaves.

Seen while modelling, in text handling or in corners that no run covers:

- `editTool` makes a single replacement with `current.replace(old, new)`, which expands `$&` and
  `$$` in the new text; the replacement of all does not.
- `agent-runner.ts` has no limit of its own on steps beyond the one it is given, where comments
  of its callers speak of a hard cap.
- `applyAgingHints` looks for a line by the bare file name, and may mark another one.
- The glob `**/*.md` does not match files of the root itself.
- `finalizeLearnedSkillCheckpoint` keeps supporting files that the new package no longer has, and
  a refusal after the copy leaves the copy in place until a rollback.
- `normalizeMessages` drops timestamps. A call that is in the transcript without its result keeps
  no output, also when the telemetry had it.

## 8. Plan

Done, in order of importance: `Mutex`, `RootLock`, `SourceTrace`, `SessionLifecycle`, `DreamGate`,
`DreamPrepass`, `LearnedSkills`, `OpenCodePort`, `Requests`, `WorkerBridge`, then `MemoryStore`,
`LearningLoop`, `HostQueues`, `HostMessages`, `FileTools`, `Wiring`, `SkillPackages`, `Operators`,
and their runs; proofs of every safety property and refinement that a run checks.

An abstract memory store is not a module of its own: the history variable `due` of `MemoryStore`
is its state, and `NewestIsKept` what a refinement would say.

To come:

1. An abstract specification of what the ports owe the SDK (each session a sequence of
   deliveries, then one end), implemented by `OpenCodePort` and `HostQueues` for sessions that
   are not deleted in flight.
2. The replacement strategies of the edit tool and the matching of skill recall, as operators
   against reference definitions.
