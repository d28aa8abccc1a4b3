# ClamBot in TLA+

ClamBot is a personal assistant: messages arrive from chat channels or from a
scheduler, a language model writes small sandboxed scripts ("clams") to answer
them, and the tools a script calls are guarded by approvals.  The gateway is one
Python process with one asyncio event loop; scripts run in threads beside it,
and a handful of files hold everything that must survive a restart.

The hard part of the program is not what a handler does but what happens between
two of its awaits, and between two processes that rewrite the same file.  This
directory models that: the scheduler, the agent loop and the scripts it keeps, the
execution and approval of scripts, the conversation and its memory, the orchestrator
that ties them together, what a chat sees of all this, the Codex provider, and the
three files that gateway and command line share.  TLC checks each module
on a small instance; TLAPS proves the main results for every value of the constants.

Line numbers in comments refer to `src/clambot/`, unless they start with `docs/`
(`src/docs/`).

## Modules

| Module | Models | Checked by | Proved in |
| --- | --- | --- | --- |
| `CronService` | `cron/service.py`, `cron/store.py`, cron pruning of the heartbeat, restart | `MCCron` | `CronProofs` |
| `CronPromise` | what the cron service promises (abstract) | refined by `CronService` | `CronProofs` |
| `CronSchedule` | `cron/schedule.py` around a change of zone offset | `MCSchedule` | `CronProofs` |
| `ClamRuntime` | `agent/runtime.py`, its sandbox thread, `agent/approval_gate.py` | `MCRuntime` | `RuntimeProofs` |
| `ApprovalPolicy` | what the gate promises (abstract) | refined by `ClamRuntime` | `RuntimeProofs` |
| `Session` | `session/`, `agent/turn_execution.py`, `memory/`, `/new` | `MCSession` | `SessionProofs` |
| `Gateway` | `gateway/orchestrator.py`, the inbound queue, waiting secrets | `MCGateway` | `GatewayProofs` |
| `AgentLoop` | `agent/loop.py`, `agent/clams.py`, `agent/workspace_clam_writer.py`, clam and build pruning of the heartbeat, the cron executor | `MCAgent` | `AgentProofs` |
| `Channel` | `channels/telegram.py`, `channels/manager.py`, what `gateway/orchestrator.py` emits, how the channels are stopped | `MCChannel` | `ChannelProofs` |
| `CodexProvider` | `providers/openai_codex_provider.py` | `MCProvider` | `ProviderProofs` |
| `SecretStore` | `secrets.json`: `tools/secrets/` | `MCFiles` | `FilesProofs` |
| `JobsFile` | `jobs.json`: `cron/store.py`, the service, the pruning, `clambot cron` | `MCFiles` | `FilesProofs` |
| `ConfigFile` | `config.json`: `workspace/onboard.py`, `cli/commands.py`, the approval gate, `providers/litellm_provider.py` | `MCFiles` | `FilesProofs` |
| `SharedFiles` | the three files together | `MCFiles` | `FilesProofs` |

Operators whose comment starts with "Mutant" are faulty variants of the
definition that follows them.  Nothing uses them; put in its place, each makes
TLC report the property it is meant for, which shows that the property says
something about the code.

## Inventory

For every component: the state it keeps, its operations, whom it talks to, what
is hard about it and what makes it correct.

**Cron service** (`cron/service.py`).  State: the job objects, the set of stored
ids, `jobs.json`, `_running`, a change event, and the position of one scheduler
coroutine.  Operations: `start`, `stop`, `add_job`, `remove_job`, `enable_job`,
`disable_job`, `run_job`, the loop `_run`/`_execute_job`.  Called by the cron
tool, by commands and by `gateway/main.py`; calls an executor that starts a whole
agent turn.  Hard: every executor is an await, so jobs change under the pass
that works through them; the file is written once per pass; the heartbeat
rewrites the same file; a restart recomputes every next run.  Correct when no
accepted job is lost, none is slept over, and a crash undoes a bounded amount.

**Cron schedule** (`cron/schedule.py`).  Pure: the next run after an instant.
Hard: wall-clock arithmetic across daylight saving.  Correct when the next run is
later than now and no named instant is skipped.

**Clam runtime** (`agent/runtime.py`, `agent/runtime_backend_amla_sandbox.py`).
State: per execution a coroutine waiting with a timeout, a daemon thread, and a
flag by which the thread buys time for a human.  Correct when every execution
returns, a human gets the promised minutes, and nothing runs unapproved.

**Approval gate** (`agent/approval_gate.py`, `agent/approvals.py`).  State: pending
records, turn grants shared by all turns, always grants in the configuration
file.  Operations: `begin_turn`, `evaluate_request` (from threads), `resolve`
(from the loop), `wait_for_resolution`.  Hard: answers before, during and after
the wait; two answers; a configuration file that cannot be written; concurrent
turns over one list.

**Session manager and compaction** (`session/`).  State: a cache of turns per key
and an append-only JSONL file.  Operations: load, append, rewrite (compaction),
clear, reset.  Hard: failed and torn writes, crashes between two appends, files
deleted by the heartbeat, an LLM awaited between the cut and the rewrite.
Correct when the history tells each thing once and in order, and the cache agrees
with the file.

**Turn execution and memory** (`agent/turn_execution.py`, `memory/`).  One agent turn:
load history, compact, run the agent, append question and answer, extract facts
in the background.  State: `MEMORY.md`, `HISTORY.md`, one lock.  Hard: overlapping
extractions, and `/new`, which consolidates without the lock.

**Gateway orchestrator** (`gateway/orchestrator.py`, `bus/`).  State: the inbound
queue, `_pending_approvals` (questions and, under `secret:` keys, requests that
wait for a secret).  Operations: routing of `/approve`, `/secret`, `/new` and
plain messages, a task per message, `process_inbound_async` for cron and heartbeat,
re-queueing.  Hard: an answer must overtake the turn that waits for it; a turn goes on
after it reported missing secrets, and its request waits meanwhile; a request may start
several times; messages are taken for secret values.

**Agent loop** (`agent/loop.py` with selector, generation and analysis).  Selection,
a plan of several tasks, generation, execution, post-runtime analysis (twice, when
it asks for the full output), self-fix retries; `execute_clam_direct` for scheduled
clams.  State: of one turn, an attempt counter, the steps left of its plan, the clam
at hand.  Hard: several causes of retry share one budget, and turns that know
nothing of each other generate under the same name.  Correct when retries are
bounded, every turn returns, and what is kept is what was accepted.

**Clam store** (`agent/clams.py`, `agent/workspace_clam_writer.py`).  State: clam
directories, build directories, a usage file and its cache.  Operations:
`write_to_build`, `promote`, `load`, `record_usage`, and the heartbeat's pruning of
both kinds of directory.  Hard: promotion deletes before it moves, the heartbeat
rewrites the usage file under a cache that is never reloaded, saves fail silently.
Correct when a clam in use stays and leftover builds go.

**Heartbeat** (`heartbeat/service.py`, `workspace/cleanup.py`, `workspace/retention.py`).
A periodic turn, and pruning of clams, builds, session files and cron jobs owned by
the other components.

**Secrets** (`tools/secrets/`).  State: one file, read, modified and written by
threads, by the loop and by the command line without a lock.  A value comes from the
caller, a named variable, the file, or a variable of the secret's own name.  Hard: three
steps of a save (resolve, read, rename) with others between them; an opener that finds
no file and writes an empty one later; a file that holds no object, or cannot be
read.  Correct when a secret everyone has read survives everybody's saves.

**Telegram channel** (`channels/`).  State: a typing loop, a status message and a
"done" mark per turn, short ids and keyboards per approval.  Operations: the update
handler (messages, media, taps), the dispatcher that sends one outbound message after
the other, the typing loops, `stop`.  Hard: each of them awaits the Telegram API,
which may fail, or act although its answer is lost; progress alternates with
questions; keyboards are tapped twice, or before their id is known; shutdown cancels
whatever is awaited.  Correct when nothing of a turn is left behind, an answer arrives
whole, and a question gets one answer.

**Codex provider** (`providers/openai_codex_provider.py`).  State: the discovered default
model, shared by all calls; per call the tool calls open in its stream.  Hard: one
discovery for calls that overlap; parallel tool calls whose pieces alternate, lose
events or break off.  Correct when the default settles and no call gets a piece of another.

**LiteLLM and custom providers** (`providers/`).  One LLM call, repeated once where a
thinking model says nothing; the model is then remembered in `config.json`.

**Configuration, CLI and onboarding** (`cli/`, `config/`, `workspace/onboard.py`).  State:
`config.json`, `jobs.json`, `secrets.json`.  Every command is a process of its own that
reads a file, changes it and writes it back, while the gateway does the same.  Hard: what a
program wrote from an old reading; a file that is being written, or is no JSON, when it
is read.  Correct when a setting, a grant, a job or a secret that all have seen stays.

**Gateway start and stop** (`gateway/main.py`), **tools** (`tools/`), **prompt context**
(`agent/context.py`), **capabilities** (`agent/capabilities.py`), **async runner**
(`async_runner.py`).  `PROJECT.json` says of each what is modelled and why the rest is not.

How they interact: a channel puts an `InboundMessage` on the queue; the orchestrator
gives it a task; the task is a turn, which reads the session, runs the agent loop,
which executes clams in the runtime, which asks the gate, which shows a question
through the channel; the answer comes back through the queue.  Cron and heartbeat
enter beside the queue.  Shared state: the gate's grant list, the session cache,
`MEMORY.md`, `_pending_approvals`, the outbound queue; and, with other processes,
`secrets.json`, `jobs.json` and `config.json`.

## How the modules correspond to the code

An action is what one actor does between two points where another may run: two
awaits on the event loop, or two accesses of shared state in a thread.

**CronService.**  `pc` is the position of `_run`: `ready`/`check` (top of the loop),
`pick` (between two jobs), `exec` (awaiting an executor), `plan`, `wait`
(sleeping), `stopped`, `down` (no process).  Calls of the API (`AddJob` and so on)
are enabled at awaits only (`AtAwait`); `Tick` and `Crash` anywhere.  `job` holds
the Python objects, also those no longer stored, because the pass keeps a
reference: `AfterRun` works on the object whether or not it was removed
meanwhile.  `disk` is `jobs.json`; `SavedOf` is what a save writes, atomically
(temporary file and rename).  `RunJob`/`RunJobDone` are `run_job` before and after
its await.  An executor that raises and one that returns do the same to the
state modelled.  `added`, `ran`, `withdrawn` are history.

**CronSchedule.**  Instants are minutes; `Wall` is the reading of the clock, `ToInstant`
is `datetime.timestamp()` with `fold=0`, `Scan` the minute-by-minute scan, which
stays in wall time.  The sizes of an hour and a day are constants.

**ClamRuntime.**  `main[r]` is the coroutine `execute` (waiting, extended, timed out,
done), `thread[r]` the sandbox thread: `asking` (record created), `emitted`
(question sent), `blocked` (flag set, future handed to the loop), `waiting`
(`wait_for_resolution` found the record), `dispatch` (allowed).  The thread
goes on after a timeout, as the daemon thread does.  `Allow` has a parameter for
a configuration file that cannot be written, in which case `event.set()` is
never reached.  What a scope covers is a constant: `Inferred` for a plain
allow, `Offered` for the "always" button.  `turnGrants` belongs to no turn, as in
the code: what one turn was granted, another may use until a turn begins.

**Session.**  One session key (keys share nothing).  A turn is a role and the set of
utterances it stands for: a question or an answer stands for itself, a
compaction summary for all it replaced, and the error text of a failed LLM call
for nothing.  `held` and `seen` are what a task read before its await.
`FileWith` and `TornWith` say what an interrupted append leaves: a torn line
swallows the first line written after it.  `CopyOf` marks the re-queued copy of a
request (`secret_resume`), which is not recorded again.

**Gateway.**  `inbox` is the queue, `pending` the `secret:` entries in dict order
(`Put` keeps the place of an existing key), `turns` every agent turn begun so far, each
at the await the orchestrator knows it by.  A turn executes clams one after the other,
as the steps of its plan and their retries ask for (`Clams[p][i]` is what the i-th may
be); between two executions it is "between".  `Report` is `secret_pending`: the request
waits from then on, but only the step is over, and the turn executes the next clam or
ends.  `asked` is `approved_tool_calls`; what is asked after a report is granted only by
the next one.  `no` and `carried` are history: which report a message answers, and how
much of `asked` a report has seen.  `Route` has one disjunct per branch of
`_process_inbound`; `Within` is the substring test by which `/secret A` also finds a
request that waits for `AB`.  `Inject` is `process_inbound_async`.

**AgentLoop.**  `phase[t]` is the await a turn is at; an action runs from one await to
the next, so promotion, usage record and the end of the task are one step
(`Accept`), which a crash may still interrupt (`CrashInAccept`).  What an LLM, the
runtime or a tool answers is a choice among the branches the code has for it.
`Retry` is the one budget of `_generate_and_execute` and `_execute_and_analyze`;
`RunSteps` runs a plan: steps that await nothing happen at once, the next one that
awaits starts with a fresh counter.  A script is known by the generation it comes
from, a build by its script and the age of its directory, which rewriting its files
does not renew.  `usage` is the registry's cache, `usageFile` the file it never reads
again; `used`, `forgot`, `tries`, `accepted` are history.  Ages are old or fresh: past
`stale_clam_days` or not.  `Prompts` are turns of a cron job without a clam, whose
`clam_name` the executor caches in `jobs`; `StartDirect` and `EndDirect` are
`execute_clam_direct` around the runtime.

**Channel.**  Three parties: the library's update handler (`tap`, and a message whose file
is being downloaded), the dispatcher (`call`: the message being sent and what its
`send` awaits), and the turns, which emit what the orchestrator's callbacks emit.
An awaited API call is two steps with three outcomes: `ok`, `failed`, and `lost` (it took
effect and raised).  A keyboard is in the chat (`BoardShown`) before its `send` returns
(`BoardSent`), so that a tap may fall between.  `Send` is `_delete_status` and what
follows where there is no status message; `Post` is where a text, a secret's request or a
keyboard really begins.  A text is a number of chunks, each sent as MarkdownV2
(`rich`) and, if refused, as plain text.  A turn that no update started emits the same
messages and nobody types for it.  `told`, `slipped`, `hurt`, `silent`, `answered` are history.

**SecretStore, JobsFile, ConfigFile.**  What a program read stays in `loaded`, `theirs`,
`pruning`, `read`, `known` until it writes; what it writes is computed from that, not from the
file.  `secrets.json` and the `jobs.json` of the service are renamed over, so there is no
partial file; the pruning and all writers of `config.json` write in place, so their file is
empty for a while (`Prune` to `PruneWrites`, `Truncate` to `Write`).  A record of a secret
names the saves its parts come from.  A setting is given or not; a job is there enabled,
there disabled, or not there.  `Open` and `CreateEmpty` are the two halves of
`_ensure_permissions`.  `Blank`, `Remember` and `RetryFails` are the LiteLLM provider's
second call.  `SharedFiles` lets a behaviour be about one of the files; they share no
variable, and `FilesStay` carries over what is proved of each.

**CodexProvider.**  `stage[c]` is the await a call is at.  The service's list of models is one
of `Offers`; a tool call is its `Pieces`, which the service sends in order and which may come
between those of another; an event may be no JSON (`Garble`), and a stream may end or break
anywhere.  `Earlier` and `Picked` are the version order and the choice of a model.

## Runs

| Run | Question | Result |
| --- | --- | --- |
| `cron_service` | Does the service keep its jobs, its file and its wake-ups through concurrent calls, pruning and a crash? | holds |
| `schedule_forward` | With clocks set forward, is the next run later, and is no instant skipped? | holds |
| `approval` | Do gate, threads and timeouts implement the policy; does everybody get on? | holds |
| `session` | Is the conversation told once, in order, the same from cache and file? | holds |
| `session_new` | Does `/new` keep what it did not consolidate (`docs/features.md:320`)? | violated |
| `gateway` | Is each report resumed once, nobody asked again, every answer let through, and does the queue settle? | holds |
| `gateway_forgotten` | Does a request that waits for a secret get resumed (`docs/features.md:482`)? | violated |
| `agent` | Are retries bounded, do turns return, do clams in use stay and leftover builds go? | holds |
| `agent_kept` | Is what is kept in `clams/` what the analysis accepted (`README.md:30`)? | violated |
| `channel` | Is nothing of a turn left in the chat, are answers whole, is a question answered once? | holds |
| `files` | Do secrets, jobs and settings survive everyone who rewrites their file? | holds |
| `provider` | Does the default model settle, and does each tool call come with its own pieces? | holds |

### What the passing runs show

* `SleepCoversNextRun`: no order of calls leaves the scheduler asleep past a run.
  It is the reason why the loop clears its event in the same step in which it
  computes the sleep.
* `JobsFileLag`: memory and `jobs.json` differ only in jobs the current pass ran
  and in disabled jobs that were pruned.  That bounds what a crash undoes.
* `KeepsPromise`: the service implements `CronPromise`.  The debt is read off the
  FILE, so a crash is a stutter: what a restart reads still owes every accepted
  job that neither ran nor was withdrawn.
* `OneShotServed`, `DueServed`: an owed one-shot runs, also when it came due while
  the gateway was down; and while the process lives no due job stays due.  A death ends
  the second promise, since a restart plans recurring jobs anew (see below).
* `NextIsLater`, `NoMatchMissed`: in a zone that skips an hour, for every
  expression.
* `KeepsPolicy`, `UnansweredNeverRuns`: nothing runs that was never
  allowed, not even through a late, doubled or unsaved answer; a denied or
  unanswered question is never dispatched.
* `HumanGetsTime`, `ExecuteReturns`, `AskReturns`: the human's time is granted, and
  neither side waits for ever, even when the event is never set.
* `Chronicle`, `PairsAdjacent`, `CacheIsFile`: the history a turn or a restart
  reads tells each utterance once and in order, a question next to its answer, and
  restarting changes nothing unless a write failed or the file was deleted.
* `CompactionExact`, `FactsStay`: an undisturbed compaction loses nothing and keeps
  the recent turns verbatim; overlapping extractions lose no fact.
* `ResumedOnce`, `NotAskedAgain`, `AnswerGetsThrough`, `Settles`: what a sender sent and
  what a report left waiting is queued, waiting or run by a turn, at one place, so that no
  report starts its request twice; nobody is asked again about a tool that a turn asked
  about before it reported; an answer reaches a turn that waits for it, whatever else is
  queued; messages taken for secrets do not re-queue each other for ever.
* `RetriesBounded`, `TurnEnds`: however grounding errors, runtime errors and verdicts
  alternate, a task generates at most `max_self_fix` times again, and no chain of
  plans, retries and second analyses keeps a turn from returning.
* `UsedClamsStay`: a clam disappears only when it was not used for `stale_clam_days`,
  or when a failed save or a crash lost the record of its use; concurrent
  promotions, direct runs and the heartbeat's rewriting of the usage file do not lose it.
* `OrphansVanish`: a build nobody promotes is pruned, unless its name has become a clam.
* `RestIsClean`, `TypingEnds`: progress, keyboards, an emptied `_status_done`, failed
  calls and a shutdown leave neither a "..." nor a typing loop, except what a lost answer or a
  failed deletion leaves, and the typing of a denied source and of a command that raised.
* `AnswerWhole`: an answer's chunks are in the chat once and in order, through any
  mixture of refused formatting and failures, unless an answer to a call was lost or a
  plain chunk failed.
* `AnsweredOnce`: however often and wherever a keyboard is tapped, the gate is told one
  answer, and the keyboard has gone by then unless the tap overtook the answer to its
  send or the deletion failed.
* `SecretsStay`: a secret that the file and everyone in the middle of a save has survives
  every save, failure, opener and broken file; only an editor who leaves a list in the file
  ends it.  Where its hypothesis fails is the lost update: a save that read the file
  earlier removes what was added since.
* `JobsStay`: a job that the file and all who are about to write it have, enabled, is lost to
  nobody who did not mean it, through restarts, failed saves and prunings.
* `SettingsStay`: likewise of a setting or an always grant in `config.json`, unless somebody
  reads the file while it is no JSON, dies writing it, or two texts mix.
* `CallsWhole`, `DefaultSettles`: each tool call a stream completed is returned once with its
  own pieces in their order, whatever alternates with it; when the one discovery has ended, every later
  call that names no model asks for the same.

### What the violated runs show

`PROJECT.json` quotes the sentence each of them contradicts.

* `session_new`: consolidation swallows its failures, so `/new` clears the file although
  nothing was consolidated.
* `gateway_forgotten`: waiting requests are keyed by the missing names alone; a second
  request overwrites the first.  `ForgottenByNamesakesAlone` proves that this is the only
  way in which a waiting request is lost.
* `agent_kept`: `promote` is called by name.  When the accepted clam is an existing one,
  or two turns chose the same name, it moves a script nobody accepted over the one
  that was.

Disagreements met while modelling that have no run:

* `start()` of the cron service recomputes every next run, so an interval or cron job
  overdue at a restart is planned anew, not run (`docs/cron.md:383`).  `DueServed` excludes it.
* A job disabled while a pass is in progress is still executed by that pass
  (`docs/cron.md:396`).
* Turn grants carry no turn: a late ALLOW of one turn serves a call of another
  (`agent/runtime.py:66`), and the turn that begins clears those of the others
  (`agent/approval_gate.py:78`).  `KeepsPolicy` is about what users allowed at some time.
* A turn that reports missing secrets goes on with the next step of its plan
  (`agent/loop.py:482` looks at no status), while its request waits: `/secret` then starts it
  beside the turn, and two reports under two keys start it twice.  What is asked after the
  last report is not carried over (`gateway/orchestrator.py:380`), so the re-queued run asks
  again, which the comment at `:338` says it need not.
* `abort()` does nothing: a script reported as timed out still dispatches tools
  (`docs/features.md:156`).
* The wildcard grant `secret_pending` leaves behind covers tools the user was ASKED
  about, also those denied (`gateway/orchestrator.py:338` and `:352`).
* The cron executor caches the `clam_name` of every result, also of a failed or
  waiting turn, as that of "the promoted clam" (`gateway/main.py:115`); the job then
  fails for ever with a clam that is not found.
* Telegram hands only non-commands to its message handler (`channels/telegram.py:163`), so a
  typed `/secret`, which the bot itself suggests (`:397`), or `/approve` never arrives.
* With clocks set back, the scan of a cron expression forgets which pass of the repeated
  hour it is in (`cron/schedule.py:140`): the next run lies in the past, and the job runs
  in a loop until the hour is over.
* The provider reports its failures as content (`providers/litellm_provider.py:155`), and
  `session/compaction.py:102` takes the error text for the summary of everything older,
  although `session/contract.py:16` asks it to preserve all facts.
* A description without ASCII letters or digits gives the empty clam name, and promoting it
  replaces the whole of `clams/` (`agent/workspace_clam_writer.py:72`; `:55` says one clam).
* `start()` saves the jobs it loaded, and loads an unreadable `jobs.json` as an empty one
  (`cron/store.py:137`); an `OSError` in the save that ends a pass escapes `_run` and ends
  the scheduler task (`cron/service.py:148`).  `DueServed` holds of a scheduler that saves.
* The gateway's cron service saves its jobs from memory, so what `clambot cron add`, `remove`
  or `enable` wrote meanwhile is gone with its next save (`docs/cron.md:277-314`).
* `onboard` "never overwrites existing values" (`workspace/onboard.py:8`), but overwrites a
  `config.json` that does not parse.  A `secrets.json` that holds a list is taken for an
  empty one by the next save, which writes it (`tools/secrets/store.py:112`).
* The typing indicator of a source that `allow_from` refuses is started before the refusal and
  runs until the gateway stops (`channels/telegram.py:543`; `docs/telegram-ux.md:110`).
* Sending an approval keyboard marks the turn done, so that it shows no further status,
  although `channels/telegram.py:690` says that it provides its own.  A keyboard tapped before
  its `send_message` returned stays in the chat (`docs/telegram-ux.md:223`).
* A Codex stream that ends without an event that says so is a success with what came
  (`providers/openai_codex_provider.py:601`).
* Messages dispatched before the Telegram application is up are dropped
  (`channels/telegram.py:217`).

## Bounds

* `MCCron`: two jobs, three kinds of requests (`MCRequests`), a clock 0..2, one crash,
  four API calls.  Two jobs are the least for one to change while the other
  executes; four calls are add, add and two of anything else.  `DefaultSleep` is 3,
  beyond the clock, so a sleep that is wrongly the default is never excused by a
  timeout.  Each hazard of the inventory involves one pass, one or two calls and
  at most one crash.
* `MCSchedule`: an hour of two minutes and a day of three hours, so that all 24
  expressions can be tried at every instant of more than two days; `Limit` 8 exceeds
  a day, so only the expressions that name no hour run out of it; one shift
  of one hour.
* `MCRuntime`: two turns, two executions and two approvals, which gives a grant two
  places to leak to, a retry in one turn, and two threads against one gate.
  The write's grant also covers the read, as `path_prefix` scopes do.
* `MCSession`: two exchanges (one without an answer), a re-queued copy, one `/new`, a
  legacy file, one fault (failed or torn write, unreadable or deleted file, crash),
  `Keep` 1.  Three runs suffice for a compaction with one run overtaking it and
  one before it.
* `MCGateway`: a chat message whose plan has two steps, the first of which misses `A`
  and the second of which calls a tool and misses `B`, and a cron prompt that misses `A`;
  `A` is a part of the name `B`; one typed `/secret`.  That is enough for equal keys,
  overlapping keys, a turn that goes on and reports twice while its request is started
  again, a request taken for a value, and a prompt that enters beside the queue.
* `MCAgent`: two turns that give their clams the same name, one of which may plan two
  steps and one of which is the prompt of a cron job; one direct run; `MaxFix` 1; one
  fault.  Promotion, use and pruning concern one name, so a second one adds only
  interleavings; one retry shows that all its causes share the budget, which the
  proof extends to any `MaxFix`.
* `MCChannel`: a request with a file that asks for approval, reports two phases and misses a
  secret; a command with an answer of two chunks; a message from a denied source; two
  taps, two faults.  `DoneLimit` is 1 (500 in the code), so that the marks are emptied in the
  middle of a turn.  Two taps are a double tap, or one before and one after the deletion; two
  faults fail a call and its fallback.  `AnsweredOnce` and the types are proved for any number.
* `MCFiles`: four saves of two secrets, with and without a value; two jobs, the gateway and one
  command, three uses (a start, a change, a restart) and one break; a key, a login, a
  gate and a provider that rewrite `config.json`, one grant, one mishap.  One behaviour is
  about one file.  `onboard`, `telegram` and `ollama` differ from the other kinds in
  what they add only; the proof covers all kinds.
* `MCProvider`: two calls that share the default and one that names its model; three tool
  calls of two pieces in one stream, one of them with deltas that carry no `call_id`; four
  lists of models (an old one, ties of version, none of the family, none known); two faults.

`CHECK_DEADLOCK FALSE` is set because every bound lets the system run out of
events, and because the gateway may simply be idle.

## Fairness

* Cron: weak fairness of the scheduler coroutine (the loop runs what is ready and
  every executor returns, since each turn is bounded), of the clock, and of a restart.
  Callers, crashes and the heartbeat are not fair.  `OneShotServed` and `DueServed`
  assume `[]<>running`: after `stop()` nobody is owed anything.
* Runtime: weak fairness of `Main(r)` (timers fire) and `Ask(r)` (an asking thread and
  the loop that serves it go on).  Scripts, tools and users may stop for ever.
* Gateway: weak fairness of `Dispatch`, the orchestrator's main loop, alone.  Turns,
  timeouts and users may stop for ever.
* AgentLoop: weak fairness of the steps of a begun turn (every awaited call returns:
  the LLM clients and the runtime have timeouts), of time passing over a build, and
  of the heartbeat's cleanup.  Messages, direct runs and crashes are not fair.
* Channel: weak fairness of the handler and of the dispatcher (every API call has a timeout),
  of the end of every turn, which `TurnEnds` and `ExecuteReturns` are about, of the typing
  loops, and of the library's `stop()`.  Users, scripts and faults are not fair.
* Session, schedule, files and provider: safety only, no fairness.

## Proofs

All are checked by `tlapm`; they assume only the `ASSUME`s of the modules, which
TLC evaluates in every run.  No bound appears in them: `MaxCalls`, `MaxFaults` and so on
are arbitrary numbers and the sets of constants are arbitrary sets.  That `None` is none of
the values it stands beside is assumed where a proof needs it (`NoneIsNoCall`,
`CodexAssumption`): Python's `None` is no call and no list.

* **CronProofs**: `TypeCorrect`, `FileLagBounded`, `NeverOversleeps`,
  `ServiceKeepsPromise`.  The invariant is
  `TypeOK /\ PassInv /\ KnownInv /\ DiskInv /\ AddedInv /\ JobsFileLag`.  `JobsFileLag`
  alone is not inductive: one must know what `due`, `todo` and `cur` hold at each
  `pc` (`PassInv`).  The refinement needs more: that a job object still in use was
  neither run nor withdrawn only if it is stored and enabled (`KnownInv`), that the
  file disables nothing it still owes (`DiskInv`), and that ids are not reused
  (`AddedInv`).  Every action is then shown to be a step of `CronPromise` or a
  stutter; `NeverOversleeps` adds that sleeping covers the earliest next run.
  The same module has the theorems of `CronSchedule`: `ScheduleTypeCorrect`;
  `NextIsLaterForward` under `Before <= After`, where the wall clock is monotone and
  `ToInstant` maps a later wall time to a later instant; without the hypothesis it is
  false, as said above.  `NothingPassedOver` is `NoMatchMissed` under `HourForward`: the
  zone keeps its offset, or goes one hour forward on the hour, as zones with a summer
  time do in spring.  Outside the skipped hour `ToInstant` is monotone and the first match of the
  scan is the first instant.  Inside it a match moves an hour later, past instants that
  show the same minutes an hour on; one of them that matched would, an hour
  earlier on the wall, be an earlier match of the scan, since all of a skipped hour has one
  hour number (`SameHour`, from the uniqueness of quotient and remainder).
* **RuntimeProofs**: `RuntimeTypeCorrect`, `AnswersDecide`, `FlagIsHonest`,
  `DecisionsFinal`, `HumanAlwaysGetsTime`, `RuntimeKeepsPolicy`.  The invariant adds
  `AllowedInv` to the checked ones: every grant, every approved record and every
  accepted call lies within what was allowed, which is what makes a dispatch a step of
  `ApprovalPolicy`.
* **SessionProofs**: `SessionTypeCorrect`, `RestartLosesNothing`, `CompactionIsExact`,
  `FactsAreKept`, `HistoriesAreChronicles`, `PairsStayAdjacent`.  The first invariant is
  `TurnsInv /\ CacheIsFile`: cache and file are sequences of turns and a waiting
  compaction holds more turns than it keeps, so its cut falls inside; then every write either changes both sides alike or marks the session `hurt`.
  `Chronicle` and `PairsAdjacent` rest on `HistInv`: not only what is loaded and on disk,
  but also what every task read before an await, is a history of the log (`IsHistory`:
  told in order, pairs adjacent, a summary at most at the head), and a run that has not
  ended is not in the log yet (`Silent`), which is why recording it appends something new.
  That a compaction of a stale copy yields a history again is `IsHistory` of a summary of
  its first part joined with the rest (`IsJoin`).
* **GatewayProofs**: `GatewayTypeCorrect`, `ReportsResumeOnce`, `CarriedNeverAskedAgain`,
  `ForgottenByNamesakesAlone`.  The invariant says of every pair of a request and a report
  (0 for its sender) that it has one position, in the queue, in a waiting entry or in a
  turn, and none before it was issued (`OnePlace`); that the waiting entries have different
  keys (`KeysDiffer`), so that one report waits once; and that what a turn asked before it
  reported is granted (`CarriedGranted`).  `ResumedOnce` alone is not inductive: that a new
  report is nowhere yet is what keeps it.  A step moves one pair and
  leaves the others (`OneMoves`), or moves none (`NoneMoves`).  The last theorem follows every step that
  changes what waits: deleting an entry loses no other one (`WithoutLosesOne`), storing a
  secret and injecting re-queue the request they delete, and reporting missing names
  replaces at most the entry under the same key.
* **AgentProofs**: `AgentTypeCorrect`, `RetriesAreBounded`, `UsedClamsAreKept`.  The
  invariant adds to the types that an attempt is counted before it is generated and
  that a task starts with none (`TurnOK`), from which the bound follows.
  `UsedClamsAreKept` needs that the file and the cache know the last use of every
  clam whose use was not forgotten (`Known`), so that pruning by the file is pruning
  by use; it assumes `NoSlug \notin Names`: promoting the empty name deletes every clam.
* **ChannelProofs**: `ChannelTypeCorrect`, `QuestionsAnsweredOnce`, `AnswersAreWhole`,
  `NothingIsLeft`.  The invariant follows a
  question's keyboard: it is queued once, before anybody has seen it (`QueuedBoards`); while it
  is sent it is not on record, and not tapped before it is shown (`SentBoards`); a tap that
  deletes it has taken its id (`Deletes`); and the gate knows nothing of a question whose
  id nobody has taken (`Untold`).  `AnsweredOnce` alone is not inductive: the second tap is
  harmless only because the first has popped the id.
  `AnswerWhole` adds `Answers`: one answer of a turn at most is queued or sent, it is of a
  turn that is over and was not answered, and of the one being sent the chunks before the awaited
  one are in the chat.  `RestIsClean` adds `Rest`: whatever shows a status message or a
  typing loop has something behind it that will end it, the turn itself or a message
  already queued after it; and the chat shows one status message exactly for the turns that
  have one on record or being deleted.
* **FilesProofs**: `SettledSecretsStay`, `SharedJobsStay`, `KeptSettingsStay`, `FilesStay`.  The
  invariants say what the records a program holds are and when it may write
  (`SecretInv`, `JobsInv`, `ConfigInv`); then every action is shown to keep what is settled.
  The last theorem maps a step of the composition to a step or a stutter of each file.
* **ProviderProofs**: `DiscoversOnce`, `DefaultHasSettled`, `StreamsGather`, `CallsAreWhole`.
  `OneDiscovery` (an ended discovery and one under way are marked, and there is one at most)
  makes every step after the end one that changes no default.  The invariant of the
  streams says of every call: what is gathered are pieces of its own that were sent (`GatheredInv`);
  unless an event of it was lost it is open from its first event to its last, with all the pieces
  so far (`OpenInv`); what was returned has had its last event (`ReturnedInv`), so that it
  is returned once; and what had it was returned (`NoneMissing`).

Only model-checked: every liveness property (`OneShotServed`, `DueServed`,
`ExecuteReturns`, `AskReturns`, `AnswerGetsThrough`, `Settles`, `TurnEnds`,
`OrphansVanish`, `TypingEnds`), which with `ENABLED` is out of the prover's reach.  Every
invariant and action property of the passing runs is a theorem; three have hypotheses of
their own: `NextIsLater` (`Before <= After`), `NoMatchMissed` (`HourForward`) and
`UsedClamsStay` (`NoSlug \notin Names`).  What `_pick_most_advanced_codex_model` picks is
defined by `CHOOSE`; that there is a best model in every list needs an induction and is
only evaluated by TLC.

## Not modelled

* What an LLM, a tool or a sandboxed script computes: their outcomes are choices.
* Prompt text, message formatting and chunking, logging, the audit log of cron runs, HTTP
  clients, configuration parsing, the wizard's prompts, `clambot status`.
* The conversion of messages for a provider, the registry and the factory of providers.
* The WASM sandbox, and capabilities, which no running code evaluates.
* Failing reads of `MEMORY.md` and `HISTORY.md`; the scheduler task that ends with a failed
  save; two gateways at once.
* The end of turns, cron and heartbeat at a shutdown: only the channel's is modelled.
* Two sessions at once: they share `MEMORY.md` only, whose extractions are modelled.
* Several chats: the keys of `Channel` are turns and approvals, and a chat adds none.

## Plan

1. Done: cron, schedule, runtime and gate, session, orchestrator, agent loop and clam
   store, channel, the three shared files, the Codex provider, and proofs of every safety
   property of them.
2. `Turn`, a composition of `AgentLoop` and `ClamRuntime`: the outcomes of an execution
   replace the free choice, so that a timed-out script can be followed into the retry
   that succeeds it.
3. `Chat`, a composition of `Gateway` and `Channel`: a question's answer from the tap to the gate,
   and a shutdown with turns in progress.
4. The scheduler task that dies of a failed save, in `CronService`.
5. An abstract specification of what a chat is promised, implemented by `Channel`, from
   the invariants proved.
