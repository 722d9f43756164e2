# Kayaclaw in TLA+

Kayaclaw is a single-user LLM bot: one Python process polls Telegram, keeps the
conversation in SQLite, asks an OpenAI-compatible provider (with optional
fallbacks) and sends the answer back. A separate command, `kayaclaw init`,
asks for the keys and writes `.env` and `config.yaml`; Docker Compose runs the
agent behind an egress proxy whose allowlist is rendered from `config.yaml`.
This directory holds TLA+ models of that code, the TLC runs that check them and
theorems about them that TLAPS proves. `PROJECT.json` is the index: which
definition stands for which lines, which run checks what, which hazard each
property is for.

## 1. Inventory

| Part | Keeps | Operations |
|---|---|---|
| `agent/connectors/telegram.py` | the Application's update queue (in the process), one task's locals | `run`, `_handle`, `_load_env` |
| `agent/runtime.py` | nothing | `reply`, `reply_with_fallback` |
| `agent/memory.py` | the `turns` table on disk | `append`, `history`, opening the file |
| `agent/logging.py` | `_SECRETS` and its lock | collecting at import, `register_secret`, the record factory, the formatter |
| `agent/__main__.py`, `container/entrypoint.sh` | nothing that outlives a start | one start of the agent |
| `agent/config.py` | the configuration, fixed for a process life | `load_config` and the schema's rules |
| `agent/registry.py` | nothing | `resolve` |
| `agent/init/polling.py` | an offset, a deadline | `clear_backlog`, `poll_for_chat_id` |
| `agent/init/cli.py` | the answers of one run | the wizard's steps |
| `agent/init/writers.py` | `.env`, `config.yaml`, their `.tmp` files | `write_files` |
| `agent/init/validators.py` | nothing | the verdict of a provider or Telegram on a key |
| `docker-compose.yaml`, `container/extract-allowlist.sh`, `tinyproxy/generate-config.sh` | the list on a shared volume, the running proxy's filter, the containers | up, down, init, proxy start, agent start, restart |

How they meet:

- The entrypoint checks the mounts. `main` loads the configuration, registers
  each provider's key with the logger, resolves the chain, opens the memory and
  calls the connector's `run`, which reads its own environment, resolves the
  primary once more and blocks in `Application.run_polling`.
- python-telegram-bot's updater calls `getUpdates` and puts updates on a queue
  while a handler runs. The application is built without `concurrent_updates`,
  so handlers run one at a time; the updater runs concurrently with them.
- The offset of a `getUpdates` call makes Telegram forget everything before it.
  An update is delivered again after a restart unless a later call forgot it,
  and one that was forgotten while still in the queue dies with the process.
- `_handle` appends the user's turn, reads the history, awaits the provider
  chain, appends the answer and awaits `reply_text`. `docker-compose.yaml` has
  `restart: unless-stopped`, so a killed process starts again.
- Every log record passes the scrubber twice: in the record factory and in the
  formatter. `register_secret` replaces the module global under a lock that
  readers do not take.
- The wizard polls the same bot as the agent will, before the agent exists. What
  it does not acknowledge is waiting for the agent. What it writes is read by
  three programs: the agent (`config.yaml`), Compose (`.env`, of which it hands
  on the variables it names) and the allowlist's renderer (`config.yaml` again).
- `docker compose up` runs `init`, which writes the hosts onto a volume, then
  the proxy, which sources them, then the agent. A restart by the daemon keeps
  to no such order and never runs `init`.

What is hard here: handlers interleaving with the updater, kills between the
append and the send, updates delivered twice or never, state read before an
await and used after it, time stamps that tie within a second or run backwards,
two threads at one global, offsets that are off by one, network errors at any
call, Ctrl-C at any step and files half written, a start that checks one form of
a value and uses another, several copies of one configuration (files, volume,
container environment, running proxy) that go stale one by one.
`PROJECT.json` lists each one at its line.

What makes each part correct:

- connector and runtime: one exchange at a time, paired in memory and sent as
  recorded; context current when used; chain tried once each, in order;
  strangers leave no trace; nothing said twice, nothing lost without a kill,
  everything handled in the end.
- memory: `history` is the last turns of the chat, in order.
- logging: no registration lost, no known secret or part of one in a line, no
  lock kept.
- startup: what serves is complete, its chain is sound, its keys are known to the
  scrubber; what is refused is refused for a reason.
- chat capture: no message offered twice, none dropped unseen, no stale one
  after the backlog was cleared, every wait ends.
- wizard and writers: no half file, a finished pair is of one run, the key
  written was accepted by the provider written, nothing is replaced unasked, and
  the agent starts with what was written.
- deployment: an unedited stack agrees with its files, comes up unless there is a
  reason, and serves again after any fault; edited or not, an agent that serves
  has the keys of the file it serves.

## 2. Modules

| Module | Models |
|---|---|
| `TurnTable` | the table as operators on a sequence of rows: `Insert`, `OpenTable`, `History`. Shared by `Memory` and `Bot`. |
| `Memory` | `memory.py` alone, with any callers, a reopening process and a clock that may be set back |
| `RecentLog` | abstract: each chat has a log, a read gives its last `Limit` turns |
| `Bot` | the running agent: Telegram's side of `getUpdates`, the updater, the queue, the handler step by step, the chain, the table, kills, stops and starts |
| `BotProperties` | what must hold of `Bot`, and the mapping to `Dialogue` |
| `Dialogue` | abstract: one exchange at a time, recorded before it is said, said at most once |
| `SecretRegistry` | `_SECRETS`, threads that register and threads that log |
| `ChatCapture` | `polling.py` under `_step_chat_id`, against Telegram |
| `Config` | pure: `config.yaml`'s rules, `resolve`, what `main` demands, the hosts taken from the file, the wizard's pair, the variables Compose forwards. Shared by `Setup`, `Startup` and `Deployment`. |
| `Validators` | pure: what a validator makes of each kind of answer, key prefixes |
| `Setup` | the wizard's other steps and `write_files`, over several runs |
| `Startup` | one start: entrypoint, `main`, `run` up to the first poll |
| `Deployment` | the three Compose services over files that are edited |
| `MCBot`, `MCSecretRegistry`, `MCSetup`, `MCStartup`, `MCDeployment` | constants for TLC |
| `TurnTable_proofs`, `Memory_proofs`, `Bot_proofs`, `SecretRegistry_proofs`, `ChatCapture_proofs`, `Setup_proofs`, `Startup_proofs`, `Deployment_proofs` | theorems about the module they are named for |

`Bot` composes the connector, the runtime and the memory: it EXTENDS `TurnTable`
and its `rows` are the same table `Memory` checks alone. It takes a chain as
given and assumes that it repeats nothing; `Startup` shows that of every agent
that serves (`ChainSound`). `Deployment` makes one step of a start, with
`Complete` as its condition; `Startup` shows that nothing else serves
(`ServesOnlyComplete`) and that nothing complete is refused for the
configuration's sake (`RefusedForCause`). `Setup` puts its pair to the same `Complete`.

### State and code

`Bot`. `posted` and `confirmed` are Telegram's: every update ever accepted, and
the id up to which it has forgotten them. `fetched` and `queue` belong to the
updater and `Application.update_queue`. `pc[u]` is where the task handling
update `u` stands in `_handle`; `hist[u]`, `attempts[u]` and `out[u]` are its
locals `history`, `attempts` (of `reply_with_fallback`) and `reply_text`, later
`outbound`. `rows` is the table. `wire`, `outcome`, `base`, `crashes` and
`stops` only record what happened. An action is everything between two places
where another coroutine may run or a kill can be told apart: each `append` (it
commits), the read, each provider, each send. A provider's error, a database
error and a send that raises are separate alternatives; `reply_text` may raise
before or after the message arrived. With one provider, `reply`'s own exception
reaches `_handle`'s last `except`, which sends nothing; with several, the
status line is sent (runtime.py 150, telegram.py 128). An update is known by its
number, a text by its update and by whether it is the message, a reply under
the limit, over it or cut to it, or the status line. The `clock` is the
host's: a tick may set it to any other second, earlier or later.

`Memory`. The clock ticks or is set back to any earlier second. The abstract log
places a turn by its stamp, after those of the same second.

`SecretRegistry`. A step is what one thread does between two accesses to shared
state: taking the lock, reading the list, rebinding it, releasing. `Scrub` works
on the list that was bound when its loop began. A value may be part of another
(`Parts`); a shorter value replaced first leaves a remainder.

`Startup`. `file`, `env`, `chatIds` and `disk` are what the start was given and
stay as they are. Each action is one check in the order of the code, each ending
in the manner the code ends: `unmounted` (entrypoint), `wizard` and `usage` (the
subcommands), `refused` (one CRITICAL line), `traceback` (an exception `main`
lets through), `stopped`. A value of the environment is its text and whether
there are blanks around it: the import collects it raw, by the variable's name;
`main` checks and registers it stripped; `resolve` uses it raw. Providers are
checked in any order. `secrets` is `_SECRETS` as a set: concurrency is
`SecretRegistry`'s matter.

`ChatCapture`. `offset` is `_step_chat_id`'s variable and `local` the parameter
that `poll_for_chat_id` advances: Ctrl-C and a timeout leave the first as it
was, and the next call starts from there. A call may be answered, fail before or
after Telegram acted on it, or break off while it is read.

`Setup`. `at` is the question or the system call the run is at; `asking` says
whose loop of `_retry_validator` it is in (the detected provider's key, the
picked one's, the token), which decides where an accepted value goes and who
catches Ctrl-C. `value` is the string in hand, `key` the one accepted as the API
key. A call's answer is any of `Validators`' `Answers`, chosen anew each time;
what a validator does not catch ends the run. A provider is one of the wizard's
table or three lines the person types, any of which may be blank. `open`
truncates and is a step before the write. Ctrl-C, `[q]`, an `OSError` and a kill
may fall between any two steps. `accepted` and `before` record what a service
accepted and what was there when the run began.

`Deployment`. `file` and `dotenv` are the operator's, `shared` the list on the
volume, which outlives `down`; `found` is what `init` has read and not yet
written; `filter` is what the running proxy was started with, `loaded` what the
running agent was, `agentEnv` what its container was created with. `up` is the
service `docker compose up` waits for. `touched` records that a file was edited
since the containers were created. Kills and reboots fall anywhere, also between
the redirection that empties the list and the write that fills it. The
wizard's two renames are two edits.

## 3. Runs

| Run | Question | Bounds |
|---|---|---|
| `memory` | is `history` the last turns, in order? | 2 chats, 1 text, 4 rows, 3 seconds and any setting back among them, limit 2 |
| `bot_exchange` | is what was said on record, the chain used in order and the history used what a read would still give, whatever the clock does? does the agent keep the dialogue? | 2 chats, 2 providers, 2 updates, no kill, 3 seconds and any setting of the clock among them, limit 2 |
| `bot_life` | is each exchange whole, with a kill or a stop anywhere? is nothing lost, or said more often than there were lives? do strangers leave no trace? is every message handled? | 2 chats, one allowed, no fallback, 2 updates, 1 kill, 1 stop, 1 second, limit 1 |
| `secrets` | do concurrent registrations and log lines stay correct? | 2 threads, 3 values with one inside another, any start list |
| `capture` | does the wait offer the right messages and end? | 2 chats, 3 updates, deadline 2, a turn of at most 2 |
| `setup` | are the files right, over two runs stopped anywhere? does the agent start with them? | 3 keys (two with a known prefix), the table's 3 providers and 3 custom answers, 1 token, 2 runs, files made before or not |
| `startup` | what serves, what is refused, what is scrubbed? | 2 providers in every form a specification can take, 8 fallback lists, 2 key variables (one not called `*_API_KEY`), values unset, blank, padded and plain, 5 chat lists, 4 states of the disk |
| `deployment` | do agent, proxy, keys and files agree, and does the stack serve again? | 5 files, 3 environments, 2 edits, 4 commands, 2 faults |
| `setup_abort`, `startup_connector` | a statement of the repository that the code does not keep (section 5) | as `setup` and `startup` |
| `bot_clock` | likewise | 1 chat, no fallback, 2 updates, no kill, 2 seconds, limit 2 |
| `deploy_fallback` | likewise | one `up` of one file, undisturbed |

Why the bounds are enough to show the hazard: two updates of two chats already
give an update that arrives while another is being answered, one confirmed while
in the queue, one redelivered after a kill; two turns of one chat fill the window
of two, and a question after them cuts it. Three seconds give ties within one,
order across them and a clock set back between two turns. Kills and stops are
in the run that checks liveness and the clock in the other, because the stamps
multiply with the rows that kills leave; `bot_life` keeps to one second, where
every stamp ties and only the rowid orders, and none of its properties reads a
stamp. `WireInMemory` and `KeepsDialogue`, which both runs bear on, are checked
in both. Two providers give a first, a last and a used-up chain; one
gives the path without a status line. Three updates in `capture` are one
before the wait, one that is no message or is rejected, and one after; the time
unit is the retry sleep. Two runs of init are needed for one to find what
another left. A start reads two references at most differently (the first and
any other), so one good provider beside one of every form shows each refusal in
each place; the lists of five and six entries are at the schema's limit. Four
commands and two edits give a stack brought up, edited, taken down and brought up
again over the list of the first, and one faulty step at each side of it.
`MaxUpdates`, `MaxCrashes`, `MaxStops`, `MaxTime`, `MaxRows`, `MaxRuns`,
`MaxEdits`, `MaxCommands` and `MaxFaults` bound the model and stand for nothing
in the code. No model uses symmetry.

Deadlock is checked everywhere but in the two Deployment runs. In `setup` and
`startup` a finished state has a stuttering step (`Ended`); elsewhere something
can always go on. In `Deployment` it is off because a stack may rest: once the
edits, commands and faults are used up, a stack that serves, or was never
brought up, stays as it is.

Each property of a passing run has a mutant: a definition of the model changed
the way a plausible bug would change the code (the allowlist not consulted,
`concurrent_updates(True)`, `drop_pending_updates=True`, the full reply stored
and the cut one sent, the offset without its plus one, no lock, shortest secret
first, the temporary file skipped, a fallback resolved outside the `try`, only
repeats within the list looked for, `depends_on` without a condition, no restart
policy, an agent that does not look for its keys). The `Bug...` operators are
these forms; the specifications do not use them.

## 4. Fairness

- `Bot`: weak fairness of the updater's poll, of starting, of ending after a
  stop, of taking the next update, and of each task's step. The event loop runs
  whatever is ready; the calls to the provider and to Telegram end because their
  clients have timeouts; `restart: unless-stopped` starts the container again
  after a kill, and after a stop that came with the daemon or the host going
  down. A stop by the operator's own `docker stop` is outside that policy: there
  the promise is that the message is handled once somebody starts the agent.
  Nobody has to write, to stop or to kill, and the bounds limit kills and stops,
  without which nothing could be promised.
- `SecretRegistry`: a thread inside `register_secret` or the scrubber is
  scheduled again. No fairness for taking the lock.
- `ChatCapture`: the wait's loop runs; each call ends by `_HTTP_SOCKET_TIMEOUT`.
  The person is not obliged to answer anything.
- `Deployment`: Compose goes on when what it waits for has come, each of the
  three containers runs, and the daemon keeps the restart policies. The operator
  need not do anything, and no fault has to happen.

## 5. Where the code and what is said of it differ

Checked, each by a run that must find the violation:

- `bot_clock`: after the host's clock was set back a question sorts before older
  turns (memory.py 33, 51), so the history does not end with it, and a full
  window may not hold it at all. The plan of the memory says "most recent turn
  last". What does hold is `ContextFresh`: the history in use is what a read
  would give, and it ends with the question if no turn of the chat is stamped
  later. `RecentLog`'s order is the clock's too, so `KeepsRecentLog` says nothing
  here.
- `startup_connector`: a missing token, a bad allowlist and a token that Telegram
  refuses end in a traceback, not in the one CRITICAL line that the docstring of
  `__main__.py` (3-4) announces: `run` is called outside the `try`.
- `setup_abort`: Ctrl-C between the two renames leaves a new `.env` beside an
  old `config.yaml` or none and prints that nothing was written
  (writers.py 118, cli.py 424).
- `deploy_fallback`: with two provider hosts the list is written as `a b` without
  quotes and sourced by the shell, so the proxy never starts, nor the agent
  (extract-allowlist.sh 44, generate-config.sh 17).

Seen while modelling, without a run of its own:

- The answer is on record when the send fails or the process is killed before it
  (telegram.py 148), so memory may hold what nobody saw, against the comment at
  telegram.py 23-25. `WireInMemory` is the direction that holds.
- After "All set" with a custom provider the agent does not start: Compose hands
  on the variables of the three known providers only, and a blank model is refused
  by the schema (cli.py 170, docker-compose.yaml 61-71). `KnownPairStarts` is what
  holds.
- `docker compose up` after `config.yaml` named another provider renders the new
  list and starts the agent anew where its environment changed, but leaves the
  running proxy with the filter it was started with (generate-config.sh 17).
  `FreshStackMatches` therefore speaks of stacks whose files were not edited since.
- The rejected update is acknowledged by the next `getUpdates` and not before,
  against the docstring at polling.py 97-100. If the person types the id instead,
  or the next wait breaks off before its call reaches Telegram, it is still
  pending, and the agent gets it at its first start. The accepted message is
  pending in the same way. `NoMessageSkipped` is the direction that holds.
- The history handed to the provider holds the message being answered,
  unframed, next to its framed copy (telegram.py 122); the default limit of 20
  cuts what is elsewhere called the full history.
- An empty input is reported under the status that stands for a network failure
  (validators.py 38-39, cli.py 51).
- An answer that breaks off while it is read, and an address that is none, raise
  something other than `URLError` and end the wizard with a traceback
  (polling.py 37, validators.py 103; `AnswerBreaksOff`, `CheckBreaks`).
- After a network error `clear_backlog` returns 0, so a message from before the
  wizard may be offered; `FreshAfterClear` promises only what an answered call
  gives.

## 6. Proofs

All theorems hold for every value of the constants allowed by the assumptions,
not only for the bounds of the runs.

`TurnTable_proofs` shows by the definition of `History` that what it returns is
a sequence of turns, as many as were picked (`HistoryType`), and that if no row
of its chat is stamped later than the row stored last, reading that chat ends with
it (`NewestIsLast`).
The step that carries the proof is that ranking rows by (ts, rowid) counts them
without gaps, so that `NthOldest` chooses an existing row.

`Memory_proofs` shows that the table implements `RecentLog`
(`StoreKeepsRecentLog`), step by step: a step of the abstract log is an insertion
behind everything stamped up to now, a read that gives the end of the log, or
nothing. Both rest on ranks: each row of a chat has as many older ones as its
place in the log says, and no two the same (`NthIsRanked`, `RankIsUnique`). So the
descending read, cut at `LIMIT` and reversed, is the end of the log
(`HistoryIsEndOfLog`), and a new row, whatever the clock did, has the old ones of
its second and before below it (`InsertPlaces`), and leaves the logs of other
chats alone (`OtherLogsStay`).

`Bot_proofs` is in parts, each an invariant that uses those before it.

- `Typed` gives `TypeCorrect` and `ChainCorrect`: the types, that a running
  task's update was posted, that what a task sends is about its own update, that
  no provider was tried before the history was read, and `ChainInOrder`.
- `Exchanges` gives `AnswersArePaired` and `ContextIsFresh`. Pairing is not
  inductive: that an answer follows its question depends on nobody else having
  written since. The invariant adds `OneAtATime` (at most one task runs, and its
  update is not idle) and `OpenExchange` (from the user's append to the answer's the
  last row is the task's own question, from then on its own answer). The same
  two make the context fresh: nothing was stored since the read, so the read would
  give the same now. That it ends with the question follows from `NewestIsLast`
  under the condition the property itself states; nothing is assumed of the
  clock.
- `Delivery` gives `NoMessageDropped`, an action property. The queue is what was
  fetched and not yet taken, without a gap (`InLine`), and what this life has
  taken was handled unless it is being handled (`TakenHandled`); so the last hold
  on an unhandled message goes only with the process.
- `Heard` gives `QuestionsInOrder`: the questions of a life are of updates taken
  in it, so a new one is behind them all.
- `Traced` gives `StrangersAreIgnored`: rows, sent messages and every running
  task beyond the filter are about updates that the filter lets pass.
- `OnRecord` and `RowsAsSent` give `WhatWasSaidIsStored`: from the append of the
  answer to its send the text in hand is that row's.
- `SaidThisLife` gives `SaidOnce`. The bound counts lives, so the invariant has
  to leave room for one more send: until the handling of an update in this life
  is over, it was sent about at most once per life that has ended.
- `BotKeepsDialogue` shows that the initial state and every step of `Bot` map to
  `Dialogue`: the appends and sends to its four kinds of step, by `OneAtATime` and
  `OpenExchange`; a kill, or a handler that returns, to an exchange left; all
  else to a stutter.

`BotAssumption` states a positive limit and a chain without repeats, which
`ChainIsSound` of `Startup_proofs` gives for every agent that serves.

`SecretRegistry_proofs`: `TypeCorrect`, `RegistrationsStay` and
`KnownSecretsAreScrubbed`. The invariant says that between lock and release only
its holder writes (`Mutex`), that the list is sorted by length and a rebuilt one
extends the current one (`LongestFirst`, `Writing`), and that a list bound by a
reader holds what was registered before the record began (`Meeting`). The
longest-first order is used exactly once: it is why no part of a value can come
before it.

`ChatCapture_proofs`: `TypeCorrect`, `RejectedStayAway`, `EveryMessageIsOffered`,
`OldMessagesAreNotOffered`. The offsets carry the argument: what was shown lies
below the wizard's offset, which is never ahead of the one the wait polls with
(`GoesOn`), and every message below either, or forgotten by Telegram, was shown or
is from before the wait (`Seen`). An answer that is lost moves Telegram's offset
only, and to one of these.

`Setup_proofs`: `TypeCorrect`, `FilesAreWhole`, `FinishedPairIsOwn`,
`WrittenKeysAreAccepted`, `OverwritingIsAgreed`, `KnownProvidersStart`. Three
parts. `Asking` follows the answers: a key in hand once the token is asked for
was accepted by the provider in hand (`KeyFits`), and a token from the chat id on
(`TokenFits`); a change of provider goes back to before either. `Files` follows
`write_files`: which temporary file is whole at which system call (`Laid`), so that a
rename moves a whole file of this run. `Consent` keeps the person's answer beside
every place beyond the question. That the known providers start is then a
calculation over the wizard's table, the schema and Compose's variables, done once
for a provider of the table (`Complete` of its own file).

`Startup_proofs`: `TypeCorrect`, `OnlyCompleteServes`, `ChainIsSound`,
`KeysAreScrubbed`, `RefusesOnlyForCause`. What serves was checked steps ago, so
the invariant carries each check forward: from the load on the file is valid
(`Loaded`), then the group is there (`GroupFound`), then every provider looked at
has a key that is not blank and registered (`KeysChecked`), then each entry of the
chain is what its own reference resolves to (`Resolved`), and after the last one
the chain is as long as the references (`Whole`). The chain repeats nothing because
distinct references resolve to distinct entries and the schema keeps references
distinct; its keys are covered because the raw value used and the stripped one
registered have the same text. The other direction, that nothing else is
refused, needs `CompleteResolves`: `resolve` checks nothing more strictly than
`main` did, so a complete file gets through each check it meets (`Causes`). And
what ends in a traceback past the load has passed every check of `main` and the
opening of the database, so no incomplete configuration ends that way.
`StartupAssumption` says what YAML's types give: a name is a string, a key variable
is a name, chat ids are not words.

`Deployment_proofs`: `TypeCorrect`, `UntouchedStackMatches`, `ServingHasItsKeys`,
`UpFailsOnlyForCause`. The volume outlives containers, so the list may be an older
stack's until `init` has worked. The invariant starts there: `init` holds and then
leaves the hosts of the file as it is (`Rendered`); a proxy that was started
finds these or the empty list of a second `init` that has just truncated it
(`Listed`), on which it cannot run, so one that runs has the file's hosts
(`Filtered`). Two things make it inductive: the containers are made and
removed together (`Together`), and without a fault the proxy of a one-host file
never leaves its first start while `up` waits for it (`Causes`).
The keys of an agent that serves were looked for when it loaded its file, and its
environment changes only with its container (`HasKeys`), so they need no
condition on edits.
`NoListIsNotAList` says that "no file" is no list of hosts.

Only model-checked: liveness (`EveryUpdateHandled`, `LockComesFree`, `WaitEnds`,
`StackServes`), because fairness and ENABLED are outside what the prover does.
Every invariant, action property and refinement that a passing run checks has a
theorem above. The theorems are about `Spec`; the runs that check liveness use
`FairSpec`, which implies it. What the four runs of section 5 refute has, of
course, no theorem.

## 7. Not modelled

- The prompt's framing, the quoting of `.env` and the YAML text, the redaction
  of snippets by the validators: data, with no state to go wrong between steps.
- `agent.logging`'s root filter, which records of other loggers do not pass, its
  patch of `formatException`, and the guards against a second import.
- tinyproxy itself: which ports `ConnectPort` opens and how it matches names.
  Its filter is taken to be what the file says.
- Compose's interpolation of `$` in values, image builds, Docker's hardening,
  `mount-policy.yaml`, which nothing reads: no program state.
- `docs/discovery/agent`: a sketch no file of the program imports.
- Tests and CI: read as statements of what the program promises.

## 8. Plan

1. Done: the modules of section 2, their runs, and the theorems of section 6:
   every safety property and both refinements.
2. Safety cores of the liveness properties, which the prover can reach: that a
   lock that is held has a holder with a step to take (`LockComesFree`), that
   every turn of the wait brings the deadline nearer or ends it (`WaitEnds`), that
   a queue that is not empty moves or its handler does (`EveryUpdateHandled`).
3. Lemmas of `Config` that `Setup_proofs`, `Startup_proofs` and
   `Deployment_proofs` each derive for themselves, in one place; shorter proofs
   where parts of `Bot_proofs` split Next in the same way.
