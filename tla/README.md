# TG Sentinel in TLA+

TG Sentinel is a Telegram client that watches channels and private chats,
scores what is written there against the user's profiles, notifies the user of
what matters, and sends digests of the rest. This directory models the parts of
it in which order, time, failure and concurrency decide whether it does so
correctly: the message path, what the profiles make of a message, the digests,
the session the whole process works for, what it learns from the user's votes,
and how the user interface asks and edits from outside. Paths below are relative
to the repository; `tgsentinel/` stands for `src/tgsentinel/`.

- [Inventory](#inventory): the system's parts, their state and their interactions
- [Modules](#modules): what models what, and how
- [Runs](#runs): what is model-checked, on which instances, and what it shows
- [Proofs](#proofs): what holds for every value of the constants, and why
- [Where code and documents disagree](#where-code-and-documents-disagree)
- [What is left out](#what-is-left-out) and [Plan](#plan)

Check a configuration with `tlc -config StreamSafety.cfg MCStreamPipeline.tla`
(the module of each configuration is in `PROJECT.json`), a proof module with
`tlapm StreamPipelineProofs.tla`.

## Inventory

One process (`tgsentinel/main.py`) runs an asyncio event loop with a dozen
tasks, an HTTP API in threads of its own, and a database clean-up thread. Redis
and SQLite hold what survives it; a Flask user interface in another container
talks to it through Redis, the API and the database.

| Part | State | Operations | Talks to |
|---|---|---|---|
| Ingestion (`client.py`, `dm_poller.py`) | handlers on a client, last seen ids | event handler, poll of private chats every few minutes | XADD to the stream, trimmed to `maxlen` |
| Message worker (`worker.py`, `worker_orchestrator.py`) | consumer group, pending list, batch in hand | XREADGROUP, evaluate, store, notify, flag, XACK | store, delivery, stream |
| Store (`store.py`) | table `messages` with feed flags and `digest_processed` | upsert, flag, mark, retention by age and count | worker, collector, API, retention thread |
| Delivery (`delivery_orchestrator.py`, `notifier.py`) | none | send to chat or channel, webhooks | Telegram |
| Digest scheduling (`digest_scheduler.py`) | `last_run` in memory and, for 7 days, in Redis | due tests, discovery, `mark_schedule_run` | digest worker |
| Digest worker (`digest_worker.py`, `digest_collector.py`) | collected rows of the run in hand | collect, rank and cut, send, mark processed | store, Telegram |
| Manual digests (`api.py`, `digest.py`, `digest_execution.py`) | execution records in Redis | trigger from the API on the worker's event loop | the same collector |
| Session (`main.py`, `session_lifecycle.py`, `auth_manager.py`, `session_helpers.py`) | session file, clients, who uses which, authorization flags, generation | start-up, import, log-out, phone log-in | everything that holds a client |
| Caches (`cache_manager.py`, `redis_operations.py`) | channels and users in Redis, readiness | warm-up, refresh every ten minutes | `get_dialogs`, handlers |
| Request handlers (`telegram_request_handlers.py`, `participant_info.py`) | generation served | answer the interface's requests from the caches | Redis keys |
| Relogin handshake (`session_manager.py`, `ui/auth.py`) | handshake gate, 180 s deadline | close and open the gate, replace the client | worker, digests, handlers |
| Feedback learning (`feedback_aggregator.py`, `alert_feedback_aggregator.py`, `feedback_processor.py`, `profile_tuner.py`) | counters in memory, queue in Redis, profile files | record, batch, adjust thresholds, commit and roll back samples | profiles, API |
| Evaluation (`alerts_evaluator.py`, `interests_evaluator.py`, `heuristics.py`, `semantic.py`) | caches of embeddings | score a text | worker, backtests |
| Configuration and profiles (`config.py`, `profile_resolver.py`) | YAML files, the worker's and the API's copies | load, merge, resolve, reload | everything |
| API (`api.py`) | its own copy of the configuration | some eighty endpoints over the above, the writes of every YAML file | interface |
| User interface (`ui/`) | a log-in context in Redis or a file, a lock per channel | editors, lists, participant information, test messages, log-ins | API, Redis, SQLite |
| Message formats (`message_formats/`) | `message_formats.yml`, a copy in memory with its mtime | load, save, import, export, reset, render | delivery, API |
| Metrics, logging, shutdown, tools, containers | | | |

### What is hard in it

*Message path.* A notification cannot be taken back and is sent before the row
is flagged and the entry acknowledged; a crash, a deleted stream, a trimmed
entry or a removed row can fall between any two of these steps. A direct
message arrives twice, once from the event and once from the poll. Correct
means: nothing is processed twice or out of order, nobody is notified twice by
one source, an acknowledged entry leaves no half-flagged row, and an entry that
was not finished stays visible.

*Digests.* Due tests mix elapsed time, wall-clock blocks and dates, with a pass
every five minutes, sends of any length, last runs in Redis with a life of seven
days, and downtime. A message may match several schedules and be collected by a
manual digest at the same time, while the retention thread removes rows. Correct
means: once per period, never late, and each message in one digest.

*Session.* Six parts hold a reference to "the" Telegram client and four hold an
"authorized" flag of their own; an uploaded session, a log-out, a phone log-in
and the start-up check change them in several steps, with an await between any
two. Correct means: one account is listened to, none after a log-out, every task
goes on, and what the interface shows belongs to the account in use.

*Learning.* A vote changes counters in memory, rows in the database, a profile in
a YAML file that everybody reads, changes and writes back without a lock, and a
queue in memory with a copy in Redis. API threads, the periodic batch and the
triggered one, failing writes and crashes come between any two of these. Correct
means: a changed profile is recomputed, the queue survives a restart, thresholds
and samples keep to their caps, and what the user reviews is what a commit moves.

*Evaluation.* Profiles apply to a chat for several reasons and are merged before
they are scored, then judged one by one; the API has a second copy of them, and its
backtests re-implement the decision. Correct means: one more profile does not
silence another for a reason the user did not state, and a backtest says what the
worker did.

*Configuration.* An editor of the interface reads a whole list, changes its copy and
posts it back; several threads of the API write the same temporary file; the
interface stops waiting while a thread goes on. Correct means: a file is never torn,
"saved" is true, and an edit survives the next one.

*Requests of the interface.* Keys in Redis are the only channel, each side polls, and
either may give up, restart or change account meanwhile. Correct means: nobody is
told of what did not happen, nothing is done twice, and the code the user types is
checked against the last one sent.

`PROJECT.json` lists these hazards with the line each one bites at and the
properties that would catch it.

## Modules

| Module | Models | Extends |
|---|---|---|
| `StreamPipeline` | ingestion, stream, consumer group, `process_loop`, `process_stream_message`, flags and retention of the rows it writes | |
| `AtMostOnceLog` | what the message path promises, abstractly | |
| `StreamPipelineProofs` | theorems | `StreamPipeline` |
| `DigestSchedules` | which schedules channels, users and profiles ask for, and at which hour | |
| `DigestCalendar` | the due tests, as operators on clock readings | `DigestSchedules` |
| `DigestTimeline` | `UnifiedDigestWorker.run`: which schedule runs when | `DigestCalendar` |
| `DigestTimelineProofs` | theorems | `DigestTimeline` |
| `DigestDelivery` | what a run collects, sends and marks | |
| `DigestDeliveryProofs` | theorems | `DigestDelivery` |
| `SessionLifecycle` | start-up, imports, log-outs, phone log-ins, the clients | |
| `SessionCaches` | the cache refresher and the handlers, next to the session | `SessionLifecycle` |
| `SessionProofs` | theorems about both | `SessionCaches` |
| `ProfileLearning` | votes, thresholds, samples and the recomputation of one interest profile | |
| `ProfileLearningProofs` | theorems | `ProfileLearning` |
| `ProfileEvaluation` | binding, merging, scoring, deciding; the backtests and the similarity test | |
| `ProfileEvaluationProofs` | theorems | `ProfileEvaluation` |
| `ConfigStore` | the editors' requests, the API's threads and the files they write | |
| `ConfigStoreProofs` | theorems | `ConfigStore` |
| `UiRequests` | the interface's requests through Redis, the handlers and the auth worker that answer | |
| `UiRequestsProofs` | theorems | `UiRequests` |
| `MC...` | model values and instances for TLC | their module |

Some definitions come in pairs. The first, marked "Mutant", is a plausible
mistake in the second (a dropped guard, a swapped order, a missing reset); no
specification uses it. It is there to show that a property can fail: put in the
place of the original, it must make TLC refute the property that
`PROJECT.json`, under "mutants", names.

### The message path: `StreamPipeline`

The Redis stream is a set of ids below `last` with a payload each; the group is
its last-delivered id and the pending list. `pc` says where `process_loop`
stands, and `batch`, `cur` and `verdict` are its locals. A verdict is one of the
combinations `process_stream_message` distinguishes: nothing, an alert, an
interest, an interest with instant delivery, both. Rows are a semantic type and
two flags per message.

Each await, and each write to Redis, SQLite or Telegram, is one action:
`IngestEvent` and `IngestPolled` (XADD with trimming), `StartProcess` and
`StartWorker` (the group is created at start-up, and again, at `$` or `0`, by the
two places that do so), `WaitReady` (the gate), `ReadBatch`, `BeginEntry`,
`StoreRow`, `DeliverAlert`, `MarkAlert`, `DeliverInterest`, `MarkInterest`,
`Acknowledge`, and `EntryFails`, which any step that calls out can become. The
environment deletes the stream (`handle_logout`), opens and closes the handshake
gate, removes rows (retention) and kills the process. Redis is read
synchronously: between an acknowledgement and the next entry of a batch no other
task of the event loop runs, which `Awaiting` states.

`AtMostOnceLog` says the same without a stream: entries are absent, waiting,
held, done or lost, nothing comes back from done or lost, and an entry is
notified of at most once and only while held. `ImplementsLog` instantiates it
with a refinement mapping from the stream, the group and the batch.

### What profiles make of a message: `ProfileEvaluation`

A profile is a record: keywords by category, switches, users and channels it binds
itself to, excluded and VIP senders, a minimum score or none, and samples when it is an
interest. `file`, `live` and `known` are the files, the worker's and the API's copy;
`vectors` what `semantic.py` keeps for both. `Bound`, `Merged`, `Signals` and `Score`
are pure: they follow `resolve_for_channel`, `_resolve` and `run_heuristics`, with the
weights of the code in tenths; a score is the number of tenths its signals bring, counted as
the elements of a set (`Points`), so that it can be reasoned about without a sum. The files
have more names for categories of words than
the profiles in memory: `LoadedFrom` is what the loader makes of them (`Backend` is its
`field_mapping`) and `Collected` what the backtest does instead. `Process` is `process_stream_message` up to the row it
writes, with the profiles of the moment, and the files they came from (`origin`), remembered in
the row. `BacktestAlert`,
`BacktestInterest` and `TestSimilarity` are the API's versions, with what each of
them leaves out (`Replayed`, `Backtested`, `BacktestScore`). `SaveProfile`,
`DeleteProfile`, `ReloadWorker`, `ReloadApi` and `StartProcess` change the copies.

### The digests: `DigestSchedules`, `DigestCalendar`, `DigestTimeline`, `DigestDelivery`

`DigestSchedules` reads the digests of channels and users, then of profiles, as
`_get_daily_hour` and `_get_weekly_schedule` do: the first level at which somebody asks
for a schedule votes on its time (`Consensus`), those that have it disabled included,
and `Discovered` says who gets one, which only those who have it enabled do.

Time is counted in slots, `SlotsPerHour` of them an hour, from a Monday
midnight. `DigestCalendar` translates the five due tests literally, including
the catch-up of the daily and weekly one and the first-minutes window of a first
hourly run. `DigestTimeline` runs them: `LoadScheduleTimes` at start-up (a failing
Redis call loses a key), `StartRun`, `GetDueSchedules` with the time captured at
the beginning of the pass, one schedule after another in the order of
`get_due_schedules` (`due` is the set it returned and `Foremost` its first element),
`ProcessReturns` or `ProcessRaises`, `MarkScheduleRun` (memory,
then Redis with a time to live), `Sleep`, and `Tick` for the clock, which never
waits while the worker is busy for more than `MaxBusy` slots a schedule. The gate
is awaited once per pass. A crash may last any time.

`DigestDelivery` abstracts from when: any schedule may start at any moment the
loop is idle. A run collects the flagged, unprocessed rows inside its window that
its profiles match, keeps the top `TopN`, sends, and marks everything it
collected, cut or not. A manual digest does the same between the awaits of the
loop's run. Rows are inserted and flagged by the message path, age, and are
removed by `CleanUp` by age and by count in the order of the SQL. Sends and
markings may fail.

### The session: `SessionLifecycle`, `SessionCaches`

A client is a number, in the order the process made them, with the account its
session signs in. `up` is the set of connected ones, `heard` those with the
ingestion handler, `onDisk` those whose session is the file on disk. Four
variables say who uses which: `client_ref_dict` (`inUse`), the helpers and the auth
manager (`helped`), the participant handler (`asked`) and the workers
(`working`). The authorization is kept three times, as in the code: main's
`authorized`, AuthManager's (`rejecting`), and `auth_event`.

`boot` is where `main()` stands, `monitor` what `monitor_session_events` awaits,
`login` what the auth worker awaits. An import is `ImportDisconnect`,
`ImportMakeClient`, `ImportConnect`, then `ImportSucceeds` or `ImportFails`; a
log-out `LogoutDisconnect`, `LogoutDelete`, `LogoutClear`; a phone log-in
`TakeLogin` or `RejectLogin`, `SignIn`, then `LoginSucceeds` or `LoginFails`. The code
between two awaits is one step, since the event loop runs nothing else in it.
Pub/sub messages reach who is subscribed at that moment (`Listening`). A
`wait_for` on an event that is set returns without suspending, so with the event
set and the flag unset the wait loop of `main()` never gives the event loop back:
`Spinning` stops every task of the process, and only a crash ends it.

`SessionCaches` adds the refresher (`refresher`, `mine` for `my_generation`), the
global and the generation's own keys, `cache_ready_event`, and one request
handler. `accounts` remembers which account a generation was opened for, which is
what the caches should be about. A refresh ends with the avatars (`AvatarsEnd`), which
take as long as they take and end early in a later generation.

### Learning: `ProfileLearning`

One interest profile: its threshold and, by category, its pending and its committed
samples (`file`, the YAML entry), the `rows` of `feedback_sample_additions` that say
"pending", the counters and the drift of the aggregator, the queue (`queued`) with
its copy in Redis (`saved`), and whether `_profile_vectors` has an entry (`vectors`).
Scores and thresholds are hundredths.

Each API thread has a program counter, the profile as it last loaded it (`snap`)
and what it has in hand (`job`). A vote runs `Vote`, `RecordFeedback`, and then
nothing, or `LoadForRaise`, `SaveRaise`, `ResetStats`, `ScheduleRecompute`,
`SaveState`, or `CheckDuplicate`, `RecordAddition`, `LoadForSample`, `SaveSample`,
`ResetStats`. A commit runs `Commit`, `SaveCommit`, `MarkCommitted`,
`ScheduleRecompute`, `SaveState`; a roll-back `Rollback`, `SaveRollback`,
`MarkRolledBack`. `Toggle` and `SaveToggle` stand for every request that writes the
whole file back on behalf of another profile, and `Upsert` for the editor, whose
form has no field for learnt samples. `TakeBatch`, `SaveBatch` and `ClearCache` are
`process_batch`, once from the periodic task and once from the API. What the code
does under one lock, or between a file's load and the next access to something
shared, is one step. A write may fail (`WriteFails`), as the code's handlers expect.

`owed` and `disturbed` are history: that learning changed the profile after its
vectors were last dropped, and that requests have overlapped, been cut short, or
the editor has saved.

### Editing: `ConfigStore`

A file maps keys to entries, and an entry is the set of edits it has gone through, in
what `GET /api/config` shows and in what it leaves out. A request of the interface
(`op`) is one of the operations at the head of the module; by its kind it fetches a
whole list and posts it back (`Fetch`, `Posts`), does so under the channel's lock
(`TakeLock`, `LockIsTaken`, up to `MaxTries` attempts), or leaves the work to the API.
The lock has a life of 25 seconds, which an attempt may outlast: it lapses at any moment
(`LockLapses`), is released only by its owner, and not if Redis fails (`Release`).
A thread of the API has a step and an open file. `update_config` is `MergeConfig` and
`ReplaceConfig`, with a temporary file of its own; `save_profiles`, the toggles and the
deletions are `Open`, `Write`, `Swap` (or `SwapFails` and `Clean`) over the one
`.yml.tmp`, which follows the file through renames as a descriptor does; formats are
`OpenFormats`, `WriteFormats`, `CacheFormats`, in place, whether they come from the page,
an uploaded file (`CheckImport`) or the defaults (`TakeDefaults`); a download only loads
them. A file that cannot be read, opened, written or renamed ends the thread with what its
handler leaves behind: a temporary file removed or not (`FileFails`, `WriteFails`,
`SwapFails`, `AfterFailure`), formats cut off with the old ones still in memory
(`WriteFormatsFails`), defaults in memory for formats that could not be read (`LoadFails`).
`GiveUp` is the interface's time-out: the thread goes on. `Crash` ends the threads and
keeps what they wrote.
History: `landed`, the requests whose text has been in the file; `shared`, that two threads
had one temporary file or the formats together (`Joined`); `late`, that a request timed
out; `lapsed`, the channels whose lock ended under its holder; `cut`, that the last
saving of the formats failed after the file was opened.

### Asking: `UiRequests`

A thread of Flask serves one request: it writes a key (`Ask...`) or a queue entry
(`AskCode`, `AskResend`, `AskVerify`), polls (`ReadList`, `ReadInfo`, `ReadTest`,
`ReadCode`, `ReadVerified`, then `Confirm` for the worker's status) and gives up. The
handlers serve lists in one step and participants and test messages in several, since
they await Telegram; each scan holds a batch of keys and the generation it began in.
What a handler gives to Redis may not arrive: a list or an answer is then lost (`Respond`,
`Reply`), and a request that could not be deleted is found by the next scan, in the same
process (`Delete`; `kept` counts them for test messages). The auth worker takes one log-in
at a time, and may fail with it after Telegram has sent the code, so that nobody learns
its hash (`SendCode` and then `LoginFails`). The log-in context is in Redis or, when
that fails, in a file. Keys expire, the process dies and starts, accounts come and go.

## Runs

"Pass" runs find no error. The "violation" run refutes one statement quoted from the
repository; see below.

| Run | Checks | Instance |
|---|---|---|
| `stream_safety` | `TypeOK`, `NotifiedOncePerSource`, `AlertRowsFlagged`, `InterestRowsFlagged`, `UnfinishedStaysPending`, `BegunInStreamOrder` | a channel and a direct message, two entries, `maxlen` 1, batches of two, all verdicts, a crash, a deletion of the stream, a removed row |
| `stream_live` | `UndeliveredEventuallyTaken`, `EntrySettles`, `ImplementsLog` | a direct message seen twice, two entries, `maxlen` 1, a crash, a Redis failure, a deletion |
| `digest_on_time` | `TypeOK`, `OncePerPeriod`, `OnTime` | hourly and four-hourly, quarter-hour slots, till half past eight, started at six and at a quarter past three; a slow send, a raising run, a crash of any length, a failing Redis call, a closing of the gate |
| `digest_weekly` | `OnTime` | daily and weekly, two channels and a profile that ask for different hours, hours, seventeen days, three starts in the week, a crash of any length, longer than the life of a Redis key included |
| `digest_once` | `TypeOK`, `DigestedOncePerRow`, `UndigestedSettles` | two messages, two schedules that share one, `top_n` 1, retention of one row, a manual digest, a crash, a failed send or marking |
| `session_progress` | `TypeOK`, `OnlyInUseIsHeard`, `HeardOnlyWhileAuthorized`, `ReceivedEventsAreTaken`, `AuthorizedStarts` | two uploads, a log-out, a phone log-in and a crash at any point of a start-up |
| `caches_own` | `CTypeOK`, `StoredIsNotOlder`, `OwnCachesEventually` | two accounts, an upload, a log-out, a crash, two generations |
| `learning_safe` | `TypeOK`, `RecomputeIsComing`, `QueueSurvives`, `DriftBounded`, `SamplesCapped`, `ReviewedIsCommitted` | two threads, two texts, three requests, a crash and a failing write; one vote recommends, a raise of 0.10 with a cap of 0.15, room for one sample |
| `evaluation_agrees` | `TypeOK`, `BacktestsAgree`, `NoProfileSilencesAnother` | two profiles, six definitions, a group and a direct chat, three messages, one edit between any two other steps, any number of starts and reloads |
| `config_store` | `TypeOK`, `WholeUnlessShared`, `OkMeansWritten`, `LockedEditsSurvive` | two requests out of thirty-two over the same files, two attempts each, any read or write that fails, a crash or a lock that lapses under its holder |
| `ui_requests` | `TypeOK`, `ToldAsItWas`, `LatestCodeKept` | three threads, any request, responses and answers that are lost, a failing Redis under the log-in context, a code whose sending seems to fail, and one of: a crash, a switch of the account, a test request that is not deleted, log-ins beside other requests |

**Why the bounds are enough.** A stream of two entries with `maxlen` 1 already
trims, and a batch of two has a "rest of the batch". The properties of the message
path relate at most two entries, and the proofs below remove the bounds. The
timelines cover two periods of every schedule in them and the boundary of the
next, off the hour too; the weekly one covers the week, the catch-up and the
expiry of the key. A slot of a quarter of an hour is longer than the check interval
of five minutes, which only widens the slack in `OnTime`; a pass over both schedules still
fits in the hour, as the theorem about `OnTime` asks. `Considered` leaves out
schedules that are not configured: they only lengthen a pass. In `digest_once` a
removed row is not inserted again; the theorem covers that. Two switches of the
session are what it takes for a client to be two behind. Its properties compare
clients and never accounts, so `session_progress` has one account next to "nobody";
the session file before the first start is one of `FirstFile`, which by symmetry
stands for all accounts. `OnlyInUseIsHeard` and `HeardOnlyWhileAuthorized` are
about behaviours without phone log-ins: they fail once one is added (see below).
Generations above `MaxGeneration` are not entered.
In `learning_safe` the code's limits (3 borderline votes, 2 severe ones, 20 samples,
a drift of 0.25) are lowered to 1, 1, 1 and 0.15, so that three requests reach a
recommendation, a full category, a commit that takes only a part, two raises at
once, and a threshold at its maximum of 0.50; the theorems have any limits. Threads
are alike and so are texts, which makes the symmetry sound: no property of the run is
a liveness property.
In `evaluation_agrees` the definitions meet each boundary: a score that is exactly the
minimum, a missing minimum, words that only another profile has, a similarity at the
threshold. The initial files are any two definitions or none, so one edit reaches every
pair before and after. What follows a backtest is not followed (`MCReportIsLast`): it
leaves nothing but a report, which speaks of rows that never change again, so the same
steps without the backtest lead to the same states. In `config_store` each kind of request is there for a stored and,
where it matters, an absent entry; two requests of an editor and two attempts are what a
lost update, a shared temporary file and a lock need, and two requests are alike, which
makes the symmetry sound. The two write the same file (`MCSameFile`), since those of
different files have no state in common, and a crash and a lock that lapses under its
holder do not come in one behaviour (`MCOneMishap`): a crash ends the threads the lock
was there for. In `ui_requests` three threads are two codes and the verification of one,
or two test messages and a list. A crash, a switch, a test request that is not deleted and
log-ins beside other requests (which share only the threads' slots, the process and
Redis with them) come one at a time (`MCOneMishap`), and the threads that want neither a
log-in nor a test message want the same (`MCFewKinds`). Both keep the runs short; the
theorems have neither, nor any bound on requests, attempts, restarts or failures.

**Fairness.** The event loop runs every task that can run: weak fairness of each
task's steps. `process_loop` reads with a time-out and its process is restarted
(`restart: unless-stopped`); the gate is opened again on each exit of
`relogin_coordinator`, success, cancellation or deadline, hence fairness of
`OpenGate`. In `DigestDelivery` a run that has begun ends (weak), and every
schedule comes due again however many others do (strong), which is what
`OnTime` shows of the timeline. In `SessionLifecycle` only `main()`, the monitor,
whose awaits all have a time-out, and the restart of the container are fair;
nothing is assumed of the phone log-in or of Telegram. In `SessionCaches` the
refresher and the handler are, and Telegram answers a refresher that asks again
every ten minutes: strong fairness of a connection and of an answered
`get_dialogs`. In `ProfileLearning` a request that
has begun goes on, the periodic batch is taken and finished, and the container is
restarted; nobody need test a profile's similarity. Nobody is obliged to upload, log
in or crash. `DigestTimeline` needs
no fairness: its deadlines are invariants over a clock. `ProfileEvaluation`,
`ConfigStore` and `UiRequests` assume none: both sides of a request may stop at any
moment, and what the interface is told then is the question.

**Deadlock** is checked for the stream and the timelines. `ProfileLearning` and
`ProfileEvaluation` cannot stop, and the check is on. In the other runs it is off, because a digest loop
without rows, or a sentinel nobody talks to, has no further step once the bounds are
used up.

## Proofs

TLAPS checks every theorem for any messages, schedules, profiles, stream length,
batch size and bounds, under the named assumptions on the constants of each
module: bounds are natural numbers, sets are included in one another, the values that
stand for "none" are not among the others, requests and profiles have the fields the
code gives them. Two of them say something about numbers of the code: a key of a last
run lives at least as long as the longest period (`KeyTtl`, 7 days in
redis_operations.py:230), and thresholds for reactions and replies are not negative (the
form has `min="0"`). TLC evaluates all of them on every run.

Each proof has the same shape: the invariant of the run, strengthened until every step
preserves it (TLC checked the strengthened one first, on the run's instance), one lemma
per conjunct or per action, and one step per action below it.

**The message path** (`StreamPipelineProofs`). `TypeOK` alone does not survive a
step: `ReadBatch` and `Acknowledge` need to know where the cursor stands. The
inductive invariant is

    IInv == TypeInv /\ Delivery /\ UnfinishedStaysPending /\ Payloads /\ Notices /\ Rows

`TypeInv` is the type with the shape of the cursor (which locals are empty where);
`Delivery` orders ids: what was begun is below the current entry, that below the
rest of the batch, that at or below the group's last-delivered id; `Payloads` says
that an id has a payload once and that two ids share one only if a source saw the
message once; `Notices` that only begun entries have notified, and the current one
not before its delivery step; `Rows` that an unflagged alert or interest row has an
entry begun and not finished, or is being written by the current one. Each of the
six is shown to be preserved in a lemma with one step per action. From `IInv`
follow `TypeCorrect`, `NotifiedOnce`, `AlertRowsSettled`, `InterestRowsSettled`,
`PendingKept`; `InStreamOrder` is the action property over one step from `IInv`; and
`PipelineImplementsLog` maps each action to a step or a stutter of `AtMostOnceLog`.
`EntriesEndForGood` is then what the refinement is worth: what the path has finished or
lost stays so, and is not notified of again.

**Digests** (`DigestDeliveryProofs`). `DigestedOncePerRow` counts digests against
insertions and lost markings. It is not inductive: a second digest of an
unprocessed row would break it, so `OneInHand` says that a row that may still be
collected, or is collected and not sent, has an insertion or a lost marking in
hand. `IInv == TypeOK /\ ChosenAmongCollected /\ DigestedOncePerRow /\ OneInHand`.

**Learning** (`ProfileLearningProofs`), for any number of threads, texts, limits and
bounds. `TypeOK` holds together with `JobsFit`: a thread that adds a sample has a text
and a category, and one that saves a commit takes what `Committable` allows of the
profile it loaded. The four safety properties then need, each,
- `ChangesAreScheduled`: `RaisesFit` (a thread that raises has no category in hand, so
  that its `ResetStats` is the one that schedules), `BatchesFit` (a runner that holds
  the profile is in the middle of a batch) and `DownFits` (nothing is owed by a process
  that does not run);
- `QueueIsKept`: nothing more, it is inductive with the types;
- `CommitsAreCapped`: `SnapCapped`, the cap in every profile that a thread has loaded,
  since any of them may be written back; the lemma on `Committable` bounds what is
  moved, and the ones on `WithSamples` say that the other category is left alone;
- `DriftIsBounded`: `RaisesFit`, and the cardinality of the set `Raising`, which loses
  one thread when the drift gains one raise.

`ReviewIsOfTheFile` is about behaviours in which requests do not overlap and no write
fails. Its invariant `InStep` names the one thread that is not idle and says by how much
the rows and the file may differ where it stands: by the sample it adds, by what it has
taken from the file and not yet marked, or not at all.

**The session and its caches** (`SessionProofs`), for any accounts, uploads, log-outs,
log-ins and crashes. That clients stay in their range needs `ClientsCounted`: each upload
and each log-out makes one client, counted while its event is in the subscription, while
the monitor works on it and once it is made. Who is heard needs three facts at once
(`WithoutLogins`): client 1 is up only while it is in use (`FirstClientInUse`), a client in
the making has no handler yet and nobody is heard meanwhile (`OneIsHeard`), and whoever is
heard has set `auth_event` (`HeardIsAuthorized`). They hold until the first phone log-in,
and the two invariants say so themselves: with one they are false. They are also about the
session by itself. Every step of `SessionCaches` is a step of the session or leaves it alone
(`CNextIsNext`), except that the refresher connects the helpers' client (`AskDialogs`), and
that step breaks both (see below); the types survive it. For the caches,
`GenerationKnown` ties the current generation to the account of the client in use, and
`RefresherInv` says that the dialogs in hand are of the generation the refresher noted or
of a later one, from which `StoredIsNotOlder` follows.

**The digests in time** (`DigestTimelineProofs`), for any schedules, resolution, start and
horizon. `OncePerPeriod` needs

    OnceInv == TypeOK /\ ClockInOrder /\ KeysKept /\ RunsRecalled /\ NoneRepeats

`KeysKept` relates the key in Redis to the last run and its expiry, `RunsRecalled` what
`last_run` in memory says after a restart: the last run, or nothing if that lies
further back than the key lives, and `NoneRepeats` that what a pass is about to serve
has not been served in the period of the pass. The step that matters is a restart after
the key has expired: since it lives as long as the longest period, what comes next is
another period. `OnTime` needs in addition `LoopFits` (a pass takes no longer than
`MaxBusy` for each schedule it still has to serve) and `AllServedSoon`: the next look at
a schedule comes within reach of the time it is owed, where *reach* is a check interval
and one pass, and a pass that left it out began before it was owed. The lemmas below it
are arithmetic of the calendar, `OwedIsDue` above all: a look within reach of the time
a schedule is owed finds it due. This is where `PassesAreShort` comes in, the hypothesis of
`SpecOnTime`: a digest of every four, six or twelve hours is due only in the first hour of
its block (digest_scheduler.py), so a loop that looks less than once an hour can miss it
for a whole block. With the check interval of 300 seconds, which nothing changes (see
below), it holds unless the sends of one pass take most of an hour.

**Evaluation** (`ProfileEvaluationProofs`), for any profiles, rules, messages and edits.
`Inv == CopiesLoaded /\ RowsDecided /\ ReportFollows`: what the worker and the API have in
memory was loaded from some files, a row is what the evaluators made of its message by
the copy of then, and a report says of each row what the test decided of it. Then
- `BacktestsAgree` compares the two decisions. The fields `_collect` looks into are the ones
  `field_mapping` sends to the category (`FieldsAgree`, `CollectedIsLoaded`), so both sides
  see the same signals (`SeenAlike`), and a score at the bar is never one of no signal;
- `NoProfileSilencesAnother` is about merging: without one profile the others have no word
  and no switch more (`MergedGrows`), hence no signal more (`SignalsGrow`), hence no
  point more. That fewer signals score no more would be an induction over a sum; over the
  set of points it is the cardinality of a subset.

**Editing** (`ConfigStoreProofs`), for any requests, entries, attempts and restarts. Of a
file of profiles, `ProfilesWhole` says that a thread that writes and has not shared the
draft is the only one, and what the draft holds where it stands; `FormatsWhole` the same of
the file that is written in place, its copy in memory, and what a request loads, unless the last
saving of it failed half way (`cut`). `LoadsAlone` says of a load between its read and its
look at the file's time that it is the only one, and the copy in memory older than the file.
`DoneHasLanded` and `OkWasDone` connect the thread that is done with the answer.
`LockedEditsSurvive` rests on `LocksHeld` (of channels whose lock has not lapsed under its
holder), on `NobodyLate` (while nobody has given up, a thread under way is the one its
request waits for, so one lock means one thread), and on `EditsKept`: what such a thread is
about to write contains what the file has. Its hypothesis about the lock is needed:
without it, TLC finds an edit lost (see below).

**Asking** (`UiRequestsProofs`), for any threads, requests, switches and crashes.
`KeysMatch` says whose key a thread waits at, `SentForAKey` and `SentOnce` follow a test
message through request, batch, handler and reply, and count one more for each crash and
each deletion of its request that failed; `LoginsMatch` and `OncePerThread` do so for a log-in, which is in the queue, in hand
or answered. `LatestCodeKept` is about the moments between two requests for a code, and what
it needs is what happens inside one (`CodesInOrder`): while nothing excuses an old hash, at
most one thread awaits a code, and the context may name another than the last one only
until that thread has read its answer. A code the user was told could not be sent, while
the context held an older one, is among what excuses.

**Only model-checked:** the liveness properties (`UndeliveredEventuallyTaken`,
`EntrySettles`, `UndigestedSettles`, `ReceivedEventsAreTaken`, `AuthorizedStarts`,
`OwnCachesEventually`), since TLAPS does not reason about fairness and ENABLED here. Which
hour a level agrees on (`Consensus`) is checked in `digest_weekly` and a value of the right
type in the proofs. Every invariant and
every safety property of a step that a passing run checks is stated by a theorem.

## Where code and documents disagree

`session_relogin` is a "violation" run whose counterexample TLC prints: after a log-out
ui/routes/session.py:520 says "Session cleared. You may re-login.", and AuthManager, whose
flag a log-out leaves set, rejects every phone log-in until a restart.

Met while modelling, visible in the models, and not kept as runs:

- worker_orchestrator.py:104 "this should never happen in normal operation": deleting the
  stream at log-out makes XREADGROUP raise NOGROUP and ends `process_loop` for the life of
  the process (`LoopRaises`).
- digest_collector.py:396 "after successfully sending the digest": `_send_digest` logs a
  failing send, and so the rows are marked as digested, as they are when the modes of the
  profiles aggregate to "dm", for which nothing is sent (`Sends`, `SendDigest`).
- docs/OPERATORS_GUIDE_FEEDBACK_LEARNING.md:61 "Next scoring request → Recompute
  centroids": a batch drops a profile's vectors and no scoring loads them; the profile
  matches nothing until `process_loop` begins again or somebody tests its similarity.
- worker.py:1175 "do not ack; will be retried": only new entries (`>`) are ever read,
  so a failed entry, or the rest of a batch cut short by a crash, is never processed
  again; the path is at most once (`AtMostOnceLog`), where README.md:71 says
  at-least-once.
- worker.py:877 "the gate is cleared to pause message processing": the gate is read
  once per XREADGROUP (worker.py:996); the rest of the batch is processed.
- digest_scheduler.py:331: the weekly digest comes at midnight of the seventh day, not
  at the configured hour; digest_scheduler.py:175: the hourly one an hour after the
  last run, not "on the hour".
- redis_operations.py:230: the key of a last run lives for seven days, so the catch-up
  of README.md:348 after a week of downtime does not happen.
- store.py:649: retention by count removes rows no digest has had yet.
- session_lifecycle.py:417: after an import that failed half-way a phone log-in goes to
  a client nobody listens to.
- worker_orchestrator.py:89: the client is looked up once, where the comment says
  "dynamically".
- session_lifecycle.py:809: a log-out published while nobody is subscribed is lost.
- main.py:694 and session_lifecycle.py:127: a phone log-in during an import can leave two
  clients with the ingestion handler connected.
- session_helpers.py:160: the refresher connects the helpers' client whenever it is not
  connected, also while an import or a log-out has just disconnected it and sleeps
  (session_lifecycle.py:143). If the switch began before `main()` registered the ingestion
  handler, so that there was none to remove, that client is listened to next to the new
  one, or after the log-out: TLC finds `OnlyInUseIsHeard` and `HeardOnlyWhileAuthorized` false
  of `CSpec`.
- main.py:631 "sentinel will detect it automatically": a phone log-in that ends before
  the start-up check does has `authorized` overwritten by it, and `main()` spins on the
  set event (`Spinning`).
- telegram_request_handlers.py:242 "cache must be ready": after a switch a handler can
  pass the gate before the refresher has closed it, and serves the old account's
  channels and users.
- docs/USER_GUIDE_FEEDBACK_LEARNING.md:93 "2 severe false positives … → add to negative
  samples": the counters are reset only when a sample was added; if the text was
  missing or a duplicate, the next vote adds *its* text as a negative sample, a thumbs-up
  included (`RecordFeedback` takes the text of the vote, the category of the counters).
- docs/USER_GUIDE_FEEDBACK_LEARNING.md:43 (a drift of at most 0.25): two votes at the same
  time can both be recommended the last raise; `DriftBounded` says by how much. The
  drift is in memory and starts at zero with the process.
- docs/USER_GUIDE_FEEDBACK_LEARNING.md:343 "They stay pending forever until you commit or
  rollback": the editor's save replaces the profile and deletes pending and committed
  samples; their rows keep saying "pending" and make the same text a duplicate.
- worker.py:951: committed samples are never among those passed to
  `load_profile_embeddings`, and the worker sees a raised threshold only when it
  reloads its configuration.
- profile_tuner.py:362: a toggle or an edit of another profile between the load and the
  save of a sample loses one of the two.
- cache_manager.py:577: the refresher does not stop at a log-out;
  cache_manager.py:369: a refresh that was overtaken by a switch is stored all the same;
  cache_manager.py:62: the requests it makes to warm up the handlers use keys none serves.

Evaluation and schedules:

- README.md:531 and :532: a profile's `users` make it applicable to a direct chat and never
  bind it there (`Bound` looks at channels), and its `vip_senders` are not read live.
- config.py:204: an alert profile without `min_score` has 1.0 live and 5.0 in a backtest;
  the backtest's `_as_list` keeps only strings, so it knows no excluded and no VIP sender.
- semantic.py:343 and worker.py:999: a similarity test replaces the worker's vectors by those
  of the API's definition, and a reload of the worker leaves them.
- After any `POST /api/config` the API's configuration holds no profile at all, since it is
  the one validated in the directory for temporary files (`ReloadApi`).
- Overrides are dictionaries once loaded, so a channel with any makes discovery and
  resolution raise AttributeError; schedules that are disabled still vote on the hour;
  `check_interval_seconds` is never passed on from the file (config.py:1008).

Editing:

- ui/routes/channels.py:474 sets the lock of a channel to end after 25 seconds, "safe for ~15s
  operation with buffer", to "prevent concurrent update conflicts" (:371). `requests` applies
  a time-out to the connection and to each wait for data, so the GET (:140) and the POST
  (:181) may take 5 + 5 and 10 + 10 seconds without one. Then the lock ends under an editor
  that still waits, a second one takes it, and the list posted last lacks an edit the other
  has reported: TLC finds this when `LockedEditsSurvive` is asked of the channels in
  `lapsed` too.
- `ChannelRule` has no `enabled`: the switch of a channel is answered 502 (`MergeConfig`).
- `GET /api/config` leaves out profiles, overrides and digests of a channel and more:
  every edit that posts a list back erases them, of all its entries (`Shown`).
- profiles_service.py:75: the next identifier of an interest profile is computed over keys
  that are strings, so every new one is 3000 and replaces the last (`NextKey`).
- profiles_service.py:127: a list that could not be fetched is empty, and an editor then
  posts it back with its one profile (`FetchFails`).
- The route that deletes an alert profile answers 500 after it has deleted it (`Said`); the
  digest endpoints of api.py:2250-2962 always answer 500.
- USAGE.md:214 and USER_GUIDE.md:145 promise a reload after "Save Configuration"; only the
  session upload touches the marker (ui/routes/session.py:480).
- The copy `message_formats.yml.bak` is written and never read; a crash in a save leaves the
  file empty, which stands for the defaults.
- message_formats/loader.py:155 truncates the file it writes; a write that fails after that
  (loader.py:183) is reported as failed and leaves the file empty or torn. Messages go on
  being made from the old formats or not, as the next load finds the file newer or not: a
  load that read before the truncation and asked for the time after it keeps them, with the
  time of the cut-off file (`WriteFormatsFails`, `cut`).
- ui/api/config_routes.py and most global-profile methods of the interface are registered or
  called nowhere.

Asking:

- telegram_request_handlers.py:207 "Cache the result (30 minute TTL)": an answer with a date
  cannot be written as JSON and is dropped silently, so the interface waits in vain; an error
  is cached for thirty minutes, also across a log-out.
- A test message may be sent after the interface has said it failed, and again after a
  crash between sending and deleting the request, or when deleting it fails
  (redis_operations.py:610 logs that and goes on): the next scan of the same process
  finds it.
- telegram_routes.py:240: requests for users are named by milliseconds; two threads may share
  one, and the first answers for both or leaves the other to its time-out.
- A phone log-in that times out in the interface (90 s) goes on in the sentinel: the context
  keeps the hash of an older code, as it does when a failing Redis leaves one in the file,
  and when `send_code_request` (auth_manager.py:285, 327) raises after Telegram has sent
  the code: the user is told it failed, gets it, and cannot log in with it. `excused`
  marks these.

## What is left out

- *Scores* in the message path: every verdict is possible for every message there, and
  `ProfileEvaluation` says which one it is. Patterns within a text, language detection and
  the similarity the embedding model finds are constants.
- *Text.* Formatting, templates, progress bars, logging; *coercion* of single values of the
  configuration.
- *Read-only endpoints*: feeds, statistics, analytics, health; *maintenance* of the database
  and restarts from the interface.
- *The expiry* of cached participant answers, and keys named by a uuid that two threads share.
- *In `UiRequests`*: a SCAN of Redis that returns a key twice, and calls to Redis that fail in
  the interface itself, outside the log-in context: the request is answered with an error.
- *Webhooks.* `_deliver_webhooks` calls the interest adapter with keywords it does not
  take, so the call raises and is logged; nothing else depends on it.
- *Rate limits* of the worker: they only choose verdicts; those of the log-in reject a
  request, which `LoginFails` may do at any time.
- *Client replacement by the relogin coordinator.* Nothing in the user interface starts
  a handshake (its functions have no caller, and its key differs); the gate, which
  the message path and the digests wait for, is modelled.
- *A disconnect that times out.* A log-out goes on after ten seconds whether the
  connection is closed or not; it is taken to be closed.
- *The two requests of a phone log-in* are one in `SessionLifecycle`, its verification, and
  all three kinds in `UiRequests`; *phone log-ins* in `SessionCaches` are left out (they can change the account of a client without
  opening a generation).
- `CheckFindsNobody` may happen whenever the start-up check runs, since both calls it
  makes can time out.
- *Learning of alert profiles* (`alert_feedback_aggregator.py`): another aggregator with
  its own cap, which adjusts `min_score` and has no samples. *Deleting* a profile.
- *The windows of the counters*: `Decay` may forget any of the votes at any time.
- *The digest's two halves are not composed yet*: `DigestTimeline` shows when runs
  happen, `DigestDelivery` what they do.
- *Real time inside the event loop*: a synchronous XREADGROUP holds it for up to five
  seconds; the models let any step take any time, except in `DigestTimeline`.

## Plan

Done, in the order of importance: the message path with its abstract log; the digest
calendar, timeline and delivery; the session and the caches; the learning of interest
profiles; then what decides a verdict, how files are edited, what the interface asks for,
and who asks for which digest. Of all of them every safety property is proved.

1. Abstract specifications of more components, proved step by step as `ImplementsLog` is:
   a test message that is sent at most once for each process and failed deletion
   (`UiRequests`), a register of
   profiles that changes in one step unless its draft is shared (`ConfigStore`).
2. `DigestCoverage`: `DigestTimeline` and `DigestDelivery` composed, for the
   question neither answers: is there a message no digest's window ever covers?
3. `AlertLearning`: the alert profiles' aggregator, which counts and resets under one
   lock and caps the minimum score, against the tuner's writes.
4. `Relogin`: the handshake of `session_manager.py` with its deadline, as it would
   run if the interface started it, against the worker's gate.
