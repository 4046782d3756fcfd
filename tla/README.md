# A verification of ai-gateway

`ai-gateway` is a local gateway between coding clients (Codex, Claude Code, Claude Desktop,
Grok and generic OpenAI clients) and model providers.  One process serves a management API,
which edits `config.yaml` and the configuration files of the clients, and a data plane, which
routes, limits, converts and forwards their requests.  This directory holds TLA+ models of
that process, what TLC checks of them on small instances, and proofs, checked by TLAPS, for
every size.

Line numbers below are of the source files under `internal/` unless a path says otherwise.

## 1. The system

| part | state | operations | hard because |
| --- | --- | --- | --- |
| configuration (`config/config.go`, `validate.go`) | providers with key groups, catalogs and API keys; one route per client; helper models; switches | validation, model ownership, YAML round trip | three representations (memory, file, page) of one thing |
| config manager (`config/manager.go`) | `config.yaml`, the atomic pointer `current` | `Load`, `Write`, `View`, `Snapshot` | crash between the rename and the publication |
| management API (`server/providers.go`, `keygroups.go`, `routesapi.go`, `configapi.go`, `logs.go`, `clients.go`) | the mutex `txMu` | 13 kinds of write request | lost updates, partial failure, stale settings pages |
| client synchronisation (`server/clients.go`, `point/`) | the files of each client, their backups | point, sync, restore, rollback | several files, no common transaction, requests outside `txMu` |
| model discovery (`server/providerprobe.go`) | `modelCache` | probe, cache, invalidate | answers that come after an invalidation |
| routing (`route/route.go`) | none | `Resolve` | must agree with validation and with the listed catalog |
| request limiter (`server/limiter.go`) | counters, one rate window per client | `allowRate`, `tryAcquire`, release | limits change under calls in progress; stale clock readings |
| circuit breaker (`server/circuit.go`) | failures and opening time per provider | `allow`, `observe`, `snapshot` | overlapping calls end in any order |
| data plane (`server/dataplane.go`, `idle_reader.go`, `metrics.go`) | request contexts, counters | admit, forward, stream, release | broken streams, idle timeouts, departing clients |
| protocol conversion (`ir/`, `inbound/`, `outbound/`) | per-stream sequencer, open blocks | read, translate, emit | a broken stream must not look complete |
| one client's files (`point/`) | settings file, generated file, environment variable, backups with manifests | point, sync, restore, verify, roll back | several files and a manifest without a common transaction; refused writes; crashes |
| request log (`logstore/`, `server/trace.go`, `logs.go`) | one file per request, registered sessions, cache of summaries | open, append, close, list, report, delete, clear, retain | everything against everything else, full disks, torn lines |
| life cycle (`process/`, `app/`) | lock file, pid file, `config.yaml` | serve, stop, status, autostart | several processes on one data directory, killed anywhere |
| autostart (`autostart/`) | login registration, a flag in `config.yaml` | apply, verify, roll back | registration and configuration must agree; system calls fail half-way or hang |

**How they meet.**  A management handler takes `txMu`, reads a snapshot, builds the next
configuration, checks it, synchronises the client files that would change, and calls
`Manager.Write`, which validates, renames a temporary file over `config.yaml` and then
publishes the new snapshot.  If the write or a client file fails, the client files already
changed are rolled back in reverse order.  After the write the handler drops the discovered
models of what it changed.  The data plane never takes `txMu`: each call reads the published
snapshot once.  It asks the limiter's rate window, then the limiter's counters, then, per
upstream call, the circuit breaker.  Pointing and restoring a client, and model probes, run
beside all this without `txMu`; one point, sync or restore at a time holds `point.Manager.mu`.
Every data-plane request with logging on is a session of the request log, which listings and
deletions of the management API read and unlink under it.  Other processes reach a gateway
through its pid file and the management API, or pass it by: `autostart` without a gateway
writes the registration and `config.yaml` itself.

**What makes each part correct.**

* Configuration: what is served is valid, durable and loadable; no update is lost; stored API
  keys change only on purpose; every route leads somewhere.
* Client files: between transactions every managed file expresses the published configuration;
  what is listed for a client is what the data plane offers.
* Discovery and routing: what is listed can be asked for; what is switched off is not used.
* Limiter: counters equal the calls in progress; no admission exceeds a limit; a window is
  neither overfilled nor restarted early.
* Circuit: opens only after a row of failures, again when its probe fails; stays closed to calls for
  exactly its cooldown.
* Streams: a success is never made up, and whole when it is reported; the client learns how
  its answer ended; every stream ends.
* Point and restore: what the user had is in a backup as long as the gateway's keys are in the
  file; a failed operation is undone; a restored client has the files it had before.
* Log: a summary is what its file says; a client that turns pages misses nothing; running
  sessions are spared; retention keeps the quota and removes nothing else.
* Life cycle: whoever asks finds the gateway that serves; a gateway asked to stop stops.
* Autostart: registration and flag are what the answer says.

`PROJECT.json` lists the hazards, each at the line where it bites, with the properties that
watch it.

## 2. Modules

| module | models | extends |
| --- | --- | --- |
| `GatewayConfig` | the configuration, `Validate`, the catalog, one operator per handler | |
| `Routing` | `route.Resolve` | `GatewayConfig` |
| `ConfigTx` | write transactions, client files, probes, crashes | `Routing` |
| `ConfigStore` | what `ConfigTx` promises: a register with atomic requests | |
| `Limiter` | the request limiter as a call uses it | |
| `Circuit` | the circuit breaker as an upstream call uses it | |
| `Stream` | one converted stream: reader, sequencer, encoder, logged result | |
| `Point` | one client's files under point, sync and restore | |
| `LogStore` | the request log between handlers, management requests and restarts | |
| `Lifecycle` | processes on one data directory and the autostart transaction | |
| `MCConfigTx`, `MCLimiter`, `MCCircuit`, `MCStream`, `MCPoint`, `MCLogStore`, `MCLifecycle` | instances for TLC | |
| `*_proofs` | theorems and their proofs | the module they are about |

### Configuration: `GatewayConfig` and `Routing`

A configuration is a record: `providers` (a provider or `Absent` for each id), `routes`,
`helper`, `remoteCompaction`, `logging`.  A catalog maps a model to `"undeclared"`, `"on"` or
`"off"`.  `legacy` is `Provider.Models`, a field that has the YAML tag `-`: the availability
handler still writes it (`server/providers.go:653`), `Provider.KeyGroup` lets it override the
catalog of every key group, and `Persisted` drops it.  Names, URLs, headers, capabilities,
limits, UI settings and unknown YAML keys are left out, because no modelled guard reads them.
A request is a record of an `Operation`; `MayX` is what handler X checks, `Result` what it
builds, and `Accepts` adds the validation some handlers make before they touch a client file.
`Omitted` is a nil pointer of the JSON payload.

`Resolve` is the routing function over decoded model names: nothing or `gateway-default`, a
family name of the desktop application, a full id, or a bare model.

### Transactions: `ConfigTx`

| variable | in the code |
| --- | --- |
| `up` | the process runs |
| `view`, `disk` | `Manager.current`, `config.yaml` |
| `cache` | `Server.modelCache` |
| `txMu` | holder of `Server.txMu` |
| `pc`, `asked`, `tx`, `answer` | the goroutine of each write request: where it is, its request, its locals, its response |
| `file` | the settings each client file expresses; `NoSettings` when it is not managed |
| `pointing` | settings computed by a point request and not applied yet |
| `fetching` | probes in flight |
| `drift` | history: the managed clients whose file a point request, a crash or a failed rollback left behind |
| `stale` | history: the managed clients whose catalog the discovery cache changed under, and whose file was not written since |

| action | code |
| --- | --- |
| `Receive` | the request arrives; a settings page was filled from the snapshot of that time |
| `Begin` / `Reject` | `txMu.Lock`, `Snapshot`, the handler's checks, `clientSettingsChanges` |
| `SyncOne`, `SyncFails` | `applyClientSettingsChanges`, one client at a time |
| `WriteFile`, `Publish`, `WriteFails` | `Manager.Write`: validate and rename, then store |
| `Finish` | `invalidateModels`, the response, `txMu.Unlock` |
| `RollbackOne`, `Abort` | `rollbackClientSettingsChanges`, the error response, unlock |
| `StartPoint`, `FinishPoint`, `FailPoint`, `RestoreClient` | the client endpoints, without `txMu` |
| `StartFetch`, `FinishFetch`, `FailFetch` | a model probe, without `txMu` |
| `Crash`, `Restart` | the process dies; `Load` |

`Settings.Equal` compares catalogs entry by entry (`point/clientcatalog/clientcatalog.go:168-178`).
A catalog here is a set, so `SyncSets` lets a transaction synchronise clients whose set of
models stays the same wherever the code may list it in another order (`Reorders`): declared models
come before discovered ones, and `modelCatalog` walks the key groups with discovered models in map
order.

**Which clients may lag.**  The code orders point requests and crashes with nothing, and reports a
failed rollback without retrying it; a client such an event left behind is put in `drift`, and
leaves it when it is pointed with current settings or restored.  Neither a probe that answers
(`FinishFetch`) nor `invalidateModels` at the end of a write request (`Finish`) writes a client
file, so a client whose discovered models come or go is put in `stale`, and leaves it when its file
is written.  While a transaction is open, its clients are computed with the models known when it
began, and what a probe found meanwhile is accounted for when it ends.  `FilesAgree` is about every
client outside `drift`, and of those in `stale` it still demands all that the configuration alone
decides (`Preferences`: compaction, helper models, display name).  What the lag costs is said by
`EnabledModelsAreListed`, which the code violates (`config_discovery`).

### The register: `ConfigStore`

The abstract specification has the current configuration and the phase of each request.  A
request commits at one instant, on the configuration of that instant, or is rejected, fails or
is lost in a crash without any effect; a committed one is never undone.  The refinement
mapping takes as the register the published snapshot, the file while the process is down, and
the new configuration from the rename on: the rename is the instant a request takes effect.

### Limiter and circuit

`Limiter` follows a call through `serveDataPlaneWith`: it takes the limits of its snapshot and
reads the clock (`Arrive`), passes the rate window (`PassRate` or `RateLimited`), takes its
slots (`Acquire` or `ConcurrencyLimited`) and gives them back (`Release`, however the call
ends).  `ChangeLimits` is a management write.  Between the reading of the clock and the mutex
other calls and time may pass.

`Circuit` follows a call through `upstreamDo`: `Ask`, `Allow` or `CircuitOpen`, `Answer`,
`Observe`.  An answer is `"ok"` (a status below 500), a failure of the upstream (connection error, timeout,
5xx) or an error that is not (the client went away, no secret).  The code counts both sorts of error
as failures, which section 5 comes back to.  A call that finds a circuit cooled down is its `probe`;
the circuit is forgotten at that, and nothing keeps other calls out while the probe is away.  `streak`
is a history variable: calls in a row that ended without an answer below 500, whether or not the
circuit was forgotten among them.

### Streams: `Stream`

`Stream` is `streamCrossProtocol` (`server/dataplane.go`) for any two different protocols out of
chat completions, messages and responses.

| variable | in the code |
| --- | --- |
| `upstream`, `inbound` | the protocols of the upstream and of the client |
| `conforming`, `sent` | environment and history: whether the upstream keeps to its protocol, what it has sent |
| `reader`, `pending` | the state of the `StreamReader` of `outbound/`, and its queue of parsed events |
| `seq` | `ir.Sequencer` |
| `pc`, `event` | where the loop of `EncodeStream` is, and what `next` returned to it |
| `client` | the state of the encoder, and with it what the client was sent |
| `gone` | the context of the request has ended |
| `trace` | `requestTrace`: an error was set; the result that was logged |

| action | code |
| --- | --- |
| `Receive` | the reader parses one thing the upstream sent into zero or more events |
| `UpstreamEnds`, `UpstreamBreaks`, `TimeOut`, `Cancelled` | the body ends; reading it fails; the timer of `idleTimeoutReader` fires; the context of the request ends |
| `ClientGone` | the server notices that the client has left |
| `Deliver` | `next`: `StreamReader.Next`, then `Sequencer.Push`; their errors become an error event |
| `Encode`, `EncodeFails` | the encoder writes an event, or its write fails |
| `LogResult` | `trace.finish` |

An upstream may send anything its protocol has a name for, in any order.  `Follows` says what
one that keeps to its protocol sends; only `ToolsAreClosed` and `AnswersComplete` assume it.
Texts are counted and the pieces of the arguments of a tool call are numbered: that is all the
properties need to tell a lost, repeated or reordered piece.  Reasoning is text.  Arguments of a
chat tool call that come before its id are dropped by the reader; `SuccessIsWhole` leaves such a
*late* call out.  Token usage and custom tools are left out.

### One client: `Point`

| variable | in the code |
| --- | --- |
| `kind` | the client: codex, claude, grok or desktop |
| `file` | content of the settings file (`Main`), of the generated catalog or cache (`Side`) and of the desktop profiles (`1..MaxPoints`): the user's text and the gateway's keys |
| `env` | the placeholder variable of codex |
| `modelsCache` | whether codex's own `models_cache.json` is there |
| `backups` | backup directories with their manifests |
| `op` | the operation that holds `Manager.mu`: its plan, how far it is, what it undoes |
| `last`, `mine`, `broken` | history: the latest answer (with the place the operation failed at), what the user last had of his own, an operation that was cut short |

| action | code |
| --- | --- |
| `Point`, `SyncSettings`, `Restore` | the early returns, and the plan of the files to replace (`planClientWrite`, `pointClaudeDesktop`, `restoreClaudeDesktop`) |
| `CreateBackup` | `createBackup`: copies, then a manifest that is not complete |
| `WriteFile`, `WriteRefused` | `clientWrite.apply`, or the loop of `Restore`, one file at a time; after the last one of a codex point or synchronisation `InvalidateModelsCache` (`point/point.go:275`, `382`) |
| `SetEnvironment` | `UserEnvironment.Set`, `restoreEnvironment` |
| `Verify` | the files are read again |
| `WriteManifest` | `Completed` or `RestoredAt` |
| `CleanUp` | `cleanupUnreferencedCodexCatalog`, `InvalidateModelsCache` (`point/point.go:498-499`) |
| `UndoFile`, `UndoEnvironment`, `UndoManifest` | the rollback closures |
| `Crash`, `EditFile`, `EditEnvironment`, `RefreshModels` | the process dies; the user works on his files; codex fetches its models and caches them |

Every step that touches the system may be refused instead.  The four clients differ in the order
of files, in what a restore does with a file that was not there, and in what fails quietly:
`apply` does not look at errors of its own rollback.  A desktop profile is named after the number of
its backup: the code draws it at random, and a name is drawn once.  The user edits between
operations only: an edit during one is lost in the code, which holds no lock on the file.
`models_cache.json` is in no manifest and no rollback; `LoadTemplate` reads the template of codex's
catalog from it when the CLI gives none (`TemplateMissing`), and without either a point or a
synchronisation is refused.

### The request log: `LogStore`

| variable | in the code |
| --- | --- |
| `file` | the log files: the day of their directory and their events, `"torn"` for half a line |
| `session`, `sessions` | where the handler of each request is; `Writer.sessions` |
| `cache` | `Writer.summaryCache`: a summary and the size it was read under |
| `task` | listings (with the pages already shown) and removals in progress |
| `phase`, `candidates`, `total`, `now` | whether the gateway runs; the running retention; the date |

| action | code |
| --- | --- |
| `CreateLog`, `Register` | `OpenWithRedaction`, which creates the file before it registers the session |
| `AppendRequest`, `RefuseRequest`, `AppendNote`, `AppendResult`, `CloseSession` | `startTrace`, `route` and the events after it, `finish` |
| `EndExchange` | the upstream has answered or failed and the client has its answer or is gone, which may never happen |
| `BeginListing`, `StatPath`, `LookUpOrRead`, `Store` | `List`, `Usage`, `Inspect` through `cachedSummary` |
| `AnswerPage`, `RefuseCursor`, `AnswerReport` | the page with its cursor, or the report |
| `BeginRemoval`, `CheckActive`, `RemoveFile`, `RemoveFails`, `Forget`, `AnswerRemoval` | `Delete`, `Clear` |
| `Start`, `RetainNext`, `Serve` | `Listen`, which runs `Retain` before it serves |
| `Stop`, `Die` | `Shutdown`; the end of the process, which may tear a line |

An append is one step for readers, since the code writes a line with one `write`; walking the
directory is one step; the date changes between two runs of the gateway only.  Filters,
redaction and token sums are left out; `Detail` and `Export` only read.

### Processes: `Lifecycle`

| variable | in the code |
| --- | --- |
| `config` | `config.yaml`, reduced to `autostart.enabled`: every write stores all of the writer's memory, this flag included |
| `lock`, `pidFile` | `gateway.lock`, `gateway.pid.json` |
| `unit`, `enabled` | the systemd unit file, and whether systemd has it enabled |
| `pc`, `memory`, `port`, `asked` | where each process is, its loaded configuration, its port, the gateways a `stop` reached |
| `tx` | the autostart transaction of each process |
| `disturbed` | history: transactions another process interfered with |

| action | code |
| --- | --- |
| `BeginServe`, `CreateConfig`, `AcquireLock`, `Serve`, `Fail` | `runServe`: load (and create) the configuration, lock, bind, write the pid file |
| `BeginShutdown`, `RemovePID`, `ReleaseLock` | shutdown and the deferred calls, in their order |
| `Save` | any other management write of a gateway |
| `BeginCommand`, `Stop`, `CallStatus`, `ProbeLock`, `EndProbe`, `CallHealthz`, `SetAutostart`, `LoadConfig`, `ApplyLocally` | the commands |
| `HandleAutostart` | PUT /api/v1/autostart, under `txMu` |
| `ReadStatus`, `Enable`, `Disable`, `Verify`, `WriteConfig`, `EndApply` | `autostart.Apply` and its way back |
| `Die` | a process is killed |

A call of the registrar is one step that may fail after any prefix of what it does.  The release
of the lock and the end of the process are one step.  What fails a step may fail the way back,
too: that counts as one fault.

## 3. What is checked

| run | instance | shows |
| --- | --- | --- |
| `config_tx` | 2 overlapping requests out of 13 (one of each kind), 2 providers, 2 key groups, 2 models, 3 managed clients and the generic one, crashes, failures, restores | the safety of the transactions and the refinement of `ConfigStore` |
| `config_races` | 2 requests out of 3 (one changes what only codex's file says, one removes models, one declares a model) with codex pointed, a point request and probes of one model that may answer late, under `FairSpec` | files agree as far as section 2 says; every request ends |
| `limiter` | concurrent calls, 2 clients, 2 providers, changing limits, a clock around window boundaries | no slot leaks, no limit exceeded, no window overfilled |
| `circuit` | 3 calls, 1 provider, threshold 3, cooldown 2 ticks, 5 ticks | opening, blocking and cooldown |
| `stream` | any two protocols, 2 tool calls, up to 10 messages of the upstream, breaks, silence, departures | a success is real and whole, the client learns of the end, every stream ends |
| `point` | each of the 4 clients, 2 settings, 2 texts of the user, 2 backups, 2 edits, 2 refused writes, 1 crash | nothing of the user is lost; failures are undone, but for `models_cache.json`; restores are exact |
| `logstore` | 2 requests (or logs left behind: whole, interrupted, torn), 2 management tasks of which one turns pages, 2 days, a quota of 2 lines, 1 refused write, 1 start and a crash | cache, pages, removals, retention, and that sessions end when their exchange does |
| `lifecycle` | 2 gateways with 2 starts, 2 ports, 1 command, 1 management change, 1 fault, on a fresh directory and on one with a foreign registration | pid file and lock, the autostart transaction, and that a stop ends |
| `config_discovery`, `config_legacy`, `circuit_probe`, `stream_complete` | the same modules, one property each | disagreements of code and documentation, section 5 |

The properties of the passing runs, each with the bug that would break it (the operators
marked *Mutant* in the modules):

* `ViewIsDurable`: a snapshot is published only after the file; a start finds what was served.
* `ViewIsValid`: whatever a handler lets through, the data plane reads only valid
  configurations.
* `SnapshotIsFresh`: nobody replaces the snapshot a transaction works on.
* `FilesAgree`: a failed request leaves no half of its change in client files, and a committed
  one reaches every managed file.  The mutant of `config_tx` forgets one that was synchronised
  when it rolls back; that of `config_races` compares catalogs only and misses the compaction switch of
  codex.
* `RoutesResolve`: the route of a client resolves to itself unless its provider is switched
  off, whatever was edited in whatever order.
* `KeysChangeOnPurpose`: a settings page that was filled before a key was rotated does not
  bring the old key back.
* `ImplementsStore`: the refinement above.
* `EveryRequestEnds`: a request that arrived is answered, or lost in a crash.
* `SlotsMatchCalls`, `LimitsRespected`: the counters are the calls in progress, and these
  never exceed what the last admitted one was allowed, although limits shrink meanwhile.
* `RateHolds`: a window takes no more than the limit allows and is replaced only a minute
  after it started, even by calls with an old clock reading.
* `OpenAfterStreak`: a circuit is open only after a threshold of calls in a row without one answer
  below 500, whichever way overlapping calls report their ends.  It does not say whose fault the ends
  were, nor how soon a circuit opens again: there the code is not what its documents say (section 5).
* `ReportedOpenBlocks`, `CooldownIsFixed`: nobody passes while the metrics report the circuit open;
  late failures do not push the cooldown away.
* `NeverFabricated`: a stream that broke, stalled, failed or was cancelled never ends with
  success, although three readers and three encoders each end a stream in their own way.
* `SuccessIsWhole`, `ArgumentsInOrder`: with success every text and every argument has arrived;
  arguments arrive in order, none twice, none skipped between two that arrive.
* `EndIsTold`, `ToolsAreClosed`: a client that is still there learns how its answer ended, and
  with success none of its tool calls is left open.
* `EveryStreamEnds`: a silent upstream or a departed client ends the handler, and with it the
  slots of the call.
* `OriginalIsKept`: while the gateway's keys are in a settings file, a backup holds what the user
  had there, wherever an operation was refused or the process died.
* `FailureIsUndone`: an operation that fails with one refused write leaves the variable and the files
  it plans to write as they were.  Only the loop of a restore stops half-way (`StoppedInLoop`): there
  each file is as it was or already as in the backup, and the backup is still the one that the
  next restore takes (`HalfRestored`).  `models_cache.json` is not meant (section 5).
* `ManagedIsRestorable`: a pointed client has a backup to go back to, unless an operation was cut
  short or could not put a file back.
* `RestoreIsExact`: after a restore every file of its manifest and the variable are what they were.
* `CacheIsExact`: a cached summary that would be answered is what the file says, although
  handlers append between the stat, the read and the store of a listing.
* `PagesCover`: a client that follows the cursor sees every log that was complete when it began
  and still exists, and none twice.
* `SessionsAreSpared`: `Delete` and `Clear` pass over logs whose session was registered when they
  began.
* `RetentionHolds`: only complete logs go, for age or, oldest day first, for the quota; serving
  starts with neither too old nor too many.
* `EverySessionEnds`: no session stays registered, not even one whose first event was refused, but
  while upstream and client keep its request going.
* `PidNamesServer`: while a gateway serves, the lock is its own and the pid file leads to it,
  whoever else starts, fails, is killed or probes.
* `RegistrationAgrees`: an autostart change that no other process interferes with is answered with what
  registration and flag are: as wanted after a success, as before after an error.
* `StopEnds`: a gateway that accepted a `stop` goes away, with a handler hanging in `systemctl`.

**Bounds.**  Two requests are enough for a lost update, a stale page or a rollback that meets a
commit; requests are sent once each, so a sequence of three edits is the longest history
checked (`config_legacy`, which has three).  Two providers and key groups distinguish "this
one" from "another", and the first of three clients in `SyncRank` order can have been changed
when the second or third fails.  `MaxPoints` bounds point requests.  In the limiter and the
circuit, calls return to `idle` and repeat, so histories are unbounded up to `MaxTime`; three
calls allow one in each phase and a streak at the threshold with all of them in flight.
In `Stream`,
`MaxWire` lets a Messages upstream complete an answer with two tool calls of two argument
pieces each (`MaxPieces`), interleaved or not; two pieces are the least that can be swapped.

In `Point`, two backups let a second point follow a restore or an edit, two refused writes let
one hit the rollback of the other, and the four kinds are checked from every combination of
files present before.  In `LogStore`, one request can be new while a log of the other is there,
which is what a removal, a listing and retention need to meet one; two tasks race on the cache;
two lines of quota and logs of two lines put the sum at the limit and above it.  In `Lifecycle`,
two starts let a second gateway meet a serving, a stopping and a killed one; one fault is one
place where the system fails, and every place is tried.

Symmetry is over requests and calls, which no operator tells apart, and never in a run with a
liveness property.

**Fairness.**  `FairSpec` is weak fairness of the steps of each request: a goroutine that can
run does run.  Weak fairness suffices for the mutex because each request is sent once and the
holder always releases it.  Nobody is obliged to send, point, probe, crash or
restart.  `Stream` assumes weak fairness of `Deliver`, `Encode`, `LogResult` and `TimeOut`: the
goroutine runs on, and every read of the body has an idle timer, which validation keeps at one
second or more (`config/validate.go:336`).  Nothing obliges the upstream to send.  Fairness of
`Encode` assumes that a write to the client returns or fails: the server sets no write deadline
(`server/server.go:91`), so a client that stays connected and never reads is outside the model.
`LogStore` has weak fairness of the steps of each request's handler that wait for nobody
(`OwnStep`).  That the exchange ends is not among them: a stream has its idle timer, but bodies that
are read as a whole have none (`server/dataplane.go:501`, `575`, `742`), and nothing bounds a client
that does not read.  Listings and removals owe nothing.  `Lifecycle` has weak fairness of
the main goroutine's own steps and of a shutdown that was asked for; nothing is assumed of the
autostart transaction, since a system call may hang: `StopEnds` rests on the grace period of
`Shutdown` alone.

Deadlock is checked in the runs of `ConfigTx`, `Limiter` and `Circuit`; a stream ends, and in
`Point`, `LogStore` and `Lifecycle` the bounds on starts, edits and refused writes come to an
end. In `ConfigTx` that is a property worth having: a gateway that crashed can always start
again from the file it left (the runs that reach a file `Load` refuses are the violation of
`config_legacy`).

## 4. What is proved

For every value of the constants, under the assumptions named in the modules (finite sets
where cardinalities occur, special values distinct from ordinary ones, a valid initial file):

* `GatewayConfig_proofs`: the result of every handler is a configuration (`ResultIsConfig`),
  and the lemmas on `KeyGroup`, `Persisted` and `Valid` the next module cites.
* `ConfigTx_proofs`: `TypeCorrect`, `Serialized`, `Durable`, `ServedIsValid`, `DefaultsRoute`,
  `KeysOnPurpose`, `FilesFollow` (a managed client outside `drift` has the settings of the published
  configuration, its catalog excepted when it is in `stale`), and `Implements`: `ConfigTx` implements the register.
  About routing: `TargetsAreOn`, `BareNamesAreUnambiguous`, for every configuration and request, and
  `RoutesByName` (the model of a route can be asked for by its bare name).
* `Limiter_proofs`: `LimiterTypeCorrect`, `SlotsAreExact`, `LimitsAreRespected`, `RateIsKept`.
* `Circuit_proofs`: `CircuitTypeCorrect`, `OpensAfterStreak`, `BlocksWhenReportedOpen`,
  `CooldownKept`.
* `Stream_proofs`: `StreamTypeCorrect`, `NeverFabricates`, `TellsTheEnd`, `KeepsOrder`,
  `ArrivesWhole`, `ClosesTools`, for any number of tool calls, any bounds and an upstream that
  sends anything (the last one: that keeps to its protocol, as the property says).
* `Point_proofs`: `TypeCorrect`, `OriginalsAreKept`, `FailuresAreUndone`, `RestoresAreExact`,
  `ManagedAreRestorable`, for each kind of client, any settings and texts, and any number of
  backups, edits, refused writes and crashes.
* `LogStore_proofs`: `LogTypeCorrect`, `CacheIsAlwaysExact`, `RunningLogsAreSpared`,
  `RetentionIsRight`, `PagesAreWhole`, for any number of requests, listings and removals, any page
  size, quota and age, and any logs left behind.
* `Lifecycle_proofs`: `LifecycleTypeCorrect`, `PidFileNamesServer` and `AutostartAgrees`, for any
  number of gateways and commands.

Every safety property and every action property that a passing run checks is a theorem; what the
runs keep to themselves are the four liveness properties.

**The inductive invariant of `ConfigTx`** is `IInv`.  None of the safety invariants is inductive
alone.  `SnapshotIsFresh` needs that only the holder of `txMu` is inside a transaction
(`LockHeld`).  `ViewIsDurable` needs that what is about to be published is in the file already
(`WrittenFirst`) and that the file is a fixed point of the YAML round trip
(`DiskIsPersisted`), since a restart reads it back.  `KeysChangeOnPurpose` needs that what a
transaction carries is what its handler built from its snapshot (`NextIsResult`), and
`Loaded`, `AskedSomething` and `TxFilled` say which variables hold values in which phase.
`RoutesResolve` follows from `ViewIsValid`: a valid route whose provider is enabled is an
enabled reference.  So does `RoutesByName`; there a generic client whose bare name several providers
claim is sent to its route because the route is one of the owners, or the only one.
`TargetsAreOn` states its exception as the code has it (section 5, Routing).

**Client files.**  `FilesAgree` speaks of the moments between transactions; `FilesInStep` says what
holds in between.  A client outside `drift` expresses (`Expresses`: but for the catalog when it is in
`stale`) the settings of the published configuration, or,
while a transaction is in progress, those of the configuration the transaction has written or is
about to write (`Midway`), and the transaction knows which: what it has changed and not rolled back
is what it would have to roll back.  `FoundModels` says that discovered models show in the catalog
only, so that whom they leave behind is in `stale` and still agrees in everything else.  `DownIsQuiet` adds that nothing is in progress while the process
is down.  Which clients a transaction must synchronise is computed without looking at `logging`, which
no client file expresses (`LoggingIsInvisible`).

**The refinement proof** uses `IInv` and shows, action by action, that `WriteFile` is the
commit, `Finish`, `Reject` and `Abort` are the answers, and that the other steps leave the
register and the phases alone; a crash between rename and publication leaves the register at
the new configuration because the file already holds it.

**The limiter** needs an extension of `LimitsRespected` to be inductive: the last call to come
in may leave first.  `LimitsSeen` says it of every subset of the calls in progress: in each
there is one that is allowed at least their number, namely the last to come.  The invariant at
the level of sets is what survives a release; `LimitsRespected` is the case of the whole set.

**The rate window.**  `RateHolds` needs the types only: a window that a call finds by a clock it has
read earlier is the present one or begins a minute or more after it (`WindowFollows`), because a call
whose clock is behind falls into the present window.

**Streams.**  The invariant is `TypeOK /\ Honest /\ EndIsTold`.  `Honest` says that a completion
travels: where one is on its way (in `pending`, in `event` or at the client), the
upstream has sent it.  Its hard step is `Receive`, since each reader makes a completion event at
a place of its own; the lemmas about `Events` say that whatever a reader yields is an event, and
a completion only from what completes.  `EndIsTold` needs that `pc` reaches `"ended"` only
after an event that ends the answer, or a failed write, which ends the context too.

`ArgumentsInOrder`, `SuccessIsWhole` and `ToolsAreClosed` have one invariant, `Flow`.  While
nothing has gone wrong, what has arrived and what is on its way (the event being encoded and the
queue behind it) add up to what was sent: so for texts (`TextFlows`) and, call by call, for pieces of
arguments (`ArgumentsFlow`); at most one event of each sort is on its way and an end comes last
(`Once`, `EndsLast`); and reader, sequencer and encoder agree on which calls are open
(`CallsAgree`, `ChatCloses`, `OthersClose`).  Once something has gone wrong no success is told any
more, and what has arrived stays as it is.

**One client.**  The proofs about `Point` follow an operation by what it has done so far.  `TypeInv`
adds to the types the shape of an operation: its plan holds each file once, in an order that
belongs to its kind, with the contents from before.  `UndoInv` says that what an operation has not
touched yet, or has put back, is as before, for every place it can be at.  `HalfInv` says of the
loop of a restore that each file is as before or as the backup has it, and that what the loop still
holds comes from that backup.  Steps that touch `models_cache.json` only keep all of this (`Aside`).
`OriginalInv` says that
the user's file is on disk unless the gateway's keys are, and then it is in a backup (`Safe`); that
the same is true of the original in every backup and of what the running operation goes back to; and
that from its first write on the backup of the operation holds it, which is why the copies must be
there before.  `ExactInv` says that of the files of its backup a restore has put back all that its plan
does not still hold.  `Restorable` says, as long as nothing was cut off, that a client with the
gateway's keys has an available backup, and that an available backup whose original has these keys has
an older available one, so that a restore leaves something to go back to.  That a newest backup exists, and that a plan has a last file, are
induction over numbers; they are proved from the well-foundedness of `<` in the form that every set
of numbers has a least one (`WFMin`), since the schemes with a predicate cannot be used.  The proof
found two alternatives of `AfterWrites` that overlapped; they exclude each other now, as the
`switch` in the code does.

**The circuit.**  `OpenAfterStreak` follows from `CountsStreak`: what the circuit of a provider counts
is never more than the calls in a row that ended without an answer below 500.

**The request log.**  That a summary in the cache is exact rests on how logs live: a log is made
once, grows line by line, and once removed never comes back (`Grows`).  `Inv` says of every entry,
and of the size and summary each listing has in hand, that the size is one the log has had
(`EntryOK`, `ListingOK`); if it still is the size, the log has not changed since.  This is why
the entry must carry the size of the stat and not a later one.  `SessionsAreSpared` needs that a
session registers only while its log is new (`RemovalOK`): one that was registered when a removal
began and is not at its check does not come back before the unlink.

Retention needs that nobody else runs meanwhile (`NobodyRuns`) and, in `Retained`, that the sum it
carries is the size of the complete logs there are and that no log it has passed over is old or met
a sum above the quota: since the sum only shrinks, one log that was kept for the quota proves that
the quota holds from there on.  The size of a set of logs is the number of its lines as pairs of log
and line, so that sums come from the theorems about finite sets and no recursion is needed.

`PagesCover` rests on an order that must not move under the client: `SameStart` says that all who
know when a log started (the disk, the cache, every listing) say the same, and that nobody knows
it of a log whose start may still change (`LogLives`: such a log is empty, and an empty log is not
read).  `Walk` then says of a client between two pages that it has seen nothing after the cursor,
and everything it expects up to it.  A page is a beginning of what comes after the cursor, and one that
is not the whole has a last log (`PageBegins`), so both halves survive the step to the next page.

**Processes.**  `PidNamesServer` is not inductive: the gateway that removes the pid file must be
known to hold the lock, or it could remove the one of another that serves.  `HolderHasLock` says
so of everyone between lock and exit, and of a command that probes.

`RegistrationAgrees` needs to know at each step of a transaction what it has found and done
(`OnCourse`): the status it began with, what registration and flag are at this point if nobody
interferes, and on the way back what there is left to undo; and that a process in a transaction has
loaded a configuration, which exists (`ConfigIsThere`).

**Left to TLC.**  `EveryRequestEnds`, `EveryStreamEnds`, `EverySessionEnds` and `StopEnds`:
liveness under fairness is outside what TLAPS proves, as is `ENABLED`.  No module of the models has a
recursive operator, so nothing is left to induction over data.

## 5. Where the code and its documentation disagree

Each is a run TLC must find violated; `PROJECT.json` quotes the lines.

1. `config_discovery`: a model that was discovered before it is declared is in every list that a
   transaction compares, before and after (`server/clients.go:72`), so the files of clients pointed
   before the discovery never get it, although `GET /v1/models` answers with it; the comment at
   `server/dataplane.go:1138-1141` says that the two can never disagree.
2. `config_legacy`: a provider-level model switch lives in memory only and hides the catalogs
   from validation; switching off a routed model then writes a file that the next start
   refuses.
3. `circuit_probe`: `allow` forgets a circuit that cooled down (`server/circuit.go:50`), so a probe that
   fails is failure 1 of 3; the comment at 48-49 says that it opens the circuit again.
4. `stream_complete`: an answer that a Responses upstream completes as its protocol demands
   reaches the client as an error: `response.in_progress` is read as a second start, and the end
   of a tool call is read twice (`outbound/openairesponses/openairesponses.go:482`, `539-573`).

Read in the code beside these, without a run of their own:

* Providers: updating a provider with its key groups but without `api_key` erases the stored keys
  (`server/providers.go:518`); the comment at 55-56 and `docs/v1-scheme.md:432` promise they stay.
* Routes: switching the route of the desktop application rewrites its profile, which names the route
  (`RouteDisplayName`, `server/clients.go:53-55`), against `docs/v1-scheme.md:36`, 494 and 982 and the
  comment at `server/clients.go:30-32`; `README.md:165` and `docs/feature-checklist.md:87` of the
  repository describe it as intended, and the model follows the code.
* Routing: a bare model of the route's key group reaches a provider that is switched off
  (`route/route.go:183-197`), against the comment at 92.
* Circuit: after the cooldown every caller passes, not one (`server/circuit.go:48-51`); departures of
  clients and missing secrets count as failures of a provider (`server/dataplane.go:706`), against
  `docs/v1-scheme.md:882`.  `OpenAfterStreak` therefore speaks of calls without an answer, and not of
  failures of the provider.
* Streams: a converted stream that broke is logged with status success
  (`server/dataplane.go:566`); a Messages client of a stream that ends before it began is told
  nothing (`inbound/messages/messages.go:716`).
* Whole answers: `pipeBody` answers a body it could not read with status 200 and nothing
  (`server/dataplane.go:741-745`), and the body is read without a timer; a Responses answer with tool
  calls reaches a chat client with the finish reason `stop` (`inbound/chat/encode.go:84`).
* Discovery: a probe or an invalidation changes `GET /v1/models` at once and client files with the next
  write that notices, if any (run 1); discovered models are listed, and `Resolve` rejects them
  (`route/route.go:138`).
* Point: `apply` drops the errors of its rollback (`point/point.go:656`), which
  `docs/v1-scheme.md` 12.1 wants reported; after a crash before `Completed` a client is pointed and has
  nothing to restore; `models_cache.json` of codex is deleted before the steps of a point that may
  still fail and never put back (`point/point.go:275`, `382`, `499`), against the same section
  (`docs/v1-scheme.md:1075`), and with it may go the only template `LoadTemplate` finds; a restore of the
  desktop application writes empty files where there were none (`point/claudedesktop_point.go:315`,
  `337-345`), against `docs/v1-scheme.md:1080`, and an empty meta file makes the next point fail; after a
  codex point that died before the variable was set, the next point
  backs up the pointed file; a desktop restore that died between profile and meta file
  leaves `Select` failing for every later operation; a second restore goes back to the
  backup before.
* Log: `Delete` and `Clear` between the creation of a file and its registration unlink the log of a
  running request (`logstore/store.go:80-97`), against the comment at 350; a torn first line hides
  a log from listings and from retention for good; a deletion that races a listing can leave an
  entry in the cache without a file.
* Life cycle: the configuration is loaded, and created, before the lock is taken
  (`app/app.go:114`): a starting gateway can serve an old configuration or write defaults over one
  just created; the `autostart` command writes `config.yaml` beside a starting or stopping gateway,
  although `autostart/transaction.go:29-31` asks callers to serialise; `status` holds the lock for a
  moment, so that a start beside it is refused, although `process/lock.go:80-82` says that a probe
  leaves no side effect; a handler cut off at the end of the grace period can leave registration
  and flag apart.

## 6. Plan

Done: `GatewayConfig`, `ConfigTx`, `ConfigStore`, `Routing`, `Limiter`, `Circuit`, `Stream`, `Point`,
`LogStore` and `Lifecycle` with their runs, and proofs of all their safety properties.  To come:

1. Routing and the listed catalog: which of the listed models `Resolve` answers with, beside the
   theorems that say what it may answer with.
2. Abstract specifications beside `ConfigStore`: a log directory as a set of finished entries that
   `LogStore` implements for its readers, and a client's files as the user's or the gateway's that
   `Point` implements.
3. Conversion of requests: the order of tool calls and their results through the three
   protocols, against a reference definition over bounded conversations.
4. Whole answers and streams that need no conversion, beside `Stream`.
5. The composition of `Point` with `ConfigTx`: an operation refines the single change of `file`.

## 7. Not modelled

Text editing of JSON and TOML files, parsing and encoding of the three wire protocols, secret
stores, token usage, custom tools, URL handling, redaction, reports and header checks, the desktop
user interface and the benchmark: pure I/O or pure functions of text, whose state is nothing but
their input.  The registrars of macOS and Windows, which reach the same states through other
commands.  What is planned but missing is in section 6 and, part by part, in `PROJECT.json`.

## 8. Running

    tlc -config MCConfigTx.cfg MCConfigTx
    tlapm ConfigTx_proofs.tla

Module and configuration of each run are in `PROJECT.json`.
