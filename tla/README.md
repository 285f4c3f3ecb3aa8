# Verification of statsig-go-sdk

TLA+ models of the Statsig server SDK for Go, checked with TLC, and most of their
safety properties proved with TLAPS. The SDK keeps a local copy of feature gates, configs and ID
lists, evaluates them in the application's process, and sends exposure events
back. What is hard about it is not the evaluation of one gate but everything
that happens around it at the same time: two pollers, download goroutines, a
flush ticker, sender goroutines, calls from the application, and Shutdown.

## 1. The system

| Component | State | Operations | Talks to |
|---|---|---|---|
| global instance (`statsig.go`, `global_state.go`) | `instance`, global output logger, neither locked | Initialize, InitializeWithOptions with InitTimeout, the package-level functions, Shutdown, ShutdownAndDangerouslyClearInstance | client API |
| client API (`client.go`, `types.go`) | pointers; a layer keeps a closure that logs | CheckGate, GetConfig, GetExperiment, GetLayer, LogEvent, Manually…, LogImmediate, typed getters, Shutdown | evaluator, logger, error boundary, network |
| error boundary (`error_boundary.go`) | `seen` | capture…, ebRecover, logException, checkSeen | diagnostics, network |
| event logger (`logger.go`) | `events`, `mu`, ticker | logCustom, log…Exposure, backgroundFlush, flush | transport, diagnostics |
| diagnostics (`diagnostics.go`) | markers and sampling rates of three contexts | mark, serializeWithSampling, clearMarkers, updateSamplingRates | logger (reads), store (writes) |
| transport (`transport.go`) | none | postRequest, retryablePostRequest, get, retry | network |
| config store (`store.go`) | specs, `lastSyncTime`, `initReason`, `syncFailureCount`, `shutdown` | newStoreInternal, fetchConfigSpecsFrom…, setConfigSpecs, pollForRulesetChanges, stopPolling | transport, data adapter, callback |
| ID lists (`store.go`) | `idLists` with size, file and members | syncIDLists, its goroutines, pollForIDListChanges | transport |
| data adapter (`data_adapter_interface.go`) | the application's storage, which outlives the process | Get, Set, Shutdown, ShouldBeUsedForQueryingUpdates | — |
| evaluator (`evaluator.go`) | overrides, under `e.mu` | checkGate, getConfig, getLayer, Override…, eval and its helpers, shutdown | store |
| client initialize response | none | reads the whole store, without its lock | store, evaluator |

Hard behaviours, with their lines, are the `hazards` of `PROJECT.json`. In short:
l.mu is held across a send with retries; batches are sent by goroutines nobody
waits for; serialize and clear of diagnostics markers are two critical sections;
specs and their reason are set in two, and an evaluation reads them in three;
adapters may panic; files of ID lists grow and change while they are downloaded;
an evaluation recurses over gates and delegates that syncs replace under it; a
client initialize response takes three maps without the lock; the process may end
between a swap and its save; Initialize may give up on a constructor that goes on;
Shutdown races all of it.

What makes each component correct:

* logger: no event is lost or put into two batches, the buffer is bounded, a
  request is bounded, buffered events leave, callers and Shutdown return;
* diagnostics: markers are lost only where the code's two critical sections let
  them, and a flusher reports none twice;
* config store: reason and time belong to the specs being served, a sync goes back
  in time only if the server answers with what is older than asked for, callbacks
  and the adapter's copy match the swaps, outages are noticed, the store recovers
  and swaps in specs at most once after it is stopped;
* ID lists: a list is always the replay of a prefix of its own file, downloads
  stay within their sync, an older file never replaces a newer one, lists become
  complete;
* evaluator: the stack of an evaluation is bounded and it never gets stuck, however
  gates refer to each other, and undisturbed it comes to what a definition without stack, locks and
  early returns says;
* client initialize response: each section comes from one sync, an undisturbed
  response agrees with the evaluator, the call returns;
* client API and error boundary: an exception is reported once, markers are paired,
  a check leads to as many exposures as it should and they say what the application
  was told, also for layers that are read after later syncs;
* global instance: an instance stays once there is one, clients are orphaned by
  timeouts, races and adapters that panic in Shutdown only, calls return, constructors do not leak their goroutine;
* adapter over several lives of the process: its copy never gets older, the next
  life serves nothing older than it, and it catches up.

## 2. Modules

| Module | Models | How state and actions correspond |
|---|---|---|
| `Transport` | transport.go | A request is a record. `postRequestInternal` is the entry, one `Attempt` is one turn of the loop in `retry`, `Try` the closure given to it. No variables: the transport has no state. |
| `Diagnostics` | diagnostics.go | `markers`, `samplingRates`; one operator per method, each a critical section of the context's lock. |
| `Logger` | logger.go with the captures of error_boundary.go and the API calls of client.go | Extends the two above. `events`, `mu`, `ticker`; `batches` holds each slice handed to sendEvents, with its request. Callers step LogEvent / Check, Log, EndMark; ticker and closers step Serialize, Clear, LogDiag for each context and then FlushTick or FlushClosing / Sent; each batch steps StartSend and TrySend. |
| `ConfigStore` | store.go (config specs), the reads of evaluator.go | One worker (constructor, then poller): Boot, fetchConfigSpecsFromAdapter, SendRequest, Respond, setConfigSpecs, SetReason, RulesUpdated, saveConfigSpecsToAdapter, InitialSync, pollForRulesetChanges. Readers: getGate, eval, createEvaluationDetails, whose details a gate result without a passing rule does not carry ("bare", evaluator.go:283). A closer: ShutdownAdapter, stopPolling. A map built from a payload is represented by the payload's source and time. `server` is the kind of server, see below. |
| `IDLists` | store.go (ID lists) | The sync: GetIndex, VisitEntry, SyncEntry, EndRange, Prune. One download per name: GetFails, GetCorrupt, GetBody, ApplyLine, AddSize. The server: AppendLine, MakeCurrent. |
| `EventQueue` | the promise of logger.go | Abstract: events are accepted in order, wait, are handed over all at a time and at once at `Capacity`, and are over in the end. `Logger` implements it (`ImplementsQueue`): `waiting` is the buffer without what a closing flush has handed over, `handed` the batches. |
| `Restart` | the config store over several lives | Extends `ConfigStore` with `Crash`: between any two steps everything in memory is as at first, and the adapter's content, the options and the server stay. |
| `Conditions` | evaluator.go, evalCondition with its operators and sources of values | Pure operators on values (nil, string, int64, float64, list). What parsing, splitting and lower-casing make of a string is a table. One step chooses user and condition and evaluates every operator. |
| `Evaluator` | evaluator.go, the recursion | A thread has a stack with one frame per `eval`, and takes a step per read of shared state: an override, a spec, an ID list. `setConfigSpecs`, `Override` and `SyncIDList` change those between the steps. A value is named after the rule or default it comes from, or `None` if it has no entries. `Reference` is the definition by recursive functions it is compared with. |
| `ClientInitializeResponse` | client_initialize_response.go | Extends `Evaluator`, whose thread is the goroutine that makes the response. RangeOver takes a section's map, Each, Evaluating, Evaluated, getExperimentLayer, MergeLayerDefault, Delegate and Allocate make its entries. setConfigSpecs is two steps here, BeginSwap and EndSwap, since unlocked reads can fall between them. |
| `Client` | client.go, error_boundary.go, types.go | A call is a record that goes through Start, Evaluate, Fetch, Log or Send, and End; or Recover and Report after a panic. `Get` is a typed getter of what a call returned. What a name evaluates to is chosen by `Sync`; `Send` may refuse events that json.Marshal does (client.go:191). |
| `Statsig` | statsig.go, global_state.go | `instance` and all clients and calls there have been. Initialize steps Begin, CheckInitialize, Assign or, with a timeout, Receive against TimeOut; Construct and Deliver are the constructor, in the caller or in its goroutine. `Stop` is Shutdown; if the adapter panics in it, the pollers run on (evaluator.go:72-77). |
| `MC…` | — | Constants for TLC. |
| `LoggerProofs`, `ConfigStoreProofs`, `IDListsProofs`, `EvaluatorProofs`, `ConditionsProofs`, `ClientInitializeResponseProofs`, `ClientProofs`, `StatsigProofs` | — | Theorems, each about the module it is named after; `ConfigStoreProofs` is about `Restart` as well. |

How they fit together: `Logger` composes the buffer with `Transport`, `Diagnostics`
and the calls that log; `ConfigStore` composes the store with `Transport`, the
adapter, evaluations and Shutdown; `Restart` builds on it, and
`ClientInitializeResponse` on `Evaluator`. `Client` sees the evaluator through its
results and the logger through what it is given, `Statsig` sees a client as built
and stopped: a product of all of them would multiply the states without adding an
interaction, as they share no variable but through these operations.

One action is one critical section, or one stretch of code between two points
where another goroutine can be observed. What is abstracted: an event is a
number, its sender and its markers, or in `Client` what it says; a payload is
whether it has updates and its time, or in `Evaluator` a generation of specs;
sizes of ID lists count lines; the empty string, the ID of no rule, is `None` in
`Client` and `Evaluator`. Definitions called "Mutant" are wrong
variants of the definition that follows them; nothing uses them, they show that
the properties notice such an error.

Two data races are outcomes to choose from. A range loop of the response takes the
old or the new map while setConfigSpecs writes. A package-level function reads
`instance` twice, for IsInitialized and to use it; the build may make one read of
the two, so it uses the checked pointer or the present one.

What the server answers is an assumption of its own. A request carries SinceTime,
and a server that honours it ("newer") sends updates only if its specs are newer.
The store relies on that: setConfigSpecs (store.go:337-367) compares no times and
swaps in whatever has updates, and the servers in the tests send one payload with
one time to every request (concurrency_test.go:140-145). So there is also a server
that sends updates of any time, older, newer or the same ("any"). The run
`config_store` has both, and ReasonMatchesSpecs, QuietEvaluationConsistent,
CallbackPerSwap, OneSwapAfterStop, OutageNoticed and OnlyOldAnswersRollBack hold for
both. ExposureNotOlderThanSpec, SavedNeverOlder, RestartServesSaved, Converges and
BackupCatchesUp, with the theorems about the first three, are about "newer" only and
say so: a server that goes back in time takes the store and the adapter's copy with
it.

The surroundings are actions too, as nondeterministic as the code has to expect:
the server publishes specs or not, a request ends with any status, without a
response or with a body that does not decode, the adapter holds anything and may
panic, an index may name an older file or contain entries without URL, an
evaluation may panic, a constructor may hang, and a process may be killed.

## 3. Runs

| Run | Checks | Shows |
|---|---|---|
| `logger` | NoEventLostOrDoubled, ShutdownDrains, Bounded, ImplementsQueue | Two callers, ticker, one Shutdown, a buffer of 2, one retry. Every interleaving in which the buffer fills by a call, a tick is pending at Shutdown, or a caller waits for the closing flush. All of it implements `EventQueue`. No markers: `MaxMarks = 0`. |
| `logger_diagnostics` | MarkersAccounted, Bounded | Two flushers and a marking call, sampling rates that come and go. Both flushers append diagnostics events, one of which may fill the buffer in the middle of a flush. Local mode, since what becomes of a batch does not matter here; the bound on retries is the business of `logger`. |
| `logger_liveness` | EventsEnd, CallsReturn | The server answers 503 or not at all: every event is over in the end, and callers and Shutdown return although l.mu is held across a send with retries. |
| `logger_shutdown` | ShutdownPersists | **Violated**, see findings. |
| `config_store` | ReasonMatchesSpecs, QuietEvaluationConsistent, ExposureNotOlderThanSpec, CallbackPerSwap, OneSwapAfterStop, OutageNoticed, OnlyOldAnswersRollBack | All adapters, holding anything, bootstrap values or none, three generations of specs, both kinds of server, one evaluation at a time, Shutdown. `OutageNoticed` counts the failures in a row that went by without a message since the last success or message. |
| `id_lists` | ListReplaysFile, NoOlderFile, Converges, PollerStops | One name, two files of two lines, two changes of the current file, failing and corrupt downloads. |
| `restart` | RestartServesSaved, SavedNeverOlder, BackupCatchesUp, Converges | Two crashes at any step, an adapter that may panic, bootstrap values older than the server's, a server that sends what is newer. A payload that a crash kept from being saved is fetched and saved by a later life. |
| `evaluator` | TypeOK, NestingBounded, QuietEvaluationIsReference | Two generations of specs between which a chain of gates becomes a circle or a delegate disappears, while overrides and ID lists change too; and every combination of 14 and 15 specs for two gates, four for a config and two for a layer, against the reference. |
| `conditions` | VersionOrder, MissingEqualsNil, TimeUnitsAgree | Every source of values, users with attributes in every place, targets of every type, all operators. |
| `initialize_response` | SectionsFromOneSync, QuietResponseAgrees, ResponseEnds | A sync in the middle of a response, with app ids, segments, names that have to be fetched, shared parameters, circles, and null and empty values. |
| `client` | ReportedOnce, MarkersPaired, ExposurePerCheck, ExposureIsWhatWasReturned | Two calls of any of nine kinds at once, with panics, fetches, a sync and layers read later. |
| `statsig` | TypeOK, InitializedStays, OrphansExplained, NothingBlocks | Three package-level calls from any goroutines, timeouts, invalid keys, a constructor that hangs in its own goroutine, an adapter whose Shutdown may panic. |

Bounds and why they are enough:

* `MaxLogged` (2) events may be accepted before a new call is refused; calls
  under way and diagnostics events still get in. With a buffer of 2 that gives
  full, partly full and empty buffers at each flush. `MaxMarks` bounds markers in
  the same way.
* `MaxRetries = 1` has a first try, a retry and giving up; the code's 5 adds
  turns of the same loop.
* `MaxTime = 2`: initial specs, an update, and none; older and newer contents of
  an adapter. `MaxSwaps = 2`: a server of kind "any" sends two updates, of the same
  time, a later or an earlier one. `OutdatedMax = Interval`: the second failure in a row is reported.
* `MaxLines = 2`: a list that is behind by one or two lines, an id added and
  removed again. `MaxChanges = 2`: to an older or newer file, to none and back.
  With one name, downloads of different lists do not overlap in the run; they share
  no list, and the proofs are for any number of names.
* `MaxCrashes = 2` with `MaxTime = 3`: a crash before and after the save of an
  update, and another update after each.
* `MaxDepth` is 10 for the evaluator and 9 for responses, where the code has 300:
  enough for two nested gates, a gate in a delegate, and for a circle to reach the
  limit at either kind of level. `MaxChanges` is 2 and 1: a sync and an override,
  or a sync there and back, within one evaluation; one within a response.
* `Client` has two calls and a sync: of two calls that run into one exception one
  reports and one does not, and two different ones are both reported. Two reads of
  a layer show that each is logged.
* `Statsig` has three calls: two that race to initialize and one that uses or
  shuts down what comes of it.
* In `Conditions` a day has ten seconds, and the strings are those that tell the
  operators apart: versions of different length and without a number, an empty
  string, a number, a time.

Deadlock is checked for the store, the ID lists, Restart, the evaluator and
responses. It is not for the logger, where everything really may stop (calls have
returned, the ticker is stopped and backgroundFlush waits for ever on its channel),
nor for Conditions, which is one evaluation, and for Client and Statsig, where the
application may have made all its calls.

### Fairness

Go's scheduler runs every runnable goroutine, the HTTP clients have a timeout of
three seconds, sleeps and tickers end. Hence weak fairness of the worker, of each
download, of the ticker and its goroutine, of callers that are in a call and of
closers that have begun. Nobody is obliged to call the API, to call Shutdown, to
publish specs or to keep the network up: `Converges` assumes `<>[]netUp` itself.
A constructor that runs in the caller ends, as all its requests do; one in a
goroutine of its own is only assumed to hand over the client it has. In
`Restart` fairness holds across lives: each process is scheduled, and crashes are
bounded. Waiting for `l.mu` needs no strong fairness in these runs, as the closing
flush is the only holder across steps and there is one of it.

### Findings

`logger_shutdown`: Shutdown returns while batches logged before it are unsent
("persisting any Event Logs", client.go:218). Shortest cases: a full buffer
just before Shutdown, or a diagnostics event that fills it during the closing
flush. What does hold is ShutdownDrains: they have left the buffer.

Other places where the code is not what a comment near it says. The models follow
the code, and the properties say what holds instead:

* syncFailureCount survives a successful sync, so "has failed for %dms"
  (store.go:271) overstates; `OutageNoticed` holds, no outage goes unnoticed longer
  than meant.
* A panic in the adapter's Shutdown skips stopPolling ("Cleans up Statsig,
  persisting any Event Logs and cleanup processes", client.go:218);
  `OneSwapAfterStop` and `PollerStops` speak of what follows stopPolling, and
  `OrphansExplained` has it as a cause of clients that run on unreachably.
* "skip if server list is invalid" (store.go:420) comes after an idList with nil
  ids has been put into the map; an evaluation that reads it panics into the error
  boundary. `Evaluator` has such lists, and so has its reference.
* A response evaluates each spec directly, so overrides of the names it lists do not
  reach it, while those of nested gates do ("Gets all evaluated values for the given
  user", evaluator.go:198); `QuietResponseAgrees` is therefore about states without
  overrides.
* Of a name that has to be fetched a response says FALSE, no rule and no value, where
  CheckGate and GetConfig ask the server (client.go:270, 290), and the value of an
  experiment that shares its layer's parameters has the layer's defaults merged in
  (client_initialize_response.go:125), which GetConfig's has not ("Gets all evaluated
  values", evaluator.go:198). `QuietResponseAgrees` says in which names a response and
  the API differ, and how.
* LogImmediate sends the users of its events with their private attributes ("they
  are omitted in logs", types.go:6).
* The client of an Initialize that timed out is built late and runs through
  Shutdown, which has no instance to stop (statsig.go:243); `OrphansExplained` says
  that besides a panicking adapter only timeouts and overlapping Initialize calls
  leave such clients.
* A failed Set of the adapter is not tried again before the next update;
  `BackupCatchesUp` leaves that case out.

## 4. Proofs

For every value of the constants, so for any number of callers, closers, readers,
names, files and ids, any buffer size and any intervals, any specs and any number
of syncs, and independently of the bounds: a bound only makes guards stronger, and
the proofs never use one. What is assumed of the constants is the named `ASSUME` of
the module that declares them, which TLC evaluates on each run. A theorem
`…Correct` has the property of a run as its conclusion.

### Logger

`LoggerProofs` assumes `LoggerAssumption`: the kinds of threads are disjoint, a
buffer has room for at least one event, and so on.

* `NoLossCorrect`: `Spec => []NoEventLostOrDoubled`, with `TypeCorrect`,
  `BoundedCorrect` (of `BufferCorrect` and `RetriesCorrect`) and `DrainCorrect` from
  the same inductive invariant `IInv`. The property alone is not inductive: it does
  not say in which order the buffer holds its events nor which batch a closer is
  sending. `IInv` adds that the buffer holds the numbers from `cut + 1` to `accepted` in order
  (`Buffered`), that the batches whose events have left the buffer partition
  `1..cut` (`Partition`), and that these are all of them, except that while a
  closer holds l.mu the last batch is the buffer itself (`Closing`), and that a
  thread that is sending is the one that holds l.mu (`Sending`). With these an
  append, an asynchronous flush, the hand-over of a closing flush and its end
  are one lemma each, used by every action that does it. A request that is not
  over has tries + retries left = maxRetries (`Retries`). A closer that finds the
  buffer empty may return because then `accepted = cut`, and nothing it has to
  wait for was accepted later (`Drained`). A call between its two markers knows
  its key (`CallKeys`), which the types need.
* `RefinesQueue`: `Spec => ImplementsQueue`, the refinement of `EventQueue` (its
  safety part; `EventsEnd` is the liveness). Initial states map to initial states,
  and by `StepRefines` every step is Accept, Flush, End or a stutter. From `IInv`,
  `Buffered` and `Closing` are what makes `waiting` and `handed` change the way the
  abstract actions say.
* `MarkersCorrect`: what MarkersAccounted says of the end result has to be known at
  each of the flusher's three steps (`MarkInv`). What it holds between serialize and
  clear may still be in the list it came from and in no other; after the clear it is
  in none, and neither is what the flusher has reported, so it cannot serialize it
  again. A marker the clear will take without the flusher holding it is already excused.

### Config store and restarts

`ConfigStoreProofs` assumes `ConfigStoreAssumption`, `BootstrapsAssumption`,
`StatusCodesAssumption` and, for several lives, `RestartAssumption`.

* `TypeCorrect`: `Spec => []TypeOK`. Inductive but for the payload: the proof
  strengthens it to `TypeInv`, which says that a payload with updates is not Junk
  where the worker may apply it.
* `ReasonCorrect`: `Spec => []ReasonMatchesSpecs`. Not inductive: at "reason" the
  next step sets initReason from `locals.source`, so `ReasonInv` adds that the
  specs already swapped in come from that source.
* `QuietEvaluationCorrect`: `Spec => []QuietEvaluationConsistent`. The evaluation
  is followed through its three reads: while no sync has overlapped it, its spec
  is still the one being served and the worker is not between swap and reason
  (`QuietInv`); a swap or a change of reason sets the overlap flag of every
  evaluation under way.
* `RollBackCorrect`: `Spec => OnlyOldAnswersRollBack`, an action property, for every
  server. It rests on `FlowInv`: which places the worker can be at in which stage and
  with which adapter, that the time it asks the network with is still lastSyncTime
  when the answer comes and is applied, and that a network payload of a server of
  kind "newer" is newer than it.
* `NotOlderCorrect` follows the three reads of an evaluation again (`NotOlderInv`);
  with such a server no step between them sets lastSyncTime back.
* `CallbackCorrect`, for every server: the swaps are the callbacks, and one more while
  a network payload is between its swap and its callback (`CallInv`); the saves are
  the callbacks, and one less while the worker is about to save (`SaveInv`); what is
  saved last is what the store serves, whichever way its time went (`CopyInv`).
* `OneSwapCorrect`: a worker that made a swap after stopPolling can only finish that
  sync, sleep and stop (`StopInv`).
* `OutageCorrect`: failures without a message are among those syncFailureCount has
  counted, and as many of them as there are last no longer than syncOutdatedMax
  (`SilentInv`). The bound alone is not inductive: a count that lags behind would let
  one more pass.
* `SavedCorrect`: `RestartSpec /\ adapter # "polling" => SavedNeverOlder`. The
  condition is that no other process writes to the adapter; such a one may put
  anything there. A payload on its way from the answer to the adapter is not older
  than what is saved (`SavedInv`), because the times of a server of kind "newer" only
  rise, and a crash throws it away.
* `RestartServesCorrect`: until the adapter's content is in use nothing has been
  saved, so what Get returns is what was there at the start of this life; from then
  on the store is at least as new (`LoadInv`, with `SavedInv` and `LifeInv`, which
  is what the invariants above say within one life).

### ID lists

`IDListsProofs` assumes `IDListsAssumption` and `StatusCodesAssumption`.

* `ReplayCorrect`: `Spec => []ListReplaysFile`, with `TypeCorrect` and
  `DownloadsCorrect` from the same inductive invariant `IInv`: a list has ids
  exactly when it has a file (`NilMeansNoFile`), a name is visited once per sync
  (`VisitedOnce`), and a download belongs to a visited name, begins at the list's
  size and ends within the file (`JobOK`). The step that applies a line rests on
  `MembersStep`: the code's incremental change of the set is what the reference
  definition `Members` says of one more line; the step in which a file grows on
  `MembersAppend`.
* `NoOlderFileCorrect`: `Spec => NoOlderFile`, an action property: only SyncEntry
  changes the file of a list (`FileKept`), and there a list with a file takes
  another only if that was created later.

### Evaluator and conditions

`EvaluatorProofs` assumes `EvaluatorAssumption`: the specs of every generation are
well formed, and no name is the empty string. Nothing is assumed of how gates and
delegates refer to each other.

* `TypeCorrect` and `NestingCorrect` from one `IInv`. The types of a stack are not
  inductive: when an evaluation returns, its caller goes on at the condition or the
  delegate it was waiting at, so that has to be there. `EvOK` says it is: all frames
  under the one on top wait at a gate condition or a delegate of their own spec,
  which is a copy that no sync can change; and the n-th frame is at a depth of at
  least 2(n − 1) + `Base`, every depth at most maxRecursiveDepth, which bounds the
  stack. `Base` is 1 for an evaluation of a name and 0 for one that begins at eval, as
  in a client initialize response; that calls of the API have a name is `NamedInv`.
* `ReferenceCorrect`: `Spec => []QuietEvaluationIsReference`. The property is about the
  end of a call; `RightInv` holds throughout. It says of every frame which rules
  the reference has passed over, which conditions are behind it and which exposures
  they have left (`Looking`, `Through`), or that its rule decides (`Delegating`), and
  of every frame under the top one that what the one above will come to, its
  `Meaning`, is what it is waiting for (`Chain`); the lowest frame owes the caller
  what was `asked`. A panic unwinds the whole stack in
  one step, so `AllPanic` needs all of the chain: by the lowest frame that waits for
  a panic, every frame under it panics in the reference too. `Reference` and
  `FlattenSeq` are functions defined by recursion; that they exist and satisfy
  their equations is shown with `Least` (`ReferenceExists`, `ReferenceLevel`,
  `JoinExists`, `FlattenMore`), which for `Reference` works because beyond the limit
  a level does not depend on deeper ones. TLC has checked `RightInv` on the run
  `evaluator` before.

`ConditionsProofs` assumes `ConditionsAssumption`: the tables have an entry for all
strings a condition can meet, users have their fields, and numbers are integers.

* `MissingCorrect`, `UnitsCorrect`: along the code's cases for where a value comes from
  and what type it has; `IInv` says that the result of each operator is what
  `Compare` makes of value and target.
* `VersionsCorrect`: the loop of compareVersionsHelper is the lexicographic order of the
  zero-padded versions, for versions of any length. A proof by induction on the
  position, in the form of the least counterexample: a set of natural numbers that
  is not empty has a least member (`Least`, from the library's `WFMin`). That the
  recursive function of the loop exists is shown by giving it explicitly
  (`FoundIsLoop`), what it returns by going down from the end (`LoopSays`).

### Client initialize response

`ClientInitializeResponseProofs` assumes `EvaluatorAssumption` and
`ResponderAssumption`: one goroutine makes the response, and the layer of an
experiment is a layer's name or none.

* `SectionsCorrect`: `RespSpec => []SectionsFromOneSync`. The property is about the end of
  a call; `RespInv` follows it there: sections before the current one are complete,
  the current one has the entries of exactly those names the loop has been through,
  all from the map taken at its start, and later ones are empty. The maps a loop can
  come by are the served one and, during a sync, the one being written (`SeenOK`).
* `QuietCorrect`: `RespSpec => []QuietResponseAgrees`, from `Whole`, the conjunction of
  `RespInv`, `KnownInv` and `QuietInv`. `KnownInv` is the evaluator's `IInv` for calls that
  begin at eval, with specs the loops and the delegation come by, the zero spec of a
  delegate that is gone included. `QuietInv` says of a response that nothing has
  disturbed: no sync is under way; every entry so far is what the reference says one
  level above the depth of CheckGate, with its exposures cleaned (`EntryRight`); the
  evaluation under way is `Right` about the name it is for (`EvalRight`, by
  `EnterRight` and `SteppedRight` of `EvaluatorProofs`); what is kept over to the next
  step, spec, result, layer and delegate, belongs to that name; and a response that has
  failed has a `Cause`. Four facts carry the end: the reference at a depth is the one
  a level deeper unless that panics (`ReferenceUp`, by the least distance from the
  limit: `ConditionUp`, `RuleUp`, `SpecUp` take it through conditions, rules and specs);
  a delegate that a result names is a config the store has (`DelegateKnown`), so the
  second evaluation of a layer is about that config; what has to be fetched says
  nothing, through however many delegates it is handed on (`FetchedSaysNothing`);
  and cleanExposures leaves the set of exposures as it is (`CleanExposures`). `NoOverrides` is not needed: what it
  adds is that the reference is what the API says. TLC has checked `KnownInv` and
  `QuietInv` on the run `initialize_response` before.

### Client and global instance

`ClientProofs` assumes `ClientAssumption`.

* `TypeCorrect`, from `IInv`: what is known of a call from the place it is at
  (`CallOK`), such as whether it was accepted, has met a panic, has a result.
* `ReportedCorrect`: reports sent and calls that are sending one add up to one for an
  exception that is seen and to zero otherwise (`ReportInv`). The count of reports
  alone would allow two calls at "report" at once.
* `PairedCorrect`: inductive given `IInv`; each step is about the cardinality of the set
  of calls under way.
* `PerCheckCorrect`, `ReturnedCorrect`: `EventInv` counts the events of a call at every
  place it can be, and says that each is faithful to the call's result, which no
  sync changes.

`StatsigProofs` assumes `StatsigAssumption`.

* `TypeCorrect`, from `IInv`: a call that waits for a client owns it, a call that has
  found one found a built one, and a client is built for the Initialize that owns
  it, which waits for it or has timed out (`Links`).
* `InitializedCorrect`: once an Initialize has returned with an instance there is one
  (`StayInv`), unless ShutdownAndDangerouslyClearInstance is used.
* `OrphansCorrect`: a client whose Initialize has returned, without timeout or
  overlap, and whose Shutdown has not panicked is the instance, and every other
  call that could write `instance` is still before its check or is stopping this
  very client (`OrphanInv`). Without that a write that is yet to come would make
  it an orphan.

`TypeOK` of Logger, ConfigStore, IDLists and Client and `DownloadsWithinSync` are
proved and no longer part of a run.

### Only model-checked

* The liveness properties `EventsEnd`, `CallsReturn`, `Converges`, `PollerStops`,
  `BackupCatchesUp`, `ResponseEnds` and `NothingBlocks`: fairness is out of the
  prover's reach.

## 5. Not modelled

* util.go, output_logger.go, statsig_metadata.go, version.go: conversions,
  constants and output. Wording and the content of error reports.
* Hashing (what a user's bucket is, the hashed names in a response), user agents
  and IP tables: their outcome is an input of the models. Regular expressions of
  str_matches are those without special characters.
* Byte offsets in ID lists, and a CDN that ignores Range.
* `dataAdapter.Initialize` panicking, which ends the constructor. The adapters under
  the tests are examples of the interface.
* Torn values of unlocked words such as `instance`: the platforms Go supports read
  and write a pointer whole.

## 6. Plan

Done, in this order: transport and diagnostics, logger, config store, ID lists,
proofs about these three; then the abstract event queue and its refinement,
restarts, evaluator and conditions, client initialize response, client with error
boundary, global instance. Then proofs about all of
them: every invariant and every action property that a run checks is a theorem. What
is left are the liveness properties, which stay with TLC, and section 5.
