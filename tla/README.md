# aigo in TLA+

aigo is a Go library with one client API for many AI services (images, video,
audio, text, search, embeddings). This directory holds TLA+ specifications of
its stateful parts, the TLC configurations that check them on small instances
and TLAPS proofs about them for all instances.

## The system

| component (source) | state | operations | what is hard | what makes it correct |
|---|---|---|---|---|
| **Task store** (`taskstore.go`, `taskstore_flock*.go`) | a JSON file, a lock file, a temporary file, an RWMutex per process | Save, Load, All, Delete, Purge | several processes and goroutines; file operations fail; processes die | calls are atomic, failed calls have no effect, nothing pending is purged, every call returns |
| **Submit / Resume / RecoverPending** (`client.go` 1164-1284) | task records, remote jobs, the engine map | Submit, Resume, RecoverPending | crashes and failed saves between remote call and record; concurrent Resumes; cancellation; the kind of a result decides what it is | a record means what its status says; no job is lost or has two records; every task settles |
| **Client registry** (`client.go` 204-411, `config.go`) | the engine map, the disabled set, middleware under one RWMutex | Register*, Unregister, Disable, Enable, Use, ApplyConfig | registrations of a batch that fails half-way; lookups that race changes | a disabled flag never outlives its engine; disabled engines do not run |
| **Execute, fallback, routing** (`client.go` 428-612, 1029-1090, `selector.go`, `pipeline.go`) | the state of a call | Execute, ExecuteWithFallback, ExecuteTaskAuto, ExecuteAsync, Pipeline | two lock sections per call; candidate lists go stale; cancellation between attempts | only engines enabled during the call run, the first success is returned |
| **Retry middleware** (`middleware.go`) | attempt counter, timer | Execute | a retried Execute submits a second remote job | bounded attempts, only retryable errors are retried |
| **Result cache** (`engine/cache.go`) | entries, eviction order | Execute, Clear, Len | concurrent misses of one graph; results that arrive after Clear | never more than maxSize entries, each of them evictable |
| **Polling** (`engine/poll`) | attempt, interval | Poll, PollV2, MapStatus | attempts, backoff and cancellation race; statuses nobody mapped | terminal answers end polling, bounded attempts |
| **HTTP layer** (`engine/httpx`) | per-request state, rate limiter, capture buffer, pipes | RetryTransport, DoJSON, HookTransport, RateLimiter, uploads | bodies closed before the caller reads them, delay arithmetic, pipe goroutines | the caller sees the last response and its class of error |
| **Embedding wrappers** (`engine/embed`) | window of timestamps | RateLimiter, Retry | a waiter wakes when another took its place | at most n requests per window |
| **Engine adapters** (`engine/*`, 33 of them) | a remote job each | Execute, Resume, Capabilities, DryRun | every service has its own submit/poll protocol and status words, written down once for Execute and once for Resume | Resume of an ID ends as polling it would have; what Submit records is what the adapter returned |
| **Local material index** (`material/local`) | the index in memory, the index file | IndexFile, IndexDir, RemoveStale, Search, SaveIndex, New | files change while they are indexed; the index is read without its lock; the file is rewritten in place | one entry per path; what is skipped as unchanged is indexed as it is |
| **Material search** (`material`) | page tokens, rate limiter | MultiSearcher, RateLimiter, Retry | composite page tokens; one backend failing | pages neither repeat nor drop items |
| **Workflow graphs** (`workflow`, `client.go` 693-1027) | none | SortedNodeIDs, Resolve*, BuildGraph | cycles, more than nine nodes | resolution terminates; nodes refer to nodes |
| **Model and engine registries** (`engine/models.go`, `registry.go`, `factory.go`, `uri.go`) | maps under a mutex | Register, Lookup, Parse | almost none: set up at start | |
| **Tool definitions, examples** (`tooldef`, `examples`) | none | | | |

How they interact: an application holds a `*Client`. `Client.Execute` looks the
engine up under a read lock, wraps it in the middleware and calls it. An engine
builds requests from the graph, sends them through `httpx` and, when its service
is asynchronous, polls with `engine/poll`. `Submit` is `Execute` followed by
`TaskStore.Save`; `Resume` is `TaskStore.Load`, the engine's `Resume`, then
`TaskStore.Save`. Several processes may share one task store file.

## Modules

| module | models | depends on |
|---|---|---|
| `TaskRecords` | task records, what a purge may remove, what Save stamps | |
| `TaskStoreAbs` | the promise of a task store: a map, calls that take effect at once or fail without effect | `TaskRecords` |
| `FileTaskStore` | `FileTaskStore` at the level of file operations | `TaskRecords`, instantiates `TaskStoreAbs` |
| `TaskLifecycle` | `Submit`, `Resume`, `RecoverPending` over an atomic store | |
| `EngineCalls` | the client's engine map and the calls that route through it | |
| `RetriedExecute` | one `Execute` of an asynchronous engine under `WithRetry`, down to its requests | |
| `ResultCache` | `engine.Cache` | |
| `EmbedRateLimiter` | `embed.RateLimiter` | |
| `AdapterReplies` | the vocabulary of the adapters: inputs, answers, what is made of them | |
| `VideoAdapters`, `ImageAdapters`, `WorkflowAdapters`, `AudioAdapters`, `ChatAdapters`, `HubAdapters` | what each adapter of `src/engine` requires, asks, polls, resumes and returns | `AdapterReplies` |
| `AdapterCatalogue` | the adapters by name | the six above |
| `AdapterCalls` | one `Submit` and its `Resume` through any adapter, and the job of the service | `AdapterReplies` |
| `LocalIndex` | `local.Searcher`: its array, its lock, its file | |
| `MC*` | functions, sequences, symmetries and the answers of services for TLC | the module they are named after |
| `*Proofs` | theorems and their proofs | the module they are named after |

`TaskLifecycle` uses an atomic store; that `FileTaskStore` is one is what
`ImplementsAtomic` says, checked by `store_files` and proved in
`FileTaskStoreProofs`. `RetriedExecute` is what `EngineCalls` and `TaskLifecycle`
see as one external call of an engine. `AdapterCalls` says for each adapter which
of the answers that `TaskLifecycle` takes as given (`Answer`) it produces;
`MCAdapterCalls` composes it with `AdapterCatalogue`.

### Task store

A call is `Begin` (with its arguments), `LockMu`, `LockFile`, the read of the file
with the edit in memory (`ReadForWrite`, `ReadForRead`), the write of the temporary
file (`CreateTmp`, `WriteTmp`), `Rename`, and the releases in the order of the
deferred calls (`UnlockFile`, `UnlockMu`). Every file operation has an action in which
it fails. `Edited` is what Save, Delete and Purge make of the records they have read:
Save stamps its record, Purge drops what `Expired` names. A kill of a process
(`Crash`) frees its locks and leaves the temporary file where it was. The constant
`FileLocks` chooses between `taskstore_flock.go` and `taskstore_flock_windows.go`,
where locking does nothing. Contents of the file are a map from IDs to records, or
`Torn`: JSON is not spelled out.

### Task life cycle

`Submit` calls the engine (`RemoteAccepts` starts a remote job; `Returned` is what
an engine may return for it), derives the record from the kind of the result
(`NewRecord`) and saves it (`PersistTask`, `PersistFails`). `Resume` is `LoadTask`,
`LookupEngine`, a poll that succeeds, fails or is interrupted, and a save whose
error is dropped. Steps of several goroutines and processes interleave; a process
may be killed between any two. `Answer` says what each engine returns: a remote ID as
plain text, media, text, or an ID dressed as media (`alibabacloud` with
`WaitForCompletion=false`). `lost` is a history variable: the jobs a failed Submit or
a removal has let go of; `cut` another: the tasks a Resume of which was interrupted.
`JobOf` is the job that a record names, by its remote ID or its value.

### Calls and registry

One action per critical section of the client's lock, one per return of an engine.
`Begin` takes the snapshot that `EngineInfos` takes and applies `RuleFilter` and
`PrioritySelector`; `CheckContext`, `Lookup` and `LookupFails` are the loop of
`ExecuteWithFallback` down to the lookup in `Execute`; `Send` is the goroutine of
`ExecuteAsync`. The history variables `once` and `always` remember which engines
were enabled at some time and all the time during a call; `started` and `late` which
were called, and how many after the end of the context.

### Retried execution

The path of one call: `post` (the request that submits the job), `get` (a status
request, with the retries of `RetryTransport` if the client has one), `wait` (the
timer of `PollV2`), `returned` (the engine returned an error to the middleware),
`backoff`. Jobs of the service run on their own. Errors are abstracted to the
classes `IsRetryable` tells apart. The engine is flux; its requests and its poll
loop are those most engines have.

### Cache and rate limiter

`ResultCache` keeps `c.order` as a set of keys with the number of their append, so
that duplicates are visible; `Room` is the condition under which the eviction loop
stops. `EmbedRateLimiter` keeps times relative to now, which makes its state space
finite without a bound on the clock; each section under the mutex takes a tick,
because the clock counts nanoseconds and no two sections read the same time.

### Engine adapters

An adapter is a handful of functions, and each module of adapters gives them one
operator each: `<X>Media` (`Capabilities().MediaTypes`), `<X>Submit` (`Execute` up to
its request: the inputs it refuses, and the request it makes or the job it creates,
with the place the job is polled at), `<X>Answer` or `<X>Created` (what it makes of
the answer), `<X>Poll` (the function it hands to `poll.Poll`) and `<X>Resume`. A
configuration (`c`: endpoint, model or app, as far as the adapter branches on it)
and a set of inputs (`g`: fields the graph has, credentials) stand for the engine and
its graph; an answer is a word (the status) and the set of fields it has. A decision
is one of give, wait, fetch and fail (`AdapterReplies`).

`AdapterCalls` runs these operators: `Execute`, `AnswerArrives` or `JobCreated`, the
requests of `poll.Poll` that end it (`PollEnds`; the ones that answer "not yet" change
nothing), `ResultFetched`; then `Store`, which is the inference of `Client.Submit`,
`Resume` and `Settle`. `RequestLost`, `ContextEnds` and `JobEnds` happen at any time.
Polling in a place where the job is not, or for something that is no ID, is answered
with an error.

### Local index

One action for each section under `s.mu`, each file operation and each element read
without the lock. `Snapshot` copies the slice, so a reader sees the array it was
taken from (`of`) with the updates made to it in place (`Shown`) until `s.entries`
gets another array (`Detached`); an append may or may not move it. `ReadHalf` and
`ReadRest` read an element at two times: a copy made while `IndexFile` overwrites it
may mix an old and a new entry, and `mixed` remembers of which paths a save has made
such copies. `os.WriteFile` is `OpenIndexFile` and `WriteIndexFile`: a kill or a
second save in between leaves `Emptied` or `Torn`, which `New` refuses. A version of
a file stands for its size, modification time and content.

## Runs

| run | instance | shows |
|---|---|---|
| `store_files` | 2 processes, 3 goroutines, 1 task, failures and kills, fair | no update is lost (`CopyIsFresh`), a writer is alone in its process, the file is never torn, a pending record ends only by a Save or Delete of its ID, the store refines `TaskStoreAbs`, every call returns and no error path keeps a lock |
| `task_settles` | 2 processes, kills and failed saves, fair callers | every persisted task settles |
| `task_faults` | 1 process, engines of all 4 kinds; kills, failed saves, cancellation, deletion, purging, unregistering | completed records hold results (or the ID that an engine calls a medium); failed ones have a cause: a failed job, an interrupted Resume, a text taken for an ID; no job is forgotten but by a Submit that failed; none has two records; Resumes that are not interrupted agree, and settled is final |
| `resume_cut` | 1 cancelled Resume | **violated**: a task whose job runs can be resumed |
| `calls_pairs` | 2 engines, any 2 of 6 calls of 5 kinds | flags and engines agree; every engine called was enabled during its call; one late start; when a fallback may fail; a fallback that is over, however it ended, has named every engine it called and skipped none that was there; a finished pipeline has run every step once, a failed one returns the results before the failure; every call and goroutine ends, received from or not |
| `retry_ends` | 2 retries, polls with and without a limit, transport retries, 4 jobs | own results, bounded jobs, final errors; only a job that keeps running keeps a call from ending |
| `retry_class_lost` | transport retries | **violated**: the class of a last 429 or 5xx is lost |
| `cache_small` | 3 goroutines, 3 graphs, 2 entries | bound, evictability, bounded duplicates, only a full cache evicts |
| `limiter_shared` | 3 goroutines | timestamps in order, sleeps in range, every sleep ends |
| `limiter_race` | 2 goroutines | **violated**: more than Max in a minute |
| `adapters` | all 33 adapters, every configuration, set of inputs and kind of answer; lost requests, contexts that end | Resume tells what waiting would have told; a pending record names its job; a completed one holds a value of a job that succeeded; an undisturbed call leaves no unnamed job running; requests are for media of the adapter; every call ends (with the exceptions below) |
| `local_index` | 2 goroutines, 2 files of which one changes, 1 kill | one entry per path, in memory, in what is read without the lock and on disk; a file skipped as unchanged has the embedding of its content |

Every property of a passing run has a mutant: a definition marked `\* Mutant:` in
the module, a plausible mistake in the code under which TLC finds that property
violated.

### What the violations say

Each violated run is a statement of a comment or a document that the code does
not keep; PROJECT.json quotes it under "findings".

- `Resume` stores a failure for every error of the engine's Resume, also that of a
  cancelled context or of one failed status request, and answers a failed task from the
  store: a job that runs can no longer be resumed (`README.md` 849 and
  `docs/alibabacloud-bailian.md` 101 promise the contrary).
- `RetryTransport` closes the body of the response it returns, so the error loses
  its class: a 429 that outlasts the transport's retries is not retryable for
  `WithRetry` although `aigoerr` would say it is.
- A goroutine that slept in `embed.RateLimiter.Wait` is granted without a second
  look; with several goroutines the rate is exceeded, and stays so while they keep
  calling. Even `Max` plus one for every other goroutine is no bound.

### What the modules have and the code's words do not

These behaviours are in the modules, or in the instances named here, and contradict
what a comment or document says. No run is spent on them.

- Two processes on Windows overwrite each other's task records: with
  `FileLocks = FALSE` `CopyIsFresh` fails (`taskstore.go` 50: "flock for cross-process
  safety").
- `Submit` reads from the kind of a result whether it is one; the comment at `client.go`
  1164-1168 says that a remote ID "is stored as pending". alibabacloud with
  `WaitForCompletion=false` returns the ID with the kind of the model's media, and
  `Submit` stores it as the result of a completed task: `CompletedHoldsResult` allows the
  engines with `Answer` `"idAsMedia"` just that. A text returned at once becomes an ID, and
  its task fails when it is resumed, a cause `FailedHasCause` names. The adapters that do
  either are named below.
- `WithRetry` repeats the submission as well as the request that failed: while `pc` is
  `"post"` a job of an earlier attempt may run (`aigoerr.go` 83: "safe to retry").
- The cache evicts in the order of stores; hits do not count as uses (`engine/cache.go`
  24 and 94: "LRU").
- A fallback tries every other candidate, those the selector's filter rejected
  included (`Ranked`).

### Adapters that do otherwise

Each property of `adapters` but `CallsEnd` excepts some adapters, by name and
configuration (`MCAdapterCalls`). Each name is a behaviour of the code; without it TLC
finds that property violated.

- `Divergent`, excepted from `ResumeMatchesWait`. kling's Resume polls videos, also
  for an image. meshy's polls the endpoint of its configuration, although an image in
  the graph sends a text-to-3d job elsewhere. alibabacloud's looks for the results of a
  file transcription in `results`, where the waiting call (`internal/audiogen/asr.go`)
  looks in `result`; `resume.go` 16 says the two mirror each other. newapi's refuses
  the jobs of jimeng, and `Client.Resume` records the refusal as their failure.
- `Wordy`, excepted from `PendingNamesItsJob`: their result may be a text, which
  `Submit` takes for an ID, or they return no ID where one is due. Chats (gemini,
  gpt4o, qwenvl, openrouter given audio, newapi chat), transcriptions (volcvoice,
  alibabacloud, newapi), replicate models that write, minimax audio in hexadecimal
  digits, a ComfyUI job without a file, a Suno clip without an ID.
- `Loose`, excepted from `CompletedHoldsValue`: runway, replicate, runninghub and newapi
  transcriptions return an empty string for an empty answer; alibabacloud that does not
  wait returns the ID with the kind of a medium.
- `Hasty`, excepted from `NoJobLeftRunning` and, as to the job, from
  `CompletedHoldsValue`: suno takes the address of a new clip whatever the clip's
  status (`suno/engine.go` 158). The clip's ID is dropped, and the task completed while
  the job runs. That the record holds a value is checked of suno as of the others.
- `Misdeclared`, excepted from `AsksForItsMedia`: newapi's `Route` and `Kind` are
  configured apart, and `Capabilities` looks at the kind alone. `Config{Route:
  RouteSoraVideos}`, as in `newapi/sora_test.go` 46, declares images and asks for a video.

A job of ComfyUI that is not waited for stays pending for ever: its ID is a text, and
the engine has no Resume. A waiting Execute whose status request fails once loses the ID
of a job that runs; `NoJobLeftRunning` is about calls that nothing disturbs.

## Bounds

Two processes with up to three goroutines show every overlap of two calls with a
third that waits, between goroutines of a process and of different ones. One task ID
is enough in `store_files`: a write replaces the whole file, so a lost update of
another ID is a stale copy like any other. Numbers of calls, of clock ticks and of
faults are bounded by constants named in the modules (`MaxCalls`, `MaxNow`,
`MaxFaults`, `MaxCrashes`). The two calls of `store_files` are one that is killed, or fails, or
overlaps, and one that sees what it left; both may be under way at the same time on
either side of the process boundary. Two faults are a failed save and the kill that
follows. `task_settles` has two processes with one asynchronous engine, `task_faults`
one process with engines of four kinds: the processes share nothing but the store.
Cancellation is in `task_faults`: a Resume it interrupts settles the task at once, as a
failure, and `PendingSettles` holds with it too, in a run more than twice as long. In
`task_faults` the names of the goroutines, tasks and jobs are interchangeable, which its
symmetry uses; no liveness is checked there.

In `calls_pairs` `MaxCalls` is two: calls meet only in the registry, which every
action of the registry changes at any time, so that a third adds no order of events
for the other two. Two engines, each absent, enabled or disabled, make every registry
a call can meet; the filter passes one of them, the selector prefers the other. In `EmbedRateLimiter` nothing is bounded but the sets: a minute of
seven ticks and a rate of three leave room for sleeps of every length.
`RetriedExecute` has a job more than the attempts that could start one, so that the
bound on jobs is not one of the model. In `ResultCache` six calls on three graphs in
two places are enough to fill, expire, clear and evict with duplicates in the order.

`AdapterCalls` has no bound: one task, whose call ends. Its inputs are sets of the
fields an adapter looks at: all that is needed with every choice of the rest, and each
needed thing missing. Its answers are every status word the adapter knows with every
subset of the fields it looks at. Assumed of the services: a job ends with a word its
adapter knows (with another it would be polled for ever, since no adapter limits its
attempts), and newapi's jimeng does not end a job without an address or a code. suno's new clips come with an ID, an
address, both or neither while they run, and complete; a prediction of replicate may
succeed at once. newapi has every route without a kind and with two, and every kind
without a route.

In `LocalIndex` two files are what it takes for positions in the array to differ;
one of them changes once. `MaxCalls` counts IndexDir, RemoveStale, Search and
SaveIndex, two of which overlap with IndexFile, which is not counted; a kill leaves a
file for the New that follows. Every change of a file is assumed to change its size
or the second of its time, which is all the code compares.

## Fairness

- `store_files`: a running goroutine goes on (weak fairness of its steps). Locks are
  released by goroutines that run; the operating system wakes waiters. Nothing is
  assumed of goroutines of a process that was killed.
- `task_settles`: goroutines go on, jobs end, and callers resume what
  `RecoverPending` lists; the last is what the code's documentation asks of
  callers, not something the library does.
- `retry_ends`: a request is answered or fails (the client has a timeout) and timers
  fire. The service need not finish a job, and the context need not end.
- `calls_pairs`: engines return. That is an assumption about engines that
  `retry_ends` and `adapters` qualify: it holds when their jobs end or their context
  does. Nobody need receive from the channel.
- `limiter_shared`: the clock goes on and a timer that fired wakes its goroutine.
- `adapters`: goroutines run and requests are answered (weak fairness of the steps of
  a call), and jobs end; contexts need not.

No liveness is stated of the local index: each of its calls is a loop over a finite
array, and a file may change as often as it likes.

## Proofs

TLAPS checks every theorem for all values of the constants that the named
assumptions allow. What a theorem assumes beyond them is part of its statement,
and is listed below the table.

| module | theorem | inductive argument |
|---|---|---|
| `FileTaskStoreProofs` | `TypeCorrect`, `InProcess`, `NoLostUpdate`, `CrashSafe`, `PendingIsSafe`, `Linearizable` | the holder of the lock is the only one past `LockFile`; what it read is what the file holds, so that what it renames differs from the file in its own record, or in what it may purge |
| `TaskLifecycleProofs` | `TypeCorrect`, `CompletedIsResult`, `OneRecord`, `NoneForgotten`, `FailuresHaveCauses`, `OutcomesAgree` | a job's name is in at most one place: a Submit under way or one record (`ClaimInv`), and a running job's is in one unless it was let go (`KeptInv`); an outcome in the store or in the hands of a Resume is that of the job, or a failure of a task in `cut` (`OutcomeInv`) |
| `EngineCallsProofs` | `FlagsHaveEngines`, `OnlyEnabledRun`, `AtMostOneLate`, `FailsOnlyAtTheEnd`, `AllIsTold`, `PipelinesAreWhole` | a call that has begun has seen what is enabled now (`SeenInv`); after a late start it never reaches another lookup (`LateInv`); what is behind a call in its queue was called or was once not enabled (`QueueInv`); what a call will report is what it has called and passed so far (`ReportInv`) |
| `RetriedExecuteProofs` | `TypeCorrect`, `OwnResult`, `Bounded`, `LastError` | before an attempt's POST there are at most as many jobs as attempts made (`CountInv`) |
| `ResultCacheProofs` | `TypeCorrect`, `Bounded`, `Evictable`, `OrderBounded`, `EvictsWhenFull` | every entry is named by an element of the order, so the loop stops only with room or with both empty; the elements of a graph that lives and the goroutines that compute it are no more than the goroutines (`LengthInv`) |
| `EmbedRateLimiterProofs` | `TypeCorrect`, `InOrder`, `AloneBounded` | alone, there is at most one timestamp beyond Max, and it is already too old (`AloneInv`) |
| `AdapterCallsProofs` | `JobStaysPlaced`, `NothingLeftRunning`, `ResumeAgrees`, `PendingHasItsJob`, `CompletedIsAValue` for any adapter; `EnginesMindTheirJobs`, `EnginesResumeAlike`, `EnginesPendTheirJobs`, `EnginesCompleteWithValues`, `EnginesAskForTheirMedia` for those of `src/engine` | a call polls where Submit or Resume said, the job is where it was created (`JobIsPlaced`); a call under way is polling while its job runs (`JobIsMinded`); what is returned or fetched is what may be recorded (`TextsAreIDs`, `ResultsAreValues`) |
| `LocalIndexProofs` | `TypeCorrect`, `NoDuplicates`, `SkipIsSafe` | the paths of an array never change below the length of a copy of its slice (`UniqueInv`); no entry has a newer stamp than embedding, wherever it is copied (`SoundInv`, `JobInv`) |

Why strengthenings are needed: `SizeBound`, for instance, is not inductive, since
an entry that `c.order` does not name could never be evicted; with
`EveryEntryInOrder` it is. `JobsBounded` counts jobs against attempts and needs the
count before and after the POST told apart. `OneEntryPerPath` says nothing of the
elements a reader has still to read, which `UniqueInv` relates to the array;
`SkippedIsCurrent` speaks of entries whose stamp is that of the file, and follows from
the order stamp <= embedding <= content of all of them. `NoJobForgotten` does not say
which goroutine holds a job between two of its steps; `KeptInv` does. `OrderIsBounded`
holds because a goroutine adds a graph only while nobody's entry of it is fresh, which
`LengthInv` counts. `FailsWhenAllFailed` speaks of a call that has ended; while it runs,
each engine it has passed was called or was not enabled when its turn came, and the
queue names all that were enabled when it was made (`ChosenNamesAll`), in whatever order
the map of engines and the selector put them.

What the theorems assume, beyond the named assumptions on constants:

- `FileLocks` (`taskstore_flock.go`, not its Windows twin): `NoLostUpdate`, `CrashSafe`,
  `PendingIsSafe`, `Linearizable`. `InProcess` holds without, which no run checks.
- Finitely many goroutines: `OrderBounded`. One goroutine: `AloneBounded`, which no run
  repeats.

The theorems about adapters are in two layers. The first is for any adapter whose tables
satisfy a condition without states, defined in `AdapterCalls`: `Minds` (Execute waits for
a job as long as it runs, or returns its ID), `Agrees` (Resume polls where Execute polls
and reads every status alike), `Names` (a text is the ID of a created job), `Yields` (a
result is a value, taken from a status of success). The second shows that the engines of
the catalogue satisfy them, configured with anything and given any graph
(`FromCatalogue`), through one lemma for the answers, creations, polls and resumptions of
each family. `EnginesAskForTheirMedia` and `EnginesPendTheirJobs` assume nothing of the
services: an answer is any word with any set of fields. The others assume that a service
ends its jobs with words its adapter knows (`SpeaksItsWords`), answers with no error code
beside an ID (`Plain`), calls a prediction of replicate a success only at its end
(`SucceedsAtOnce`), and calls a success what the adapter does when it polls
(`ReportsSuccess`). The engines that break a condition are excepted by what they do:
`PollsApart` and file transcriptions, `WritesText`, `LeavesEmpty`, `TakesEarly`,
`DeclaresApart`. Over the setups of
`adapters` these are the exceptions of `MCAdapterCalls`, and TLC finds the conditions true
of every other setup, so that the theorems say for all inputs and answers what that run
says for those it enumerates.

Only model-checked: all liveness (`CallsReturn`, `PendingSettles`, `EndsUnlessJobRuns`,
the two `CallsEnd`, `SleepEnds`), which is beyond the prover. Every invariant and action
property of the passing runs is stated by a theorem;
the types of `RetriedExecute` are proved and no run repeats them.

## Not modelled

Wording and layout (messages, logs, JSON), progress events, metadata of results,
Retry-After and the lengths of delays, hashing of graphs. Middleware other than
`WithRetry`. Static tables (models, tool definitions), examples, provider set-up.

- Of the adapters: options that only shape the payload (sizes, durations, seeds),
  uploads that precede a request, SSE streams beyond whether they hold a result, DryRun.
- Of the local index: similarity, media types, the order of results; `parse.go`.
- Material search: a search asks each backend once and merges what arrives. Only
  ossmeta returns page tokens, so that a model of composite tokens would be one of
  backends the repository does not have. What can go wrong there is listed under
  hazards.
- Workflow graphs: functions of a graph without state, about names of fields and
  formats of strings.
- Of `httpx`: the pipe of streamed uploads, the capture of responses, hooks and the
  limiting transport; of `poll`: the growth of the interval and `MapStatus`, which no
  adapter calls.
- Of the client: registration in batches (`RegisterAll`, `RegisterProvider`,
  `ApplyConfig`), which calls the operations of `EngineCalls` one after the other.

## Plan

1. Batches of registrations that fail half-way, in `EngineCalls`.
2. The rest of `httpx` (uploads through a pipe, the limiting transport) and the
   ticker-fed limiter of `material`.
