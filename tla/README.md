# Verification of bce-sam-cli

`bsam` develops functions for Baidu's CFC service: it runs them locally in Docker
containers (`bsam local`), packages and deploys them (`bsam package`, `bsam deploy`)
with a copy of the BCE SDK, and keeps credentials (`bsam config`). This directory
holds TLA+ models of its core, the TLC runs that check them and TLAPS proofs of the
results that matter most. `PROJECT.json` maps every definition to the lines it models.

All paths below are under `src/bsamcli/`.

## 1. Inventory

| Component | State | Operations | Hard about it | Correct when |
|---|---|---|---|---|
| Local runtime, container lifecycle: `local/lambdafn/runtime.py`, `local/docker/{manager,container,cfc_container}.py`, `commands/local/lib/local_lambda.py` | event file, copy of a jar, `Container.id`, timer, SIGTERM handler; the daemon's containers and images | `invoke`, `run`, `stop`, `create`, `start`, `wait_for_logs`, `delete`, timer and signal handlers | two actors in `delete`; Ctrl+C anywhere; daemon or disk failing anywhere; a finally block that may itself fail | nothing live is left behind or forgotten; a call ends even if its function does not |
| Output stream: `local/docker/attach_api.py` | position in the stream | `_read_socket`, `_read_header`, `_read_payload`, `_write_container_output` | portions, timeouts, transient `None`, early end | what is written is what the container wrote |
| SDK: `lib/baidubce/http`, `retry`, `services/cfc/cfc_client.py` | retry counter, file position | `send_request` (twice), retry policy, error classification | lost answers of requests that were carried out; bounds | bounded attempts, doubling delays, whole bodies |
| Package and deploy: `lib/samlib/{cfc_command,deploy_context}.py`, `commands/local/lib/sam_{bos,http,dueros}_provider.py` | zip files on disk; functions and triggers at the service | `zip_up`, `do_deploy`, `create_function`, `update_function`, `create_triggers` | failures and kills between two calls, repeated runs | what is called done is what was uploaded; no half overtakes the other |
| Logs: `lib/logs/fetcher.py` | newest timestamp, polling budget, page token | `fetch`, `tail` | events out of order, arriving during a poll | nothing twice, nothing lost, an end |
| Credentials: `lib/samlib/cfc_credential_helper.py` | two files under `~/.bce` | `config_interactive`, `get_credentials`, `get_region` | files truncated and rewritten one after the other, while other processes read them | what completes heals what was torn; no region with older keys |
| Template providers: `commands/local/lib/sam_*_provider.py` | the merged APIs, the extracted triggers | collect, merge, normalise, mount APIs; validate and extract events | overlapping routes, media types collected before or after, an invalid event late in the template | the routes and triggers are the declared ones, in whatever order the template is written |
| Swagger: `commands/local/lib/swagger/` | none | `read`, `get_apis`, `get_function_name` | body, include and URI as fall-backs of each other | a document's functions are found |
| Environment: `local/lambdafn/{env_vars,config}.py` | none | `resolve`, `FunctionConfig` | priorities; a timeout read in two places | the most specific value wins, nothing else gets in |
| Invoke context: `commands/local/cli_common/invoke_context.py` | log file handle | `__enter__`, `__exit__` | a failure half-way through `__enter__` | what fails is told to the user; the log is closed once |
| Local HTTP services: `local/{services,apigw,lambda_service}` | routing table, shared stderr | request to event, function output to response | threads; output mixed with logs; time-outs; Ctrl+C under threads | one response per request, made of this request's whole output |
| Log formatting, sample events, init, validation, CLI framework | none or trivial | pure conversions, click dispatch | | |

Interaction: a command opens a context (`InvokeContext`, `DeployContext`) that reads the
template through the providers. `local` hands a function's configuration to
`CfcRuntime.invoke`, which drives a `Container` through the `ContainerManager`; the
timer thread or the signal handler calls `stop` on the same object. The output of the
container flows through `attach_api` to the streams of the caller. `deploy` calls
`CfcClient`, whose loop asks the retry policy. The local HTTP services call
`LocalLambdaRunner.invoke` in threads, unless they debug.
`start-api`, `start-lambda`, `logs` and `validate` exist with tests and documentation,
but are not registered as commands at this commit (`cli/command.py`,
`commands/local/local.py`).

## 2. Plan

| # | Module | Abstract specification | State |
|---|---|---|---|
| 1 | `LocalInvoke` (+ `MCLocalInvoke`, `LocalInvokeProofs`) | `Sandbox` | done, all of the safety proved, the refinement included |
| 2 | `HttpRetry` (+ `HttpRetryProofs`) | `BoundedRetry` | done, safety proved |
| 3 | `AttachStream` (+ `MCAttachStream`, `AttachStreamProofs`) | `Payload(t)`: what the container wrote to each stream | done, safety proved |
| 4 | `Deploy` (+ `MCDeploy`, `DeployProofs`) | uses the outcome of `HttpRetry`'s loop | done, proved |
| 5 | `LogTail` (+ `LogTailProofs`) | | done, safety proved |
| 6 | `Credentials` (+ `CredentialsProofs`) | the number of a configuration in place of its values | done, proved |
| 7 | `Template`, `Swagger`, `ApiRoutes`, `EventSources`, `FunctionSetup`, composed by `Templates` (+ `MCTemplates`, `TemplatesProofs`) | `Claims`: what the template says, without the order the providers go in | done, proved |
| 8 | `LambdaOutput`, `InvokeContext`, composed by `LocalService` (+ `MCLocalService`, `LocalServiceProofs`) | `RequestReply` | done, safety and refinement proved |
| 9 | an abstract specification of start-api as a whole (`Templates` composed with `LocalService`: a request to a declared path is answered by the function declared for it), and theorems about `Swagger` by itself | | next |

## 3. Modules

### LocalInvoke
One variable per piece of program or daemon state, each a function of the invocation.
`pc` is the position in `invoke`; its values fall into the stretches before the `try`,
inside `ContainerManager.run` and `wait_for_logs`, and in the `finally` block, and
`Throw(i, e)` is Python's exception handling for each: only the `try` block swallows
`KeyboardInterrupt`, and an exception of the `finally` block skips the rest of it. `del`
is the position of each of the two actors in `Container.delete`: the thread of the call
(`main`) and the timer thread or signal handler (`killer`). Each request to the daemon,
and each read or write of `Container.id` that another actor could get between, is a step.

`Faults` chooses what may fail: the disk, the event file (its directory is mounted
read-write, so the function may delete it), the daemon's requests, the answer to
`create`, `start`, the attach and its stream, `inspect`, `remove`. `Modes` is run, debug
or install; the last two register a SIGTERM handler instead of a timer, and the handler
stays after its call, bound to its container. `MainThread` are the calls on the main
thread, which Ctrl+C can reach; the others are requests of a threaded server. The
assumption says what `base_local_service.py` sees to: debugging servers are single-threaded.

`known` is a history variable: has the id ever been set?

`Sandbox` is what a caller may rely on: at most one sandbox per call, opened only during
the call, none up at a normal return. `Contract` in `LocalInvoke` is the refinement
mapping; a container whose id never reached the program is no sandbox of the call, which
is exactly the limit of the promise (see `LocalInvokeCtrlC`).

### AttachStream
A byte is known by its place on the wire, and a frame by the places where it starts and
ends. The reader never sees what a byte is part of: it takes what it reads for a header
or for payload by its own state, and bytes that are no header unpack to any type and any
size (`Unpack`, sizes up to `MaxGarbage`). So being out of step shows as wrong places in
a stream. `read` gives any portion of what has arrived. `Payload(t)` is the abstract side:
the places of what the container wrote to stream `t`.

### HttpRetry
One request through either send loop. `CountsRetries` says whether the loop reaches its
`retries_attempted += 1`: it does in `bce_http_client.send_request`, and not in
`CfcClient.send_request`, where the statement stands outside the loop. The service may
carry out a request and fail to say so. Strings and bytes are kept apart (`Str`,
`Bytes`), for `error.code` is one and `REQUEST_EXPIRED` the other. An answer that is no
JSON, that of a failing service included, raises what is not tried again (`protocol`).
`BoundedRetry` is the abstract promise.

### Deploy
`bsam package` and `bsam deploy` over several edits and runs. A version is the number of
an edit; `Torn` is a zip whose writing was cut short. `code` is what the service holds of
a function's code, and `config` of each of its settings, tagged with the version and the
run that sent it; `triggers` counts copies. An update changes the settings it sends
(`Sent`) and no others: `update_function` never passes the memory size
(`cfc_command.py:147`), and `CfcClient` leaves out what is `None` (`cfc_client.py:431`),
that is, what the template does not have (`Declares`). A call of `CfcClient` either takes effect or not, and its
answer may be final or not; `HttpRetry` justifies that a call without a final answer is
made again (`Proceed` to the same label). `Abort` is Ctrl-C or a kill at any call.
`doubt` is a history variable: a trigger request was repeated after it took effect, or
`create_function` met a 403 for a function that may exist.

### LogTail
`tail`, with `fetch` inlined, against a service that orders events by time and cuts them
into pages. Events arrive with any timestamp at any time. `late`, `fresh` and `idle` are
history variables.

### Credentials
`bsam config` rewrites `credentials` and `config` in three passes (`stage`): what exists,
what is missing, and both again, each time truncating the file when it opens it (`Set`)
and filling it when it is closed (`Flush`). The n-th run types configuration n, so a
file's content is a number, and a region and keys belong together when the numbers are
equal. `refused` are the files whose new value has a stray `%`, for which `ConfigParser`
raises; `Kill` may come anywhere, and stands for a full disk where a file is open, which
leaves the same behind. Deploy runs of another process read both files for each
function, and the region twice. `Look` and `Read` are two steps, for the code asks whether
`credentials` exists before it opens `config`. `settled`, `calm`, `killed` and
`hadOthers` are history variables.

### Template, Swagger, ApiRoutes, EventSources, FunctionSetup, Templates
`Template` holds the resources, in the order of the file. Each of the others is what one
command makes of them, and `Templates` composes them, a command at a time.

`Swagger` is pure: where a document comes from (`Read`, with the include and the URI as
fall-backs), which integrations name a function (`FunctionName`), and the list of APIs.
A string is reduced to what the regular expressions tell apart.

`ApiRoutes` is `SamApiProvider` and the mounting of its result: `_extract_apis` one
resource at a time into `ApiCollector`, `_merge_apis`, and one route at a time into the
table of `LocalApigwService`. `Mount` picks any API, since `_merge_apis` goes through
a `set`. Paths are sequences of segments, and the two conversions of `PathConverter` do
what its greedy expressions do. A path with two greedy parameters becomes a rule that
Flask does not take (`Malformed`), and the service does not start. An API resource
without a document is passed over with all its properties, as in the code; `MediaOf`, by
which `RoutesAsDeclared` is stated, does not pass over it.

`EventSources` is `DeployContext`: the three providers are built one after the other in
`__enter__`, each going through every function, and `deploy` has each create its triggers
for each new function. `FunctionSetup` is the way from a function of the template to the
`FunctionConfig` that `CfcRuntime.invoke` gets.

Loops are recursive functions over the positions of a list (`OfType` for the elements a
provider picks out, `AddEvents` for the events of a function), and an update of a
dictionary is `Over`, so that proofs can speak of them. `TemplatesAssumption` says what a
template is: resources, events and paths come in lists, an `Api` event or a document has
paths of API Gateway's kinds of segment, media types are of the three forms the code
tells apart, `ANY` is not one of the methods it stands for (`_ANY_HTTP_METHODS`), and the
values of the shell are strings. It says nothing of which paths, methods, types or
functions there are, nor of the identifiers of resources.

### InvokeContext, LambdaOutput, LocalService
`InvokeContext` is the command of `bsam local`: the steps of `__enter__` in order, each
with its ways to fail, what the command does inside, and `__exit__`. A failure is a
message for the user (`user error`) or a `traceback`. An exception of `__enter__` leaves
an open log open, as Python does not call `__exit__` then.

`LambdaOutput` is pure: how a function's output is split into logs and a response, the
checks on a request, and the statuses of either service.

`LocalService` composes both with a handler for each request. A handler's steps are those
that touch what is shared: the write of the logs to stderr, the log file's state, the
end of the process. start-api has Flask serve the files of its static folder at the root
(`StaticReply`): a request that no route has for its path and method may be answered with
one, and Flask answers `OPTIONS` there by itself. After its function a handler is in the
clean-up (`CleanUp`), which may raise (`CleanUpFails`, history variable `unclean`): the
output is lost then, although the function may have ended by itself. `cut` is only set
where the function did not end. `Emit` is what the container writes meanwhile. `LocalInvoke` justifies
the outcomes of `invoke` here: the function ends, the timer stops it (never under a
debugger), Ctrl+C stops it (only in the main thread, hence only under a debugger), or an
error comes out. `RequestReply` is what a client may rely on; a request is `declared` there
if it is for a function, and only others may be answered with a `resource`, a file of the
service.

## 4. Runs

Runs that pass:

| Run | Instance | What it shows |
|---|---|---|
| `LocalInvokeCli` | two calls in a row on the main thread, each run, debug or install; failing event file, daemon, start, inspect and removal, lost answer to `create`; one Ctrl+C or SIGTERM at any step; symmetric calls | types; `HandleNotLost`: `self.id = None` never strands a live container, whoever deletes first; `ReturnsClean`, `LeakNeedsFailedCleanup`, refinement of `Sandbox` |
| `LocalInvokeServer` | one request of a threaded server, failing disk, daemon, start and attached stream, fairness | `TimerSettled`; every container is removed and every call ends (`ImplementsFairSandbox`) |
| `AttachStreamReads` | all outputs of up to 2 frames of up to 2 bytes, headers of 3 bytes, the daemon may close anywhere | `InStep`, `OutputFaithful`, `OutputComplete`, `ReaderEnds` |
| `HttpRetrySdk` | the default policy's 3 retries and 300 ms, a maximum delay that bites | attempts, doubling delays, bodies, no repetition without doubt, refinement of `BoundedRetry` |
| `DeployRuns` (instance in `MCDeploy`) | 2 functions, 2 triggers, 2 edits (the second drops a setting of one function, adds another, and has a bad runtime for the other function), 2 runs; 3.8 million states | `DoneIsUploaded`, `ConfigurationNeverAhead`, `SecondCopyNeedsDoubt` |
| `LogTailPolls` | 3 events, timestamps 1..4, start 2, pages of 2, budget 2 | `NoneTwice`, `PassedOverOnlyLate`, `GivesUpOnlyWhenIdle`, `TailEnds` |
| `CredentialsRewritten` | 2 configurations, the second with a region that is not supported; 2 functions a deploy run; every initial state of the folder and both files | `CompletedHeals`, `CalmReadsSettled`, `RegionNotAheadOfKeys`, `LossNeedsKill` |
| `TemplateCommands` | up to 3 of 14 resources for start-api, 2 functions of up to 2 of 7 events for deploy, 2 functions with every setting for invoke | `RoutesAsDeclared`, `ImplicitWins`, `PathsRoundTrip`, `ValidBeforeSent`, `TriggersAsDeclared`, `EnvironmentAsDeclared` |
| `LocalServices` | 2 requests to either service with a log file and a static folder or with a debugger, 7 and 8 kinds of request, 7 outputs, Ctrl+C twice; 438 000 states | `WholeOutput`, `StatusTellsCause`, `EveryRequestAnswered`, refinement of `RequestReply` |

Runs that refute a statement of the code's comments or documentation (each is a
finding in `PROJECT.json`, with the quotation):

| Run | Refuted | Because |
|---|---|---|
| `LocalInvokeStopRace` | `ContainerManager` is thread-safe | `Container.id` is checked, cleared by the other thread, then used |
| `LocalInvokeCtrlC` | in any case the timer and the container are cleaned up | Ctrl+C may come between the creation of the container and `self.id = ...` (the same holds for the timer: between `timer.start()` and its assignment in `invoke`) |
| `HttpRetryCfc` | the policy's maximum of retries | `CfcClient` does not count |

The models also reach behaviours that have no run of their own, for each is one step of
the code or contradicts nothing that the repository says.

- Local runtime: `wait_for_logs` raises when the timer deletes the container before the
  attach, although the comment at `runtime.py:98` has it return. `bsam local install`
  passes `event=None`, which `_create_tmp_event_file` cannot write (`install/cli.py:50`,
  `runtime.py:213`), so it ends with `TypeError` before it has a container. A copy of the
  jar that fails after `mkdtemp` leaves its directory (`runtime.py:229`), as does an
  `rmtree` that raises at the end (`runtime.py:190`, in a call that fails then), and a
  `ValueError` of `CfcContainer` leaves the event file (`runtime.py:73`). An error line in
  the progress of a pull is not looked at (`manager.py:94`); it shows as `ImageNotFound`.
- Output stream: a timeout inside a frame loses the place in the stream, and a `None` from
  `read` within a header ends it, where within a payload it is a transient state
  (`attach_api.py:147`): `OutputComplete` fails with `Transients = {"header"}`.
- SDK: a 500 or 503 whose body is no JSON is not tried again. An expired request is not tried again, for a `str` is compared with `bytes`
  (`exception.py:38`). Each retry appends `x-bce-date` to the signed headers once more
  (`cfc_client.py:988`).
- Deploy: memory size and whatever a template no longer says stay at the service as an
  earlier run left them, so `deploy done` is not `as the template has it` for a function
  that existed: `DoneIsUploaded` says which settings are this run's, and of the others only
  that no part of this run wrote them. A function whose triggers were not created is not given them by a later run; a
  torn zip is uploaded; an earlier zip goes with the template as it is now. `--region`
  chooses the endpoint only, `create_function` sends `get_region()` (`cfc_command.py:106`).
- Logs: an event that arrives behind one already printed, or in the same millisecond, is
  never printed: the next poll starts a millisecond after the newest event.
- Templates: `SamApiProvider` looks for the AWS types and `SamFunctionProvider` for the BCE
  ones, so no function of start-api's routes is ever found, and the answer is 502. An explicit
  `ANY` of which one method is overridden is mounted again for all of them. The
  `BinaryMediaTypes` of an API resource without a document are lost
  (`sam_api_provider.py:131`), also for the functions whose events name that API, although
  the comment at line 84 says that such resources are read for the properties of the
  APIs: `RoutesAsDeclared` has all declared types for every other owner, and no undeclared
  ones for any. A path with two greedy parameters makes Flask raise, and nothing is
  served. An invalid DuerOS
  event ends in a traceback, the others in a message.
- Local services: a HEAD request to a GET route is answered with 502, since
  `_get_current_route` has no route for it. start-api answers 200 and "no data" for a
  function that failed; a body that says it is base64 and is left out is a 502. The
  lambda service answers 200 with whatever a function had written when its time was up.
  `_setup_log_file` truncates the log before the later checks may refuse the command.
  A function that ended with a plain response is answered for with 502 or 500 if its event
  file or its container cannot be removed then (`runtime.py:108-116`); `StatusTellsCause`
  names that exception. start-api answers a request that no route has with 200 if the
  static folder has such a file, and any `OPTIONS` on such a path. A response that fails
  to decode, or to be of a usable form, is an error (`Unparsable`).
  After Ctrl+C the handlers that still run find the log closed and answer with an error.

Bounds. Two calls in a row are what a handler left behind by the first needs to meet the
second. Concurrent requests share nothing but the image store, so the run of the server
has one, whose two actors already race. One interrupt reaches Ctrl+C or
SIGTERM at every step; the same configuration with `MaxInterrupts = 2` (1.7 million states, three minutes),
and one call with every fault and three interrupts, pass as well.
`MaxAttempts` of 6 exceeds the budget of 4 by enough to see it exceeded. Two frames are
enough to be out of step, and headers of 3 bytes to be read in portions (the
protocol's 8 add only more portions). In `Deploy` two functions make the loop go on after
a 403 and stop after a failure, two triggers let one succeed and one fail, and two
runs let the second find what the first left. Three events give a page boundary, a late
event and an event between two pages. In `Credentials` a second configuration is what a
first may be torn by or mixed with, and a second function is what makes a deploy run read
again. The templates have two owners of one path and method, `ANY` beside a single method,
an implicit and two explicit resources, two API resources of one id's functions in either
order, every source of a document and every form of an integration's URI; three resources
let a third stand between two that overlap. Two requests are what it takes to mix their
output, or to serve one while another runs. A service with a log file has its threads
meet a closed log; one without a log file or a debugger does nothing that it does not, so
the instance leaves it out. One static file and one request for it are enough, next to a
path that is neither a route nor a file, and an `OPTIONS` on a path that only other methods
have.

Fairness. `LocalInvoke`: the operating system schedules the threads, an armed timer goes
off, and the daemon finishes a removal it has begun; nothing is assumed of functions,
users or signals, nor that the stream of a running container ever breaks (`Waiting`), so that it is
the timer that ends a call whose function does not. `HttpRetry`: connections have a timeout (`connection_timeout_in_mills`)
and sleeps end. `AttachStream`: the reader's thread runs and the container ends some
time, which `LocalInvoke` shows. `LogTail`: the loop runs; that events arrive is not
assumed. `LocalService`: handlers are scheduled, timers go off and the removal they ask for succeeds
(one that raises in the timer's thread, `runtime.py:131`, would leave a handler waiting for
a function that never ends), while a function need never end,
which is why `EveryRequestAnswered` is about services without a debugger: with one there
is no timer. `Credentials` and `Templates` promise nothing that takes time.
`Deploy` has no liveness property: a loop that never counts its retries need
never end.

## 5. Proofs

| Module | Theorem | Statement |
|---|---|---|
| `LocalInvokeProofs` | `TypeCorrect` | `Spec => []TypeOK` |
| | `HandleIsNotLost` | `Spec => []HandleNotLost` |
| | `NothingLeftBehind` | `Spec => []ReturnsClean` |
| | `TimersSettle` | `Spec => []TimerSettled` |
| | `OnlyFailedCleanupLeaks` | `Spec => LeakNeedsFailedCleanup`, an action property |
| | `InvokeKeepsItsContract` | `Spec => ImplementsSandbox` |
| `AttachStreamProofs` | `OutputIsFaithful`, `ReaderIsInStep` | `Spec => []OutputFaithful`, `Spec => []InStep`, where no timeout comes inside a frame |
| | `OutputIsComplete` | `Spec => []OutputComplete`, where moreover `read` gives no `None` inside a header |
| `HttpRetryProofs` | `SdkAttemptsBounded`, `SdkBackoffDoubles`, `SdkWholeBody` | for a loop that counts; the delays also from `PowersOfTwo`, the law of the powers of two, which no installed prover knows |
| | `NoRepetitionWithoutDoubt` | `Spec => RepeatsOnlyInDoubt`, for either loop |
| | `SdkRefinesBoundedRetry` | the safety part of `ImplementsBoundedRetry` |
| `DeployProofs` | `DeployTypeCorrect`, `DoneMeansUploaded`, `CodeGoesFirst`, `NoIdleCopies` | the run's four invariants |
| `CredentialsProofs` | `CredentialsTypeCorrect`, `CompletedRunHeals`, `OnlyKillsLose`, `RegionFollowsKeys`, `UndisturbedRunsReadSettled` | the run's five invariants |
| `LogTailProofs` | `NothingPrintedTwice`, `OnlyLateMissed`, `NeverGivesUpEarly` | the run's three invariants |
| `LocalServiceProofs` | `ServicesKeepTheirContract` | `Spec => ImplementsRequestReply` |
| | `ServiceTypes`, `AnswersAreWhole`, `StatusesAreTrue` | the run's three invariants |
| `TemplatesProofs` | `DeclaredRoutesAreServed`, `ImplicitApiWins`, `PathsComeBack` | `Spec => []RoutesAsDeclared`, `[]ImplicitWins`, `[]PathsRoundTrip` |
| | `NothingSentUnvalidated`, `DeclaredTriggersAreCreated` | `Spec => []ValidBeforeSent`, `[]TriggersAsDeclared` |
| | `OwnEnvironmentOnly`, `TemplateTypes` | `Spec => []EnvironmentAsDeclared`, `[]TypeOK` |

All hold for every value of the constants that the modules' named assumptions allow. With
them every safety property of a passing run is a theorem, and so is the safety part of
every refinement.

The theorems about the SDK's loop and about the output stream have hypotheses beyond
these, and each is needed. A loop that does not count
its retries has no bound (`HttpRetryCfc`). A reader whose socket times out inside a frame
loses its place, and one that gets `None` inside a header takes it for the end: section 4
says so of both, and TLC finds the counterexamples when `Timeouts` or `Transients` has
them. Whether a socket does so is up to Docker's library, whose defaults the code leaves alone;
what is proved is that nothing else puts the reader out of step.

`HandleIsNotLost` is not inductive by itself. `HandleInv` adds that the container of an
invocation follows its program counter (no container before `create`, no id before the
answer, `BoxFollowsProgram`), that an actor that is about to clear the id has seen the
container going or gone (`ClearsAfterRemoval`), and that the killer acts only after the
start of the container (`KillerComesLater`), so that it cannot delete between `create`
and `start`. The step lemma goes over the program's steps, `delete` by either actor, the
outside world, and SIGTERM.

`ReturnsClean` needs to know what a finished clean-up has done. `CleanInv` adds to
`HandleInv` that the program stops its container only after it has unlinked the event
file, and is in `delete` only there (`StopsAfterUnlink`), that a `delete` that succeeded,
whichever actor made it, left nothing live (`DeletedMeansDown`), that a copy of a jar
stays behind only in a call that fails (`LeakedMeansRaising`), and that a call about to
return without an exception went through the whole finally block (`LeavesClean`).
`TimerInv` adds `TimerBeforeUnlink`: a request of a server disarms its timer before it
unlinks the event file, so that an exception may skip the one only if it skips the other.
Only Ctrl+C could come between `timer.start()` and its assignment, and it does not reach
a thread of a server.

`OnlyFailedCleanupLeaks` is about a step: where a call leaves the `try` and `finally`
blocks with a live container whose id is known (`Leaks`), that step is a clean-up that
fails (`CleanupFails`). The lemmas go over the program, `delete` and the outside world.
`InvokeKeepsItsContract` is a step simulation: under the mapping `Call`, `Box` each step
of `LocalInvoke` moves one call or one sandbox as `Sandbox` allows, or neither
(`CallMoves`, `BoxMoves`, `NothingMoves`); that a normal return finds the sandbox down is
`CleanInv`.

`AttachStreamProofs` proves `ReaderInv`: the reader is inside the header behind some
frame or inside the payload of one, and knows how much of it is left (`Located`), and what
it has written lists the payload bytes up to where it is (`WrittenOut`). `FrameOrder` says
that contiguous frames come in the order of their places, by induction over the frames;
hence no header byte is payload and a payload byte is of the one frame it is in. That the
reader, when it is done, is at the end of what arrived (`StopsAtEnd`) then gives completeness.

`HttpRetryProofs` rests on one invariant, `LoopInv`: the retry counter is the number of
attempts without the one under way, a sleeping loop is still within its budget, and the
body is at its offset whenever an attempt begins. It assumes `CountsRetries`; without it
`AttemptsBounded` is false, which is what `HttpRetryCfc` shows. `BackoffDoubles` compares each
delay with the one before and does not mention the policy's formula, so the formula is
part of what is proved: `DelayOfLast` says that the last delay was that of one retry
fewer, and 2^(n+1) = 2 * 2^n does the rest (`PowersOfTwo`, a premise of the theorem).

`DeployProofs` proves `DeployInv` inductive. Beside the properties it says that the
run's code precedes its configuration (`CodeBeforeConfiguration`), that a run in
`create_triggers` without a 403 has created the function itself (`CreatedByThisRun`), that
functions still ahead, and settings that the update under way does not send, have nothing
of this run (`NotYetConfigured`), and that event sources still ahead of the loop have no trigger yet (`TriggersFollow`).

`NoRepetitionWithoutDoubt` needs another one, `DoubtInv`: once the request was carried out,
a sender that goes on has a transient error behind it, for the policy tries no other again.
It does not assume `CountsRetries`.

`CredentialsProofs` goes in layers, each of which uses the one before: types; `HealInv`,
what the passes behind the current one have already left in both files; `LossInv`, that
the sections of other tools are kept while a file is open, so that it takes a kill to lose
them; `RegionInv`, that the keys on disk are never older than the region on disk, nor than
the region a deploy run has read, unless they are blank or being written; and `CalmInv`,
that a calm run began in a settled state.

`LogTailProofs` has two invariants. `TailInv` is about the order of the log: within a fetch
the token parts what was yielded from what remains, the start of the fetch is at most a
millisecond past an event that was yielded, and every event that did not arrive late
remains (`PageInv`); between two fetches `latest` parts them (`RestInv`). An event that
arrives in time is ahead of all that was yielded, hence of the token and of `latest`.
`BudgetInv` says that the counter and the idle polls add up to the maximum.

`LocalServiceProofs` rests on `RunsOnce`: the output of a request is chosen in the step
`run` and not before, and an answer that comes from a function follows it; and on
`ToItsPlace`: only a request for a function gets to `run`, and only another one is answered
from the static folder. Each step is
then shown to map to one of `RequestReply` or to a stutter.

The other three follow from `OutputInv`. For each request (`Own`) it says that its part of
stderr is what its function wrote there, with the logs of its stdout behind it once these
are parsed (`Said`), and that an answer is the response in that output, or has a reason not
to be: it was cut short, the clean-up failed, the log was closed, the request was refused, or the output has no
plain response (`Told`). What is common to all requests is in `Common`. The steps divide
into those that write nothing, for which `OwnStays` and `QuietStep` do the work, and those
that do: only `Emit` and `Parse` append to what requests share, and what they append
is of one request. `LinesOfAll` and `LinesOfNone` say what the shared sequence then has of
that request and of another one.
`ResponseAndLogs` splits an output at its last line that is not blank (`Ending`).

`TemplatesProofs` has one invariant for each command, over `Chosen`: the template and the
settings are those of the choice and never change.
`SourceInv` is about `DeployContext.__enter__`: every provider behind `provider` was found
valid for all functions (`Validated`), and nothing is sent unless all three are.
`TriggerInv` counts. A turn is an event of one of the three providers; for the function
that is being deployed, the triggers created are those of the turns up to the current
provider and event (`Progress`, `Same`, `Upto`), each as often as it is asked for.
`ProvidersShareEvents` then maps turns to the function's events: `OfTypePlaces`
gives the places of the elements that a provider picks, and the map is a bijection, for
an event has one type.
`SetupInv` says of each run that its configuration is made of the function it is for.
`CollectorInv` relates the collector to the resources that are behind: the APIs it holds are
their claims (`Held` = `ClaimsTo`), and the media types of each owner are those said so
far (`MediaIn` = `MediaTo`), whether the owner's APIs came before or after. At the end these
are the types of the resources that have a document (`ReadMediaOf`), which `ReadMedia`
compares with the declared ones. The merged list
has the claims of the implicit API behind all others (`Ordered`). So the last of those that
claim a path and method is not overwritten for it (`ClaimsAreMerged`, with `Greatest`), and
is one of the implicit API where there is one (`ImplicitIsMerged`). `RouteInv` says that
what is mounted and what is still to be mounted are together what was merged. Two paths
that differ stay different for Flask (`ToFlaskInjective`), so the route that is served on a
key is for a claim to that very path, and `RoundTrip` gives it back.

The library's induction theorem takes an operator and cannot be used. Induction over the
naturals is done by the smallest counterexample instead (`SetInduction`, from the
well-foundedness of `<` on the naturals): a set that has 0 and is closed under successor has
them all. It serves where the property fits in a set: that a recursive function over the
positions of a list exists (`CollectorExists`, `KeepsExists`, `AddsExists`,
`FlattensExists`), and what it returns.

Only model-checked: every liveness property (`ReaderEnds`, `TailEnds`,
`EveryRequestAnswered`) and the liveness part of the refinements (`ImplementsFairSandbox`,
`ImplementsBoundedRetry`, whose safety parts are theorems), since the prover does not
reason about fairness or ENABLED. `Swagger` and `InvokeContext` have no properties of
their own: theirs are those of `Templates` and `LocalService`, which the theorems cover;
what a document means is taken there as `Swagger` reads it.

## 6. Not modelled

Headers, signatures, canonical URLs and JSON of the SDK are data the properties do not
tell apart. The contents of templates, events and zip files are versions or model values.
Docker, the CFC service, the log service and the functions are external: they are
modelled by what the code relies on, as nondeterministic as their documentation leaves
them. A container whose creation request reached the daemon and whose answer did not
cannot be removed by the program; it is part of the model and outside of the promise.
Temporary directories made by `mkdtemp` for event files are never removed by any path, so
there is nothing to check about them. The names, paths and descriptions of functions
(`sam_function_provider.py`) are data. So are the plugins of the template translator
(`lib/samlib/wrapper.py`), which may add resources before the providers read them: the
models start from the resources that come out. A dynamic route at the root for GET
(`/{proxy+}`) is shadowed in Flask by the rule for static files, which is added first and
weighs the same; paths are compared as texts here, so no route shadows another. Odd shapes
of a response's headers or body (a list, a number) are represented by one unusable
status. Two `bsam config` at the same time are not modelled:
it is an interactive command.

Components listed as `not_modelled` have no state or order to check: log formatting is a
chain of generators that map one event to one line, the sample events are templates filled
in by a generic function, `bsam init` calls cookiecutter, the validation of templates is a
translator library's, and the command line is click's.
