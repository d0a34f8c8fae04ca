# A verification project for url2code

url2code turns a YAML file into an HTTP service: each endpoint runs one
command-line program with arguments made from the request, hands it uploaded
files, and returns what it printed and wrote.  This directory holds TLA+ models
of that service, the TLC runs that check them, and TLAPS proofs of the theorems
that matter most.  Line numbers refer to `src/url2code/`.

## 1. Inventory

| Component | State it keeps | Operations |
|---|---|---|
| Command execution (`executor.py` 344-565 and its file helpers) | files under `uploads/` and `outputs/`, spooled file handles, child processes, per request the paths written so far | `execute_endpoint`: prepare outputs, write uploads, build the command, launch, communicate with a timeout, kill, reap, clean up, parse |
| Request handler (`main.py` 137-298) | per request: status, duration | size gate, rate gate, parse, execute, render, record |
| Metrics (`metrics.py`) | gauge, counters, histogram | `inc_inflight`, `dec_inflight`, `inc_request`, `observe_duration`, `render` |
| Rate limiter (`ratelimit.py`) | a token bucket per (endpoint, client) | `check` |
| Server lifecycle (`main.py` 311-319, 419-435, `Dockerfile`) | serving, draining, cancelling, stopped | SIGTERM, drain timeout, cancellation, exit |
| Request parsing (`request_parser.py`) and argument building (`executor.py` 136-341) | none beyond one request | merge, check, render |
| Configuration (`config.py`) and routing (`main.py` 65-102, 322-386) | the route table, fixed at boot | validate, normalise, register, match |
| Output parsing (`parser.py`), templates (`templating.py`) | none beyond one request | parse, resolve a path, render, send |
| Readiness (`/readyz`, `config.py` 302-328) | none; reads the file system | looks every executable up, before `create_subprocess_exec` does so on its own terms |
| Tracing, logging, `bin/cat-yaml-as-json` | none of their own | glue |

**How they interact.**  A request that the route table leads to an endpoint
enters the handler, which raises the gauge, asks the two gates, awaits the body,
and awaits `execute_endpoint`.  Everything runs on one asyncio event loop, so the
code between two awaits is atomic against other requests; the children and
whatever they start run beside the loop.  Requests meet in three places: the
file system (a templated upload name is not unique), the limiter's buckets, and
the metrics.  uvicorn wraps all of it and can cancel a handler at an await.
FastAPI does not cancel a handler when its client goes away.

**What is hard.**  Clean-up on every path (a failed upload, a launch failure, a
timeout, a parse failure, a cancellation, a crash) while other requests write to
the same directories; the race between the timeout and the child's own end;
descendants of the child that hold its pipes; bookkeeping in a `finally` when
the exception is not an `Exception`; rounding and caps in the limiter; four
merges of values, each with its own order; limits overridden field by field;
routes that hide each other; a probe that looks for a command elsewhere than the
launch does; output of a command that looks like a template.
`PROJECT.json` lists each hazard with its line and the properties aimed at it.

**What makes each component correct.**

* Execution: a command finds its inputs intact; nothing of a request survives
  its answer but the outputs it returned; an answer means that the child is gone.
* Handler: every request counted once, the gauge returns to zero, the status
  counted is the status sent; a refused request costs nothing.
* Limiter: bounded rate, honest `Retry-After`.
* Lifecycle: a shutdown ends.
* Arguments: only checked text reaches the command; the documented precedence.
* Routing: an accepted configuration serves every endpoint it lists.
* Readiness: a server that says it is ready can start its commands.
* Answers: a template is filled in completely or the answer is an error; what a
  command printed is data, and the status tells whether it could be parsed.

## 2. Modules

| Module | Models | Checked by | Proved in |
|---|---|---|---|
| `Outcomes` | the ends of a call and the HTTP status of each | - | - |
| `Execution` | the contract of `execute_endpoint` (abstract) | refined by `Executor`, used by `Service` | `ExecutorProofs` (the refinement) |
| `Executor` | `execute_endpoint` with files, handles, processes | `MCExecutor*.cfg` | `ExecutorProofs` |
| `Bucket` | the contract of `RateLimiter.check` (abstract) | refined by `RateLimiter`, used by `Service` | `RateLimiterProofs` (the refinement) |
| `RateLimiter` | `RateLimiter.check` and the 429 gate's rounding | `MCRateLimiter.cfg` | `RateLimiterProofs` |
| `Service` | limits, handler, metrics, answer, shutdown; composes `Execution` and `Bucket` | `MCService*.cfg`, with `MCService` | `ServiceProofs` |
| `Arguments` | `parse_request`, `build_command`, the template's `request` | `MCArguments*.cfg` | `ArgumentsProofs` |
| `Responses` | `parse_output`, `render_template`, the answer | `MCResponses.cfg`, with `MCResponses` | `ResponsesProofs` |
| `Routes` | validation, paths, registration, matching | `MCRoutes.cfg`, with `MCRoutes` | `RoutesProofs` |
| `Readiness` | `/readyz` against the launch it predicts | `MCReadiness.cfg`, with `MCReadiness` | `ReadinessProofs` |
| `Induction` | nothing of the code: induction over numbers and finite sets, for the proofs | - | itself |

`Execution` and `Bucket` are each used twice.  `Executor` implements the first
(the property `ImplementsLiveContract`, with a refinement mapping from phases and
files), `RateLimiter` the second (`ImplementsBucket`, which maps fractions that
are refilled late to the whole tokens a request would find), and `Service` is
built from their actions, so what it shows rests on the contracts and not on
second models of the call and of the limiter.

Definitions named `X_something` under a comment "Mutation" are the definition
`X` with a plausible bug.  Each passing property is violated when one of them
takes the place of `X`; `PROJECT.json` says which.

### Executor

| Model | Code |
|---|---|
| `BeginOutputsFail` | 356-373: an exception before the first `try` |
| `BeginRejected`, `BeginBreaks` | 375-404: the `except Exception` of the preparation, after any number of uploads, or when the arguments cannot be built after the last one |
| `Begin` | the same lines without an exception; 410 |
| `Launch`, `LaunchFails` | 412-451 |
| `TimeoutKills`, `TimeoutKillMisses`, `Reap` | 458-481, with and without `ProcessLookupError` from `kill()` |
| `RunFails`, `ParseFails`, `ParseCrashes`, `RunSucceeds` | 489-565 |
| `Finally` | 482-488, part of every step that leaves the second `try` |
| `RemovalFails` | the same branches when an `unlink` raises, as the command made a directory of an output's path: the outputs before it are gone, it and those after it stay, and the answer is 500 |
| `Cancel` | a `CancelledError` at any await: only the `finally` runs |
| `Crash` | the process dies (external); `_lifespan` does no sweep at the next start |
| `CommandWrites`, `CommandForks`, `CommandExits`, `HelperExits` | the wrapped command (external) |

The file system is a set of records: path, the request and the part it was
written for, and whether the copy is whole.  A path is a tagged tuple, with one
tag per way of naming.  Two assumptions are built in: 256-bit random tokens
never repeat, and an `unlink` fails only where a command made a directory of one
of its outputs; that it does so to an input is left out.  `Launch` is a step of its
own because `create_subprocess_exec` awaits.  A helper is a process the child started that
holds its pipes; one that closes them is invisible to the service and left out.

`WaitForPipes` is the one thing the code leaves to its event loop.  On uvloop,
which the image runs (uvicorn's `standard` extra, locked in `uv.lock`),
`proc.wait()` returns with the child: `FALSE`, the value of the executor's runs.
The asyncio loop of Python before its fix in 3.12 also waits for the end of the
child's pipes: `TRUE`.  The theorems hold for both.

### RateLimiter

Floating point is replaced by exact arithmetic: a token is `Window` units, and a
tick refills `Capacity` of them.  Rounding errors of doubles are not modelled.
`granted` and `promise` are history variables.  One process and one loop run
`check`, so the lock is never contended.

### Service

`Effective` is `effective_limits`; a limit that is not set is 0, which the
configuration refuses as a value.  A length of 0 also stands for a
`Content-Length` that is absent, unreadable or negative: all pass the gate.
`Count` is the handler's `finally` as far as the counters go; `durations` is the
histogram, which `Observe` updates in the same step.  The gates, which never
await, are single steps that enter and leave.  The limiter is `Bucket`, whose
tokens come back at any time.  `Seen` says which status a client may receive for
what was counted; it stands for FastAPI's and uvicorn's part.  The history
variables `took` and `admitted` say what the histogram and the size gate should
have seen.

### Arguments

Names are independent, and a text is one of three kinds: accepted as it is,
accepted and passed on in another form (`"01"` for a number; for a bool, a word
for false), refused.  Each value carries its source.  A body is absent, JSON or a
form, or one of the two that `parse_request` cannot take: `unreadable` (no JSON, or
no object) and `misplaced` (a form without a required upload, or with a file where
a text belongs).  `Refuse` has the status: 400 where the code raises an
`HTTPException`, 500 for what it does not expect, which is a reserved JSON field of
a wrong type (`ParseBreaks`) and a placeholder such as `{}`, on which `str.format`
raises no `KeyError` (`unnamed`, `BuildBreaks`).  Writing the uploads is
`Executor`'s business.

### Routes

A spelling is the sequence of what its slashes separate, so that `strip("/")`
and the concatenation of root and route are what the code does, including
`"//"` as a root.  Starlette's matching is external: first route of the method
whose pattern fits.  A segment is a literal or one parameter.  The validator lets
three collisions of a download URL pass, and `DownloadsReachOwner` names them: two
endpoints of one path, an earlier endpoint with parameters, and an earlier endpoint
whose path is a download URL of the other's.

### Readiness

A directory holds a file that can be run, one that cannot, one the kernel refuses
although it has the execute bit (a missing interpreter), a directory of that
name, or nothing, or is missing itself.  `Resolves` and `Which` are the probe's
`os.access` and `shutil.which`; `Starts` is the launch, with the endpoint's own
`cwd` and `PATH`.  An installation or a removal in between (`Change`) makes
earlier answers void.

### Responses

A value is a tree, of any depth: a function from the address of each of its
nodes, which is the sequence of keys and indices on the way from the top, to the
node, its Python type and content.  A text is a sequence of pieces, some of which the
renderer would take for tokens if it met them: the output of a command may
contain such pieces.  What the endpoint's regular expression and the JSON decoder
find is part of what the command prints.  One attribute of `str` and `list`
(`count`, a method) and one of numbers (`real`) stand for all that `getattr` may
find, in chains as well (`exit_code.real.real`); the attributes of a method, which
it would also find (`count.__doc__`), are left out.  Two things cannot be sent: a
NaN or a Python object, which JSON has no form for, and a lone surrogate (`Lone`),
which UTF-8 has no bytes for.  `Resolve` is a recursive
function of how many parts of a path were taken, and `Render`, where the code
recurses, gathers at each address of the template what takes that node's place.
The properties use neither: `Keyed` are the values that keys alone lead to,
`HasForm` compares the answer with the template address by address, and `Pieces`
says where each piece of the answer may come from.

## 3. Runs

| Run | Question | Result |
|---|---|---|
| `executor` | inputs, clean-up, processes, handles, outputs, contract and its liveness; who may take a named upload away | holds |
| `executor_parser` | outputs removed when parsing fails? | violated: `re.error`, `RecursionError` |
| `executor_kill` | 504 on every timeout? | violated: the child ends just before `kill()` |
| `rate_limiter` | rate bound, honest `Retry-After`, contract | holds |
| `service` | balanced metrics and histogram, limits, order of the gates, and an end to every shutdown with `run()`'s drain period | holds |
| `service_container` | does it end with the image's own command? | violated: a client that stops sending |
| `service_cancelled` | is a cancelled request counted as it was answered? | violated: counted as 200 |
| `arguments` | only vetted texts, documented precedence | holds |
| `arguments_template` | does the template see flag values? | violated |
| `responses` | complete templates, native types, data that stays data, status | holds |
| `routes` | probes always answer, plain endpoints and their downloads are reached | holds |
| `readiness` | ready means that commands start, missing that they do not | holds, as far as the child looks where the probe does |

A violated run checks one sentence of the documentation or of a comment against
the code; `findings` in `PROJECT.json` quotes it.

**Bounds.**  `executor` has two requests, two uploads (one required and random,
one optional and templated), one rendered name and two outputs: two requests for
one to disturb the other's files, two uploads for preparation to stop between
them, two outputs for a clean-up to stop between them, and one name as the worst
case for collisions.  Its safety properties are proved for any number of each.
`service` has two requests, one client, one output, six combinations of limits
(each block absent, or setting one limit or both), lengths up to 2, one bucket of
the histogram with a duration on its bound and one beyond it: two requests are needed
for one to be counted, refused or rate-limited while the other runs or is
cancelled.  `rate_limiter` bounds the clock at 7 ticks with a window of 5, a
capacity of 2 and a second of 2 ticks, so that refills are fractional, a bucket
fills up again, and `Retry-After` rounds.  The proofs have no bounds.
`arguments` has one name because no definition relates two names.  `responses`
has templates of one or two tokens, alone, with a newline, with a newline and
letters, beside letters, and inside a list in a dict; eleven paths, with each way to
miss; and prints with each way to fail, a lone surrogate among them.  `routes` has two
endpoints, four roots and eight routes, among them the empty, doubled and trailing
slash and a route that is a download URL of another.  `readiness` has two endpoints, and three
directories: the server's, and two on its `PATH`, one of which may be an endpoint's
`cwd` or the only one on a `PATH` of its own; the other such `PATH` has all three.

**Fairness.**  `Executor` and `Service` assume weak fairness of the handler's own
steps: the event loop runs every ready task and fires its timers, and a timer of
`wait_for` always exists.  Nothing is assumed of commands, of their descendants,
or of clients.  In `Service` the fairness of `Ends` is granted only without
`WaitForPipes`, where `Executor` has shown it (`ImplementsLiveContract`).

## 4. Proofs

All with TLAPS, for every value of the constants under the assumption named after
each module (`ExecutorAssumption`, ...).  They say that bounds are numbers and that
subsets are subsets; what goes beyond is named below.

**Refinement.**  Both contracts are implemented, so that what `Service` shows
rests on `Executor` and `RateLimiter`.

* `KeepsContract`: every step of `Executor` is a step of `Execution` or changes
  nothing it sees.  The steps are split by what the contract sees of them: one that
  ends a call, with the outputs the `finally` leaves (`FinallyOutputs`,
  `EndsCall`); one that writes an output (`WritersKnown`); any other.  It rests on
  `OutputInv` and `ProcessInv` below.  This is the safety part of
  `ImplementsLiveContract`.
* `IsBucket`: the whole tokens a request would find, `Found`, are the contract's
  tokens.  Time that passes is a refill there, which may jump; a request takes one.
  The proof is about rounding down: refilling late and in fractions, with the cap
  at a full bucket, finds as many tokens as refilling all along (`DivBounds`).

**Execution.**

* `InputsStayIntact`, `UploadsAreOwned`: neither is inductive.  `FileInv` adds
  that a file on a token path was written for the request and field in that
  path, and that a request not yet begun or already answered owns none; the
  preservation by a clean-up then rests on token paths being disjoint, between
  requests and from named paths.
* `AnsweredReaped`: by `ProcessInv`, which ties the phase to the processes:
  before the launch and after an answer that waited for them there are none,
  and once `kill()` was called, or raised, the child does not run.
* `NamedLost`: how the disk changes in each step, read for one named upload.  What
  takes it away is a file written on its path, or a clean-up of a request that
  has recorded that path; a copy that breaks is not recorded, but the torn file then
  lies on the path (`BreaksAbandon`).
* `FailedRunsClean`: by `OutputInv`, which adds that an output lies on the path
  of its own request, and that only a process that is alive creates one.
* `HandlesAreClosed` and `OutputsStay`: inductive over `TypeOK`.  The second, an
  action property, needs that a request's clean-up names only paths of its own,
  and that a request which was answered takes no further step.

**Rate limiter.**

* `RateBounded`: `Budget`, an invariant about the last stretch only: what was
  granted since any grant, plus what the bucket holds, is at most a full bucket
  plus the refill since.  Append one grant and the bound for every pair follows.
* `RetryIsHonest`: while a promise is open, the bucket and the refills up to
  the promised time make a token.

**Handler.**  `ServiceAssumption` says that the requests of a run are finitely
many, without which no gauge could count them.

* `ScrapesBalance`: `Accounted` is inductive over `TypeOK`, because it also says
  which requests have a counted status.  Each step that counts moves one request
  out of the handler and into one status's set; the cardinalities follow
  (`CountKeepsAccounts`), and no other step moves any (`OthersKeepAccounts`).
* `HistogramCounts`: the same for the set of successes and its part below each
  bound (`SuccessObserved`, `NothingObserved`).
* `AverageHolds`: the histogram's sum is a fold over the successes, in the order
  in which the fold takes them, and the counter adds them in the order in which they
  end.  That the fold may take any of them first is proved by induction on the
  size of the set (`SumTakesAny`); so a step that counts a success adds its duration
  (`SumGrows`), and every other leaves the sum (`OtherStepsKeepSum`).
* `CapHolds`, `RateHolds`: both read the nearest limit off what `Effective` combines
  (`NearestIs`).  The first is inductive, the second an action property that needs
  `TypeOK`'s bound on the tokens.
* `TokensAreForRuns`: an action property; only `Pass` takes from the bucket.

**Arguments.**  `CommandIsVetted`, `MergesKeepRanking` and `ClientFlagsKept` are
about one state each, with five merges, two checks and a normalisation between
the request and the command.  The invariant `IInv` says that the parsed fields are
those of the request and that the arguments are what `Build` computes from them.
The rest is lemmas about the operators: which source a merged value comes from
(`WhoseValue`, `WhoseRequestValue`), and that a value which fails its check can
only be a default (`WrongIsDefault`).

**Routes.**  `RoutesAssumption` says that a segment in braces is not empty, nor is
what a client puts in its place, and that the service's own paths are finitely
many with at most two segments.  `IInv` describes the table: it starts with the
service's own routes, each entry after them is what its endpoint asks for, and
each endpoint has had its turn at most once.  The first match exists because a set
of numbers has a least one (`LeastNumber`), and then:

* `InfraStays`: a path of the service fits its own route, and what comes before
  that is the service's as well.
* `PlainEndpointsAreReached`: a pattern without parameters fits one path only
  (`OnlyFit`), so that an endpoint that answers in another's place has its method
  and path, which the validator excludes.
* `DownloadsFindOwner`: two download paths without parameters that fit one URL
  have the same base.  The attempt to prove this without the third exception of
  `DownloadsReachOwner` failed on an endpoint whose route is a download URL of
  another; the run now has such a route.

**Readiness.**  `Fresh`, an invariant, says that the last answer and the last
launch are those of the files as they are.  `ReadyIsTrue` and `MissingIsTrue`
follow from it and from `SharedView`, which compares where the probe looks
(`Probed`) with where the child does (`Sought`).

**Answers.**  `ResponsesAssumption` says that what JSON, regular expressions and
YAML hand over are trees whose inner nodes are dicts and lists, and that there is
at most one template and one JSON value.  The steps are few; the work is in the
operators, about trees and texts of any size.  `IInv` says of each step, and of
the answer, what must have come before it: `Known`, that the parsed value is what the
mode makes of the print; `Waiting`, that no answer stands early; `Filled`, where a
rendered body comes from; `Unfilled` and `Refused`, what an error answers.

* `LoudHolds`: a path leads by keys as far as it can and by attributes from there
  (`PathLeads`), and along its keys if they exist (`KeysLead`), both by induction on
  the parts taken.  The attempt to prove an earlier form, which let only the last
  part of a path be an attribute, failed on `exit_code.real.real`; the property now
  allows a chain, as the code does, and the run has that path.
* `FormsHold`: no two nodes of a template make nodes of one address in the body
  (`NoneMeet`), so that a subtree of the body is what took the place of one node
  (`RenderAt`, `RenderChildren`).
* `DataHolds`: what a token stands for is a value that keys lead to, or an attribute
  on the way (`TokenStandsFor`, `MetIs`); the pieces of an embedded text are those
  of its parts, however many are joined (`FlattenedIs`, by induction; `SpliceIs`),
  and those of a body are those of its texts (`BodyPieces`).
* `StatusHolds`: from `Known`, `Refused`, and that the children of a list of
  matches are those matches (`ListIs`).

**Induction.**  The library states induction of a predicate `P(_)`, which no
prover here can be given.  `Induction` states it of sets, for which
well-foundedness is a fact about a relation: a set of numbers has a least one
(`LeastNumber`); one with 0 and every successor has all (`NumberInduction`); and so
for finite sets that grow by one element (`FiniteInduction`).

**Only model-checked.**  Liveness (`DrainEnds`, the liveness of
`ImplementsLiveContract`), which is out of the prover's reach.

## 5. Not modelled, and why

* Tracing, logging, the helper script: no state that others read.
* The text of numbers, JSON, regular expressions and Prometheus lines.
* `client_ip`, and the bucket map's growth, which nothing bounds; a capacity of
  zero or less, which the configuration refuses.
* The validators of one endpoint's fields, which compare lists with themselves,
  and reading the YAML file.
* The spooled parts of a form that `parse_request` refuses: nothing closes them
  before they are collected.
* Several workers: each has its own limiter and metrics; they share only the
  directories, and the executor's requests may as well run in several.

**Disagreements that no run shows.**  Reading the code beside its documentation
turned up more than the five violated runs.  Each of these is either a step of a
model that its properties exempt by name, or outside the models.

* `executor.py:109`: a copy that raises leaves the file it created, as does a
  crash; DEPLOYMENT.md:167 calls `uploads/` "temp files for in-flight requests".
  (`BeginBreaks`, `Crash`; exempt in `UploadsHaveOwner`.)
* `executor.py:109`: two requests may get the same name from a `name_template`;
  the later one replaces the file the earlier one's command is about to read, and
  the first to end removes it.  README.md:372 says that an upload is "stored under
  a unique cryptographic filename".  (`Templated`; exempt in `InputsIntact`.
  `NamedLossesHaveRival` says that only such a name loses an upload.)
* `executor.py:133`: an output that the command made a directory of cannot be
  unlinked, which turns the answer into a 500 and keeps the rest; README.md:425
  promises that outputs are deleted.  (`RemovalFails`; exempt in
  `FailedRunsLeaveNoOutput`.)
* `executor.py:461`: only the child is killed.  A process it started outlives the
  504 and may write the output again.  (`Lingering` in `Execution`.)
* `executor.py:463`: with `WaitForPipes`, such a process delays the 504 for as
  long as it holds the pipes.
* `main.py:261`: the status is counted before the response exists.  A malformed
  multipart body is Starlette's `HTTPException`, counted as 500 and answered with
  400; a result that cannot be serialised is counted as 200 and answered with
  500.  (`Seen` in `Service`.)
* `main.py:220`: a run that fails or times out is not in the duration histogram;
  CHANGELOG.md:150-151 says "observes CLI duration when the command ran".
* `executor.py:243`: a flag takes the body's value although the URL has a
  parameter of that name; README.md:277-278 says the URL wins.
* `request_parser.py:124`: a reserved JSON field of a wrong type is a 500 and not
  the 400 of README.md:459, which the same field in a form gets.  (`ParseBreaks` in
  `Arguments`.)
* `executor.py:304`: a flag's name used as a placeholder has no check if
  `validations` does not list it, so an override or a path parameter of that name
  passes as it is.  (Exempt in `OnlyVettedTexts`.)
* `executor.py:321-324`: a placeholder without a name, such as `{}`, is an
  `IndexError` and so a 500 for every request.  (`BuildBreaks`, `BeginBreaks`.)
* `executor.py:410`: a `stdin` with a lone surrogate cannot be encoded, outside of
  every `try`: a 500.  It comes in JSON, which an endpoint with uploads does not
  take, so that nothing is left behind.  (Not a step of its own: it leaves what
  `BeginBreaks` leaves without uploads.)
* `executor.py:413`: an argument no process can have (a NUL byte) raises a
  `ValueError`, which is a 500 and not the 400 of README.md:459.  (`LaunchFails`.)
* `config.py:248`: an endpoint on the path of a service route, or two that differ
  in the name of a parameter, pass validation although one is never reached.
  (Exempt in `PlainEndpointsReached`.)
* `main.py:90`: a GET and a POST endpoint of one path share a download route,
  which looks into the first one's files.  (Exempt in `DownloadsReachOwner`.)
* `main.py:91`: an endpoint declared earlier whose route is a download URL of
  another, as `/b/downloads/t/t` is of `/b`, answers in the place of the file.
  (Exempt in `DownloadsReachOwner`.)
* `executor.py:368-370`: an endpoint with a path parameter and output files
  cannot format its download path, and answers 500.  (`BeginOutputsFail`.)
* `config.py:311-313`: `/readyz` looks in the server's own `PATH` and directory.
  An endpoint whose `PATH` lacks one of those, or whose `cwd` is another, may be
  ready and not start, and one whose `PATH` has more may start and be reported
  missing; and an execute bit says nothing of a script's interpreter.  Lines 306-307
  say that the name is looked up as the OS does when the subprocess is spawned, and
  README.md:497-505 has the orchestrator rely on it.  (Exempt by name, each in its
  own direction, in `ReadyMeansLaunches` and `MissingMeansFails`.)
* `templating.py:109`: `{stdout.count}` is no missing path but a method of `str`:
  alone it makes a 500 without the envelope, beside letters a 200 with the text
  `<built-in method ...>`; templating.py:38-43 promises a loud failure.  (Exempt in
  `LoudTemplates`.)
* `templating.py:66`: `$` also matches before a newline at the end, so a block
  scalar with one token keeps its value's type, and a client gets a number where the
  template has more than the token; lines 63-64 say "the WHOLE string is one token,
  nothing else".  (`TokenLine`; exempt in `NativeTypes`.)
* `main.py:246`: the envelope of a failed template holds `parsed_output`; if that
  has a NaN the error cannot be written either, and the client gets a bare 500;
  templating.py:69-74 says that it "still carries" the envelope.  (`RenderFails`.)

## 6. Plan

Every safety property that a run checks is proved.  What could be added:

1. Two endpoints that share directories, whose names may collide.
2. Path parameters together with output files, whose download path cannot be
   formatted, in `Routes` and `Executor` at once (`BeginOutputsFail` has the
   outcome).
3. The bucket map of the limiter, should the code ever remove a bucket.
