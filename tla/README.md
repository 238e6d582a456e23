# goexpose: specifications and proofs

goexpose is an HTTP server that exposes shell commands, http requests, database
queries and files as endpoints.  A JSON or YAML file lists authorizers and
endpoints; each endpoint has a path and, per HTTP method, a task.  This
directory holds TLA+ modules of the server, TLC configurations that check them
on small instances, and TLAPS proofs of the properties that matter most.

Line numbers are those of the files at the root of the repository.  The code
has no `go.mod` and is built with the language rules before Go 1.22: a `range`
loop has one variable for all its iterations.

* [Inventory](#inventory): the parts of the system
* [Modules](#modules): which module models which part, and how
* [Runs](#runs), [bounds](#bounds), [fairness](#fairness)
* [Proofs](#proofs)
* [What the code does otherwise than its documentation says](#what-the-code-does-otherwise-than-its-documentation-says)
* [Not modelled](#not-modelled), [assumptions](#assumptions), [plan](#plan)

## Inventory

| Part | Source | State it keeps | Operations | What is hard |
|---|---|---|---|---|
| Start of the server | `server.go` (`Run`, `router`, `routes`), `cmd/goexpose/goexpose.go`, `config.go`, factories in `tasks.go` | configuration, route table, the list each `InfoTask` keeps | read and validate, build a task per method, register routes | `routes` and `InfoTaskFactory` call each other; `MultiTaskFactory` calls factories; two maps are ranged over in random order; pointers to loop variables |
| Request handler | `server.go` (`Handle`, `NotFoundHandler`), `auth.go` (`Authorize`), `response.go` (`NewResponse`, `Write`) | per request: route, authorizers left, body, parameters, response; shared: the process environment | authorize, read the body, collect parameters, run the task, recover, write | requests are concurrent; panics anywhere; authorizers and tasks that never return; status line sent before the body is encoded |
| Registries | `registry.go`, `auth.go`, `formats.go` | three maps under a `sync.RWMutex` each | register (panics on a duplicate), look up, `GetAuthorizers` | check-then-set, a panic under the lock, a read lock taken twice |
| Tasks that run a list | `tasks.go` (shell, http, postgres, mysql, cassandra, redis, multi) | the configuration; per run: entry, handle, reply, rows, results | validate, run the items one after the other, unwrap one result | variables that outlive an item, `goto Append`, a failure in the middle, `single_result` |
| Formats | `formats.go` | registered formats | `VerifyFormat`, `Format` | blank and unknown parts, a body no part accepts |
| Filesystem task | `tasks.go` (`FilesystemTask`) | per run: path, listing or content | stat, list or read a file, answer raw or base64 | the path is looked up twice, entries one by one, a file is read in pieces, while others change all of it |
| Authorizers | `auth.go` (`BasicAuthorizer`, `LDAPAuthorizer`, `HttpAuthorizer`) | configuration; per call: credentials, connection | decode credentials, dial, check the lists, ask, decide | remote servers that fail, are silent or away; late answers; errors that are overwritten |
| Response | `response.go` | status, values, raw body | setters, `MarshalJSON`, `StripStatusData` | nested responses, one of them raw |
| Query parameters | `config.go` (`QueryParams`) | compiled regular expressions | `Validate`, `GetParams` | two levels, defaults |
| Requester | `http.go` | a client with a timeout | constructors, `DoNew` | what the timeout limits |
| Templates, helpers, settings | `utils.go`, `settings.go`, `doc.go` | none | `Interpolate`, `MethodAllowed` (called by nothing) | – |

How they interact.  `main` reads the file and calls `Server.Run` on one
goroutine; it calls `router`, which asks `GetAuthorizers` for the authorizers
and `routes` for the routes.  `routes` finds the factory of each task in the
registry and calls it; the factory of an info task calls `routes` again, that
of a multi task calls the factories of its embedded tasks.  `router` wraps each
task in `Handle` and gives it to gorilla/mux.  From then on net/http runs one
goroutine per request: mux picks a route by path and method, `Handle` consults
the authorizers, runs the task and writes its response.  Tasks share nothing
but their configuration, which they only read, and the registry of formats.

What makes each part correct:

* start: a server comes up exactly when its file is acceptable, whatever the
  order of the maps; every method gets one route; listings are complete; the
  recursion ends;
* handler: nothing runs that was not authorized for this request; the first
  refusal is final; one request, at most one run, one answer, for the right
  reason; requests do not hinder one another;
* registries: one winner per id; what was validated is found; readers see one
  table; calls return;
* tasks: entries and calls belong to their own item, also after a failure; what
  is shown is what was sent; the single result is the one asked for;
* authorizers: whoever basic and ldap let in had valid credentials during this
  very call, whatever the server does; http lets in only what its server
  granted, which ought to be about the credentials of the request; who is sent
  away was sent away for a reason; calls end when the server comes back;
* filesystem: what is served was there, what is refused was not, changed while
  it was looked at or could not be read; the client's parameters reach a template only as far
  as their regular expressions let them.

## Modules

| Module | What it is |
|---|---|
| `Startup` | Start of the server, with the activations of `routes` on an explicit stack |
| `Handler` | Any number of concurrent handlers |
| `Exchange` | Abstract: what the HTTP side promises for each request; `Handler` implements it |
| `Registry` | Goroutines that register and look up under Go's `RWMutex` |
| `Formats` | `VerifyFormat` and `Format` as operators |
| `Tasks` | The seven kinds of task that run a list; uses `Formats` |
| `Batch` | Abstract: what a task that runs a list promises; `Tasks` implements it |
| `Authorizers` | Concurrent calls of a basic, ldap or http authorizer and the server they ask |
| `Gate` | Abstract: what an authorizer promises the handler; `Authorizers` implements it |
| `Responses` | `Response` as a value: setters, nesting, what `Write` sends |
| `QueryParams` | `GetParams` and `GetQueryParams` as operators |
| `Filesystem` | One request served by a filesystem task while the file system changes; uses `Responses` and `QueryParams` |
| `StartupProofs`, `HandlerProofs`, `RegistryProofs`, `TasksProofs`, `FormatsProofs`, `AuthorizersProofs`, `FilesystemProofs` | The theorems about each |
| `LeastNumber` | Two lemmas about natural numbers, from which the proofs make their inductions |
| `MCStartup`, `MCHandler`, `MCRegistry`, `MCTasks`, `MCAuthorizers`, `MCFilesystem` | Constants for TLC |

The parts are modelled apart because they meet at narrow interfaces: the start
hands over a finished table and the handler never changes it; the handler sees
of a task its status, its result and whether it panics; a task sees of the
registries whether a lookup finds something.  `Handler` leaves the answers of
authorizers and tasks open and so covers whatever they do; `Authorizers` says
which answers of theirs are possible when, and `Gate` what the handler may rely
on of them.

**Startup.**  `stack` holds one frame per activation of `routes`: the endpoint
of the outer loop (`ep`), the methods the map range still has (`todo`), the one
whose factory runs (`cur`), the tasks that factory still has to build (`work`)
and the routes so far (`out`).  `NextEndpoint` and `PickMethod` are the two
loops, `PickMethod` with `continue Outer` for an ignored type; `BuildPlain`,
`BuildMulti` and `CallRoutes` are the factories, `Reject` every error on the
way, `AppendRoute` the end of the inner loop, `ReturnToRouter` and
`ReturnToInfo` the two callers a finished activation returns to.  A route keeps
the pointer `&taskconf` to the loop variable; assigning the next method to the
variable (`Rebind`) changes what earlier routes of the same loop point at.
`Overflow` is the end of the Go stack.  A task's own configuration is the
Boolean *accepted*.  Seven types read nothing but that while they are built and
are one type, "plain".

**Handler.**  `pc` is where the handler of each request is.  `Arrive` is mux
matching a route, `Accept`, `Deny`, `ConsultPanics` and `ConsultNil` one
iteration of `Authorize` with each outcome (the last is the nil `Authorizer` a
map yields for an undefined name), `ReadBody` and `Prepare` the preparation,
which ends with reading the environment, and `RunTask` the call of the task;
between these two other requests may do anything.  `TaskReturns` and `TaskPanics` are what the task does, `Decorate` the query
parameters added to the response, `WriteHeader` and `WriteBody` the two writes
of `Response.Write`.  `EnvChanges` is the process changing its environment, and
`Env` the copy made when the route was registered or, with `reload_env`, the
current one.  `since` is a history: the environment there was when a request
arrived.

**Registry.**  `Lock` is two steps, as in Go: `RegisterLocks` keeps out new
readers, `RegisterEnters` waits for those inside.  A reader that is kept out is
in `blocked`; `Unlock` lets all of them in.  `RegisterPanics` and
`RegisterSets` are the check and the assignment under the lock; `Scan…` is a
lookup of one or more ids, and with `nested` it is `GetAuthorizers`, whose
`Validate…` steps take the read lock again.  Registration happens in `init`
functions on the main goroutine (before `Serve`), or late, by a program that
embeds goexpose: all `Register…` functions are exported.

**Tasks.**  Each kind has its sequence of stages in the order of its `Run`
(`Stages`): interpolate the target, interpolate the arguments, open, call, read
the answer, scan rows, convert the reply.  `entry` is the `Response` of the
current item; it is fresh for every item because the code creates it inside the
loop.  `handle` and `held` are the variables declared outside it: `db`,
`session`, `rows` and `reply`.  A value is represented by the item whose call
produced it, so a stale one is visible.  `Fail` is `goto Append` with an error,
`Succeed` the end of the last stage.  `Dial` is redis' single connection,
`EmbeddedPanics` a panic of a task embedded in a multi task, `Answer` the end
with `results[singleResultIndex]`.  `body` is `r.Body`, which `Handle` has read
before and http tasks post.

**Formats.**  A configured format is the sequence of parts `strings.Split`
makes of it; `Kept` is the loop of `VerifyFormat`, which drops the blank ones.
A body is the set of formats that accept it; "text" and "lines" accept all.

**Authorizers.**  `Build` and `Refuse` are the factory with its validation.
`Begin` is the start of `Authorize`: `GetBasicAuth` decodes the header, or
`RenderURL`, `RenderMethod` and `RenderData` render the request, each error
overwriting the one before it.  A basic authorizer compares
(`BasicCompares`); the others dial (`Dial`, `Connected`, `DialRefused`,
`DialTimesOut`), shake hands where TLS is used, check the lists (`NotListed`)
and ask (`Ask`, `ServerAnswers`).  The answer reaches the call later
(`Decide`), and the connection may break before (`Breaks`).  `server` is "up",
"closed" (the host refuses connections), "mute" (it accepts and says nothing)
or "gone" (the host does not answer); `accounts` are the credentials it
accepts, which change too.  A credential is a pair of values; of a template only
whether it renders and mentions the credentials is kept.  `claim` is what
the header of the request says and `Asked` what the authorizer asks about: the
claim, but for http the constants its templates are filled with (`Told`), so an
http call does not look at `claim` at all.  `vouched` and `steady` are
histories: whether the claim held at some instant of the call, and whether what
was asked held at all of them.

**Responses, QueryParams.**  A response is a record of status, data and raw
bytes; data is the function of the keys that are set.  A parameter's regular
expression is the set of values it matches, and a value is trimmed by a
constant function.

**Filesystem.**  `Begin` is the part of `Handle` that collects the parameters
and the two `Interpolate` calls; from `NotFound` to `Responds` there is one
action per call of the operating system or outcome of `Run`; `Write` is the end
of `Handle`, or of the multi task around it.  The file system maps paths to
nothing, a directory or an inode, and an inode to two blocks.  `Removes`,
`MakesDir`, `Places` (a new file or a rename over an old one) and `Writes` (in
place, a block at a time) are what other processes do.  `ReadNames` and `Lstat`
are the two halves of `ioutil.ReadDir`, `Opens` and `Reads` those of
`ioutil.ReadFile`: a file stays readable while it is open, whatever happens to
its name.  `OSFails` is a call the system refuses although nothing changed:
permissions, too many open files, an I/O error; after `Stat` it is a 404, after
`ReadDir` or `ReadFile` a 500, and `denied` remembers it.  `sights`, `listed`
and `lasting` are histories of what was at the
path during the run, `torn` of a write to the open file.

## Runs

| Run | Module and configuration | Question | Distinct states |
|---|---|---|---|
| `startup` | `MCStartup.cfg` | Does the start come to the right end in every order of the maps? | 129 thousand |
| `handler` | `MCHandler.cfg` | Is each of two concurrent requests authorized, run and answered as promised? | 581 thousand |
| `registry` | `MCRegistry.cfg` | Do the locks protect the tables, what can block, and do all other calls return? | 119 thousand |
| `tasks` | `MCTasks.cfg` | Do entries, calls and answers of every kind of task belong together? | 47 thousand |
| `authorizers` | `MCAuthorizers.cfg` | Is everybody whom basic and ldap let in entitled, does http let in only what its server granted, and is everybody else sent away for a reason, whatever the server does? | 362 thousand |
| `filesystem` | `MCFilesystem.cfg` | Is what a filesystem task answers justified by the file system of its time? | 292 thousand |

Each pass also checks a type invariant.  The properties, by what they are about:

* `OutcomeDetermined` – the start succeeds exactly for acceptable files.
  `Acceptable` is a definition over the file, with neither stack nor order.
* `TableComplete` – one route per method, in the order of the endpoints.
* `BoundedActivations` – with no info task hidden from the literal test of
  `routes` (one that is padded with spaces, or embedded), the recursion has
  depth two.
* `ListingsComplete` – a listing has no info task and every method of the
  endpoints without one, once.
* `Settles` – the start ends.
* `AuthorizedBeforeRun` – every authorizer named at either level said ok to
  this request before its task ran.
* `FirstRefusalDecides` – nothing is consulted or run after a refusal, and it
  decides the status.
* `OneAnswer`, `RunExplainsAnswer` – one status line, at most one body with the
  same status; at most one run, and without one only 401, 404 or 500.
* `EnvFresh` – tasks are given one environment without `reload_env`, and with it
  never one older than their request came upon.  Nothing is claimed of two
  requests that overlap: one may read the environment, the other read a newer
  one and run first.
* `EveryRequestAnswered` – a request whose authorizers and task come back is
  answered, although another one waits for ever.
* `OneWinner`, `ValidatedIsFound`, `StableWhileRead`.
* `CallsReturn` – every call returns, also after a panic under the lock, unless
  some `GetAuthorizers` waits for itself.
* `OnlyNestingBlocks` – if every call in progress waits, one of them is in
  `GetAuthorizers` waiting for its second read lock.
* `OwnAnswer`, `OwnCalls` – no reply, row, argument or connection of one item
  reaches another.
* `FailureIsLocal`, `CallsAreShown`, `IndexInBounds`.
* `FirstFormatApplies` – formatting never fails and takes the first part
  configured that accepts the body.  It leaves open how an http item without a
  format is taken, because documentation and code disagree (below).
* `AllowedIsWarranted` – whom basic and ldap allow had credentials in the
  request that held at an instant of the call, and the lists admit him.  For
  http it does not hold (`UsernameIsChecked` below); `Refinement` says that http
  allows only if what it asked was granted at an instant of the call.
* `NoFalseRefusal` – nobody is denied if what was asked held throughout, with
  the server up and the connection whole, unless the lists exclude him or the
  request cannot be sent.
* `CallsEnd` – a call does not dial for ever, and it ends if the server is not
  silent or away for ever.
* `ContentJustified` – the content of a file that nobody rewrote in place is
  what was at the path at one instant.
* `FailureJustified` – unless the system refused a call, 404 if there was
  nothing to serve at some instant, and 500 for a broken template or when
  something changed between two looks; after a refusal never 200.
* `ListingJustified` – a listing has nothing that was never there, and
  everything that was there all the time.
* `RawOnlyWhenAsked` – raw bytes are sent only if the configuration says so, or
  a value it permits.  `Permitted` is defined over the parameters in any order,
  with neither levels of overwriting nor defaults winning over one another.
* `AnswerComplete` – an answer has a body that agrees with its status line, but
  for a raw file in a multi task.
* `AlwaysAnswers` – a request is answered whatever happens to the files.
* `Refinement` – `Handler` implements `Exchange`, `Tasks` implements `Batch`,
  `Authorizers` implements `Gate`.

Six runs end in a counterexample, each to a sentence of the documentation; see
[below](#what-the-code-does-otherwise-than-its-documentation-says).

### Bounds

* `MCStartup`: 494 files with up to two endpoints of up to two methods, from 14
  tasks: good, invalid, unknown and untyped ones, info and multi tasks, multi
  tasks that embed multi or info tasks, types with spaces around them, and
  authorizers that are good, fail or are of an unknown type.  Two endpoints and
  two methods are what the loops need to be seen between their first and last
  iteration, and to order a pair.  The stack holds four activations: the code
  needs one or two, or as many as there are.
* `MCHandler`: two requests, one of which may hang; endpoints with authorizers
  at both levels, with an undefined one, and with a method in lower case.
  Requests share only the environment, so a pair shows every interference; one
  change of the environment separates old from new.
* `MCRegistry`: three goroutines (main, a handler, a late registration) and two
  ids; main makes two calls, the others one: enough for a reader, a second read
  and a writer in between, for a duplicate registration, and for a call after a
  panic.  The violation run has one call each.
* `MCTasks`: lists of zero to two items (three for MySQL, which shares most
  variables between items), every `single_result` from -2 to 2 and none, and at
  most two rows.  A list of two has an item before and after a failure.
* `MCAuthorizers`: two calls, two users and passwords, 12 configurations (each
  kind, good and bad, with each kind of list and of template) and two changes of
  the server: one to make it fail or revise its accounts and one to undo that
  during a call.  Calls share only the server.
* `MCFilesystem`: one directory with two entries, two files of two blocks, nine
  configurations, three initial trees and two changes.  Two entries are what a
  listing needs to see one before and one after a change, two blocks what a read
  needs, two changes to take a thing away and put another in its place.  Runs
  only read the file system, so one run shows everything.

The theorems below have none of these bounds.  They leave `StackLimit`,
`MaxEnv`, `MaxCalls`, `MaxRows` and `MaxChanges` as arbitrary numbers.

### Fairness

* `Startup`: one goroutine does all the work and nothing in it blocks; weak
  fairness of `Next` says that it runs.
* `Handler`: every request has a goroutine of its own.  Weak fairness of its
  local steps is the Go scheduler.  Nothing in the code limits the time of an
  authorizer or a task, so the answers of these are fair only for requests
  outside `Hung`.
* `Registry`: the scheduler runs every goroutine that can run.  No fairness is
  assumed of beginning a call.  Go's `RWMutex` lets a waiting writer go before
  new readers, which the two steps of `Lock` model; nothing more is assumed.
* `Authorizers`: each call's goroutine runs (`Runs`).  What the network and the
  server's host do is fair too: a server that is up answers, a refused or
  unanswered connection attempt is reported (`Hears`; the operating system or
  the requester's dialer limits the time), and a host without the server resets
  the connections it had (`Resets`).  A server that is mute or gone owes
  nothing, and nothing in the code limits that wait; so `CallsEnd` assumes that
  it ends.
* `Filesystem`: the goroutine of the request runs, and the operating system
  answers its calls.
* `Tasks` has no liveness property: a server that does not answer holds its
  task for ever.

Deadlock is not checked where the system really stops: when a start has ended,
when all requests are answered, when all bounded calls are made or wait for
ever, when a task was refused.

## Proofs

TLAPS checks the theorems for every value of the constants that meets the
named assumptions: any configuration, number of requests, goroutines, ids,
items, users and files.

| Theorem | Says |
|---|---|
| `StartupProofs!TypeCorrect` | `TypeOK` |
| `StartupProofs!ActivationsBounded` | `BoundedActivations` |
| `StartupProofs!TableIsComplete` | `TableComplete` |
| `StartupProofs!ListingsAreComplete` | `ListingsComplete` |
| `StartupProofs!OutcomeIsDetermined` | `OutcomeDetermined` |
| `StartupProofs!OneTaskPerEndpoint` | all routes listed for one endpoint carry the description of one task of that endpoint |
| `StartupProofs!SingleMethodsDescribed` | a listing is right about endpoints with one method |
| `StartupProofs!CircularFilesNeverServe` | a file whose info task the literal test does not see, at an endpoint without another, never gets its routes, for any size of the stack |
| `HandlerProofs!TypeCorrect` | `TypeOK` |
| `HandlerProofs!Authorization` | `AuthorizedBeforeRun` |
| `HandlerProofs!RefusalIsFinal` | `FirstRefusalDecides` |
| `HandlerProofs!AnsweredOnce` | `OneAnswer` |
| `HandlerProofs!AnswerExplained` | `RunExplainsAnswer` |
| `HandlerProofs!EnvironmentsAreFresh` | `EnvFresh` |
| `HandlerProofs!Implements` | `Handler` implements `Exchange` |
| `HandlerProofs!HandlersEnd` | besides consulting each authorizer once, a handler takes at most seven steps |
| `HandlerProofs!WholeBodiesUnseen` | templates see nothing of a body that was read to its end |
| `RegistryProofs!TypeCorrect` | `TypeOK` |
| `RegistryProofs!RegisteredOnce` | `OneWinner` |
| `RegistryProofs!ValidatedStays` | `ValidatedIsFound` |
| `RegistryProofs!ReadersSeeOneTable` | `StableWhileRead` |
| `RegistryProofs!NothingElseBlocks` | `OnlyNestingBlocks` |
| `RegistryProofs!InitOnlyNeverWaits` | if all registrations are made by `init` functions, nobody is ever stuck |
| `RegistryProofs!NestedWaitIsForever` | a `GetAuthorizers` that waits for itself does so for ever, and the table never changes again |
| `TasksProofs!TypeCorrect` | `TypeOK` |
| `TasksProofs!AnswersAreOwn` | `OwnAnswer` |
| `TasksProofs!CallsAreOwn` | `OwnCalls` |
| `TasksProofs!FailuresAreLocal` | `FailureIsLocal` |
| `TasksProofs!EveryCallIsShown` | `CallsAreShown` |
| `TasksProofs!BoundsHold` | `IndexInBounds` |
| `TasksProofs!Implements` | `Tasks` implements `Batch` |
| `TasksProofs!FirstFormat` | `FirstFormatApplies` |
| `TasksProofs!SingleResult` | `single_result` is applied by every kind but MySQL, which answers with its first entry |
| `TasksProofs!BodiesAreNotPosted` | no http task posts content of the request's body |
| `FormatsProofs!FirstAccepting` | what `VerifyFormat` leaves formats every body, by the first part configured that accepts it, or as text |
| `AuthorizersProofs!TypeCorrect` | `TypeOK` |
| `AuthorizersProofs!AllowedWarranted` | `AllowedIsWarranted` |
| `AuthorizersProofs!RefusalsHaveReasons` | `NoFalseRefusal` |
| `AuthorizersProofs!Implements` | `Authorizers` implements `Gate` |
| `AuthorizersProofs!CallsAreShort` | a call takes at most six steps after its first, never dials or asks twice, and keeps its verdict |
| `FilesystemProofs!TypeCorrect` | `TypeOK` |
| `FilesystemProofs!ContentIsReal` | `ContentJustified` |
| `FilesystemProofs!FailuresAreReal` | `FailureJustified` |
| `FilesystemProofs!ListingsAreReal` | `ListingJustified` |
| `FilesystemProofs!RawIsAsked` | `RawOnlyWhenAsked` |
| `FilesystemProofs!AnswersAreComplete` | `AnswerComplete` |
| `FilesystemProofs!RunsEnd` | with *n* entries in the directory, a run takes at most *n* + 6 steps, also when the system refuses a call, and no change of the files adds one |

Each module has an inductive invariant `IInv` with `Init => IInv` (`InitInv`)
and `IInv /\ [Next]_vars => IInv'` (`NextInv`), one lemma per action or group
of actions; the theorem `Invariance` puts them together.

* **StartupProofs.**  `TableComplete` speaks of a finished activation, while
  the steps happen in the middle of one, with others suspended below it.  The
  invariant says of every frame on the stack which methods are past, and that
  its result has exactly the routes of those (`Table`), none twice and in
  order; that every frame but the outermost ignores info tasks; and, for plain
  configurations, that only the outermost has an info task to build, which is
  why there is no third activation.  A finished frame has everything past, which gives the
  completeness of the table and of the listings.

  `OutcomeIsDetermined` needs more, because `Acceptable` looks at the file as a
  whole and a start at one task at a time.  `OInv` adds that the method being
  built is right (`Builds`) exactly if everything its factory still has to
  build is (`OnTrack`), that everything the outermost activation is past was
  right (`PastBuilt`), and that a suspended activation waits for an info task
  that is right.  An error then finds a wrong task in the file, and a finished
  outermost activation has been through all of them, whatever order it took;
  a nested activation skips methods, which is why `PastBuilt` speaks of the
  outermost only.  `Builds` is a recursive function; its equation
  (`BuildsEquation`) is proved from `NestingAssumption`: a solution exists for
  the tasks below any number, and two solutions agree.

  The invariant `EInv` is about info tasks.  `Points` says that all routes of
  the endpoint in progress point at the method in progress.  `Waits` says that
  the turn of a method that calls `routes` again and is not skipped by it never
  ends: it would take a nested activation that returns, which would have to be
  past that same method.  `ReachesInfo` is defined by a set of tasks that each
  are an info task or embed another of the set.
* **HandlerProofs.**  The invariant is a conjunction over the requests
  (`RequestInv`), so a step of one request leaves that of the others alone.
  `Permission` says that every name listed for the route is either still to be
  consulted or has said ok; when nothing is left, everything has.  `Refusal`
  says that only the last one consulted can have refused, and that the handler
  is past running then.  `Answer` relates the response under construction to
  what was written.  `EnvInv` is a second invariant: a request in progress came
  upon an environment no newer than the present one, and from `Prepare` on its
  parameters have one that is no older, or the copy of the route; no step of
  another request disturbs either (`EnvKept`).  `HandlersEnd` is about a measure
  (`StepsLeft`) that falls with every step of a handler and that no other step
  changes: it is the part of `EveryRequestAnswered` that needs no fairness.
* **RegistryProofs.**  How often a goroutine holds the read lock is a function
  of where it is (`Level`), one less if it is kept out.  With `HoldsWrite` and
  `Excludes` (whoever is past `drain` is there without readers), a table does
  not change under a reader.  For `OnlyNestingBlocks`: a waiting reader or
  writer means there is a writer, the writer waits only for a reader inside,
  and a reader inside that is stuck is at its second read lock.
  `InitOnlyNeverWaits` shows that the hazard is one of embedding programs:
  those in `src/` register before they serve (`Phases`).
  `NestedWaitIsForever` is an action property: the writer that is waited for
  waits for the same goroutine, and no step lets either of them go.
* **TasksProofs.**  The invariant relates the stage of the current item to the
  variables that outlive it (`Current`: past `call`, `held` is this item; past
  `open`, `handle` is) and to the calls made (`Calls`).  That is the reason no
  earlier value is ever used: every kind sets each variable before it reads it,
  on every path that does not go to `Append`.  The facts about the order of the
  stages (`StageOrder`, `ShownBeforeCall`) are proved by cases over the kinds,
  everything else for all kinds at once.  `Panicking` is a second invariant,
  for the two ways a task panics.  `FirstFormat` rests on `FirstAccepting`,
  `SingleResult` on `Unwrapped` (what `Answer` does with the index), and
  `BodiesAreNotPosted` on `Exhausted`: once a task runs, its body is read.
* **FormatsProofs.**  The sequence `Kept` makes is described by an invariant of
  the loop: it consists of the parts that are not blank, in their order.  The
  first part of it that accepts a body is then the first one configured that
  does, and "text" accepts every body.
* **LeastNumber.**  The induction theorems of the library take an operator as a
  parameter, which the provers here cannot instantiate.  Its theorem that a
  well-founded relation has minimal elements takes a set instead; from that
  `LeastElement` and `UpTo` follow, and every induction above is made with
  them, on a set of the numbers for which a statement holds.
* **AuthorizersProofs.**  One invariant per call: `History` says what the
  histories know while it is in progress, `Progress` what was tested on the way
  to where it is (past the lists, the user is not excluded; while basic and
  ldap work on a request, it has a claim), `Outcome` what the verdict rests on.  A change of the
  server updates all histories at once, so each part is kept for each call.
  The gate grants at the instant the server answers, not when the answer is
  read; that is why the account may be gone by the time the request is let in.
  `CallsAreShort` is again a measure: the place of a call only moves on.
* **FilesystemProofs.**  The invariant keeps for every place in `Run` what was
  seen on the way there: past `StatDir` a directory is among the sights, past
  `StatFile` a content is.  What is there now always is, so an error means that
  there are two different sights, or it is that of `OSFails`, and until then
  nothing is denied.  While a file is open, its content is among
  the sights or somebody wrote to it; and an entry that was there all the time
  is in the listing or still to be looked at.  `ParamsAre` says that the
  parameters a task sees are permitted ones: a set of indices has a last
  element because the order of the numbers is well founded.  Responses are
  computed by lemmas about `AddValue` and `Status`.  `RunsEnd` bounds the steps
  of a run by the number of entries, which it takes to be finite: `ReadDir`
  looks at every name once.

Every invariant and action property of the passing runs, and every refinement,
is proved.  Only model-checked are `Settles`, `EveryRequestAnswered`,
`CallsReturn`, `CallsEnd` and `AlwaysAnswers`: liveness under fairness, which
the provers do not handle.  What they promise without fairness, that no step of
a request, a call or a run is ever repeated, is proved for `Handler`,
`Authorizers` and `Filesystem`.

## What the code does otherwise than its documentation says

With a run that shows it:

* An info task describes the wrong method (`server.go:179`, run
  `startup_ListingDescribesOwnTask`): the routes of an endpoint share the loop
  variable.  `OneTaskPerEndpoint` and `SingleMethodsDescribed` say how wrong a
  listing is.
* A multi task that embeds an info task never finishes starting
  (`tasks.go:206`, run `startup_AnyTaskEmbeds`): `routes("info")` does not see
  the info task inside.  The property leaves out files where a method's own
  task is an " info" written with spaces, which turns in the same circle without
  any multi task (see below).  `CircularFilesNeverServe` covers both and says
  for which files.
* `request.body` is empty in templates for every body that arrives
  (`server.go:217`, run `handler_TemplatesSeeBody`): the test of the error is
  inverted.  What was read of a body that broke off is seen
  (`WholeBodiesUnseen`).
* `GetAuthorizers` can wait for itself (`auth.go:85`, run
  `registry_GetAuthorizersReturns`): with an exported `RegisterAuthorizer` in
  between, the second read lock waits for the writer, and the writer for the first,
  for ever (`NestedWaitIsForever`); not in a program that registers only in
  `init` functions (`InitOnlyNeverWaits`).
* `post_body` posts nothing (`tasks.go:373`, run `tasks_BodyIsPosted`): the
  handler has read the body to its end, in every run (`BodiesAreNotPosted`).
* An http authorizer does not check the username and password of the request
  (`auth.go:402-405`, run `authorizers_UsernameIsChecked`): its templates are
  filled with the constants "phonkee" and "password", while `auth.go:367` and
  `README.md:573-575` say that the username and password are checked and
  interpolated.  In the trace a request without credentials is allowed.

Met while modelling, without a run of their own:

* `server.go:152`: an ignored info task leaves the loop over its whole
  endpoint, so other methods of that endpoint may be missing from a listing,
  depending on the order of the map.  `ListingsComplete` excepts these
  endpoints.
* `tasks.go:1185`, `:1191`: the type is compared with "multi" before it is
  trimmed, so " multi" is built as an embedded multi task.  `Builds` says so.
* `config.go:158`: the endpoint's `type` is assigned to the copy a range
  yields; methods that rely on it are refused.
* `server.go:277`: an endpoint's `query_params` hide those of its methods;
  `README.md:113-114` describes both levels.
* `server.go:282`, `auth.go:132`: the configuration of a method is looked up by
  `r.Method`.  mux matches a key in any case, so for a key in lower case the
  lookup finds nothing and the settings of the method do not apply.
  `AuthorizedBeforeRun` is stated for keys in upper case.
* `response.go:218`: if encoding fails, the status line has been sent and the
  body is missing.
* `response.go:250`: a raw response inside another one encodes to base64
  without quotes, which is not JSON: the answer of a multi task with a raw
  filesystem task in it is a status line without a body.
* `response.go:265-274`: `StripStatusData` deletes "status" twice and leaves
  "message"; the comment of the type (`response.go:56-62`) promises `{}`.
* `tasks.go:1257-1275`: a multi task answers 200 whatever the status of the responses
  embedded in it.
* `auth.go:447-457`: the url goes through `url.Parse` and `String`, which
  escape a template that stands in its path.
* `auth.go:411-413`: errors of `RenderURL` and `RenderMethod` are overwritten,
  so a request may be sent with the part that failed left blank.
* `auth.go:320-324`, `:420`: the LDAP connection and the body of the http
  answer are not closed; the requester limits the time to connect
  (`http.go:86-91`), nothing limits the time of the handshake or the answer.
* `README.md:451-472`: the second example of the filesystem task has no "type".
* `tasks.go:1049`: the factory of a MySQL task does not call `Validate`, so its
  `single_result` has no effect and it answers with its first entry;
  `README.md:400` documents it.  The other kinds apply it (`SingleResult`).
* `tasks.go:1185`, `server.go:151`: an info task written " info" at a method is
  not found by the literal test; the start of such a file does not end
  (`CircularFilesNeverServe`).
* `tasks.go:65`: `single_result` below -1 passes `Validate` and panics in every
  request.
* `tasks.go:413-425`: the format derived from the Content-Type is not used, so
  an http item without a format is taken as text; `README.md:209-210` and the
  comment at `tasks.go:261-265` say it is guessed from Content-Type.
  `FirstFormatApplies` excepts these items.
* `tasks.go:568`, `:1138`: `rows.Err` is not asked, so rows cut short by a
  broken connection pass for all rows.
* `tasks.go:547`: database handles, sessions and connections are not closed.
* `README.md:285` documents "methods" for Postgres and `README.md:319` a
  database for redis; neither is used.  A redis query without a type is
  refused although string is documented as the default.

## Not modelled

* Templates (`text/template`): a library; a stage that interpolates succeeds
  or fails.
* Reading and decoding the configuration file: I/O; its content is what
  `Startup` starts from.
* The options and helpers of the requester nothing calls; `MethodAllowed`,
  settings, log output and the layout of JSON; `Pretty` and
  `UpdateStatusData`, which no caller uses.
* Symbolic links, permissions and sizes of files: a path is a file, a
  directory or missing, and any access may fail (`OSFails`).  Devices, pipes
  and sockets, which may block a reader for ever, are left out.
* Errors of `os.Chdir` and of `http.ListenAndServe` in `Server.Run`: they stop
  the program before and after what `Startup` models, and change nothing of it.
* net/http, gorilla/mux and the database drivers: external.  mux appears as
  "some route of the table matched" or "none did".

## Assumptions

* One `range` variable per loop (see above).
* `null` in place of an object or an element of a list of the configuration is
  not considered.
* Every factory shipped returns one task; a factory of an embedding program
  that returns several is not considered.
* Nothing but the process environment changes behind a running `Handler`; the
  remote servers and the file system change under the requests of
  `Authorizers` and `Filesystem`.
* Assumptions on the constants are named in the modules (`…Assumption`) and TLC
  evaluates them in every run.  `NestingAssumption` says that JSON nests;
  `FormatsAssumption` that the `init` functions registered their formats.

## Plan

Done: the core (`Startup`, `Handler` with `Exchange`, `Registry`, `Tasks` with
`Batch`, `Formats`), the authorizers (`Authorizers`, which refines `Gate`), the
filesystem task, responses and query parameters, and the proofs above.  What
is left:

1. Which results of `Tasks` and `Filesystem` can be encoded, so that the
   "unencodable" of `Handler` becomes a consequence instead of a choice.
2. `Handler` with `Authorizers` in place of its verdicts, through `Gate`: both
   sides of that interface are checked, their product is not.
3. A measure for `Startup`, as there is for the other parts: each activation
   of `routes` ends, by the endpoints, methods and nested tasks it has left.
   With `ActivationsBounded` this is what `Settles` says without fairness.
