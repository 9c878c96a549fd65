# A TLA+ model of commandcode-proxy

The modules in this directory model the Command Code proxy (`internal/`, `cmd/`)
and the desktop app around it (`desktop/`). TLC checks them on small instances,
TLAPS proves the central results for every value of the constants.
`PROJECT.json` lists the runs, the lines each definition models, the mutants each
property detects, the hazards of the code and the theorems.

    tlc -config ChatRoute.cfg ChatRoute
    tlapm ChatRoute_proofs.tla

## The system

**The proxy** is an HTTP server. A handler runs per request, in a goroutine of its
own, and keeps no state besides its stack; what handlers share is the
configuration (read-only), the HTTP client, and the request log.

| Component | State | Operations | Correct means |
|---|---|---|---|
| Upstream stream, `internal/upstream` | open response, `attempt`, `produced`, `done` | `Next`, `Close`, `AdvanceToDecisive` | no retry over output the client has seen, bounded requests, no response left open, ends when the client leaves |
| Chat routes, `internal/server/server.go` | status and frames written | `chatCompletions`, `messages` | what the upstream said reaches the translator whole, the status is honest, every request is answered |
| Response translation, `internal/translate/{openai_response,anthropic}.go` | current block, indices, finish reason, usage | `StreamCompletion`, `StreamMessage`, `BuildCompletion`, `MessageFromCompletion` | a well-formed stream, content in order, streamed and buffered agree |
| Request translation, `internal/translate/{translate,anthropic}.go` | none: a function of the conversation the client sends with every request | `OpenAIRequestFromAnthropic`, `BuildCCRequest` | no tool call without its result, nothing said is lost, both APIs give the same request, a longer history extends it |
| Request log, `internal/server/dashboard.go` | a ring of 200 entries and a total, under a mutex; per request a `statusWriter` | `logged`, `add`, `snapshot` | the ring is the tail of the log, the recorded status is the one sent |
| Configuration, authentication, redaction | none after the start | `ResolveModel`, `ResolveAPIKey`, `RedactSecrets` | string functions |

**The desktop app** is a tray icon. It runs the proxy as a child process, runs a
gateway that editors are pointed at, and moves credentials between the CLI's
directory and a vault.

| Component | State | Operations | Correct means |
|---|---|---|---|
| Proxy manager, `desktop/internal/proxy` | `m.cmd`, `m.state`, under `m.mu`; the child process; the ports of the host | `Status`, `Start`, `Stop` | one child, none leaked, a dead one replaced, every call returns |
| Gateway, `desktop/internal/gateway` | the listener, `lastErr` | `Start`, `Stop`, `ServeHTTP` | a request reaches the proxy that was brought up for it |
| Services, `desktop/app.go`, `main.go`, `tray.go` | which services run | `StartServices`, `StartGateway`, `EnsureProxyRunning`, toggles, shutdown | nothing survives the app |
| Preferences, `desktop/internal/settings` with the toggles of `tray.go` | `a.cfg`, under `a.mu`; `config.json`; the folder of earlier builds | `Dir`, `Load`, `Merge`, `Save`, `SetProxyAuto`, `SetGatewayAuto` | a restart finds what the user left |
| Credential actions, `desktop/app.go` with `vault`, `ccdir`, `settings` | the CLI's `auth.json`; `active.json`, `active.key`; per account a directory with `auth.json` and `meta.json` | save, switch, deactivate, delete | a switch is all or old, a request gets an installed key, a credential in use is not deleted, what is listed can be used |
| Plan probe, `desktop/internal/probe` | a semaphore, a result under a mutex, a context | `Plan` | each model one verdict, a blocked account stops the probes |
| Log file, credential parsing, notifications, menu | one file each, or none | | see "Not modelled" |

How they interact: the route pulls events from the stream by calls, one event per
`Next`; the translator pulls them from the route through a callback and pushes
frames through another. The gateway calls the manager for every request, as the
tray does for every click, and both share its mutex. The gateway reads the
credential files for every request while the tray rewrites them, and the CLI
writes one of them, too. A toggle changes a service, then the configuration in
memory, then the file the next launch reads. `RefreshPlans` asks the proxy on
behalf of every account.

What is hard: a retry decided after part of an answer is out; an error that comes
when the status is already sent; a write that fails in the middle of an event; a
history in which tool calls were interrupted or forgotten; several goroutines
starting and stopping one process that may die by itself, with ports other
programs may take; files rewritten one after the other with a crash between them;
a cancellation racing the goroutines it is to stop. `PROJECT.json` lists these
hazards at their lines.

## The modules

| Module | Models | State and actions |
|---|---|---|
| `UpstreamStream` | `upstream.go`, the peek and the drain of `server.go` | variables named as the fields of `Stream`; `pc` tells where `Next` stands. `Open...` are the outcomes of `open`, `Refused...` what follows a status that is not 200, whose body is read first; `Read...` are those of reading a line, `Peek...` and `Drain...` what the caller does with the result. `HangUp` cancels the context |
| `StreamContract` | what the iterator promises | `Post`, `Give`, `End` |
| `ChatRoute` | the two handlers, composed with `UpstreamStream` | adds the request, the events passed to the translator and the answer; takes the iterator's actions as they are |
| `Completion` | the events of a turn; `BuildCompletion`, `MessageFromCompletion`, `MapFinishReason`, `stopReason` | operators only |
| `Lists` | what the code does with lists in loops: select, map, join | operators only |
| `Turn` | the loop both translators have in common | events are taken one by one (`Takes`); the frames one gives rise to are in `todo` and leave one by one by `Emit`, unless `EmitFails` |
| `OpenAITurn`, `AnthropicTurn` | `StreamCompletion`, `StreamMessage` | the loop of `Turn` with one action per type of event |
| `Turns` | a turn over either API | both translators over the same events; `api` tells which one runs, and the other's variables keep their initial values |
| `MessageProtocol` | what an Anthropic client may be sent | one frame after the other |
| `Conversation`, `MCConversation` | the request translation, function by function, and a client that keeps a history | actions of the client: `UserTurn` (words, images, results of the tools that ran), `Reply`, `SystemTurn`, `Send`, `Forget` |
| `RequestLog` | `dashboard.go` | the middleware per request, `WriteHeader`/`Write` of `statusWriter`, `Add` and `Snapshot` of the ring. `Flush` is no action: it would send a 200 that the writer does not record, but only `streamSSE` flushes, which has written its header by then |
| `ProxyManager` | `proxy.go` and the host around it | a `pc` per caller; each step of `Start` that others can see is an action, `mu` is held across them |
| `Gateway` | `gateway.go`, the service actions of `app.go`, the shutdown of `main.go`, composed with `ProxyManager` | adds the listener, a `stage` per caller, and `quit` |
| `Preferences` | `settings.go`, the launch, `StartServices` and the toggles | `file` is `config.json`; a click goes through `Click`, `Act`, `Set`, `Truncate`, `Write`, `SaveFails` being the failures of the last two |
| `CredentialStore`, `MCCredentialStore` | the credential actions, and the key a request gets | each click runs in a goroutine of its own, a confirmed deletion in `dialog`, and no lock orders them; a click is a list of file operations in `todo`; `os.WriteFile` is a truncation and a write through a `handle`, whose file may be deleted in between, a rename is one step. A request arrives (`Arrive`), reads `auth.json` (`ReadAuth`), and later, if it has to, `active.key` (`ReadKey`), which may be half written by then |
| `PlanProbe` | `Plan` and its goroutines | `probe` tells where each model's goroutine stands; `Acquire`/`GiveUp` are the `select`; `Ask` is the look at the context in `http.Client.Do`, `Send` the moment the request leaves, when the context may have ended; `Record` is what happens under the mutex |
| `*_proofs` | | the theorems: `ChatRoute_proofs` about `UpstreamStream` and `ChatRoute`, `Gateway_proofs` about `ProxyManager` and `Gateway`, `Accounts_proofs` about `CredentialStore` and `PlanProbe`, the others about the module of their name |

What is abstracted: an event is its type (`UpstreamStream`) or its type, a number
that stands for its data, and a finish reason (`Completion`); a status is the class
that the properties tell apart; a text or image of a conversation is the place
where it was said (its turn, in a result or not, its number there), and a string the
sequence of the texts joined in it; an account
is its sanitized id, a credential a pair of account and key; `config.json` is the
three settings that change, or one of the ways not to be readable; the time is left
out except as an action (`TimeOut`, `Wake`, `Poll` up to `MaxPolls`).

Variables marked *history* are no state of the code; no action reads them to decide
what the code does.

## The runs

Bounds are the constants of the `.cfg` files.

| Run | Question | Bounds, and why they are enough |
|---|---|---|
| `ChatRoute` | No retry over output, no late request, every response released; the iterator implements `StreamContract`; nothing lost between the peek and the translator; honest status; a hang-up frees the handler; every request answered | both APIs, streamed and buffered, every reason to refuse; two kinds of content, two retries, two complete lines and an unfinished one per response: a retry after a dropped event, two kinds of failure in one request, a failure after content |
| `Turns` | Content in order; one outcome; well-formed frames; thinking signed over what was shown; agrees with the buffered answer | four events over either API: two thinking blocks apart, a tool call between texts, events after finish, an error anywhere; a write may fail at each frame; with and without `include_usage` |
| `Conversation` | Calls and results in pairs; nothing else lost or reordered; both APIs give the same request; a longer history extends the request | two tools, five turns: parallel calls of which one is interrupted, results with images between them, a history that begins with the results of forgotten calls, a system turn anywhere |
| `RequestLog` | The ring is the tail of the log; a poll shows consecutive requests; the status is the one sent | three logged requests, a poll, a ring of two, so that it wraps |
| `ProxyManager` | At most one live child; the address is the child's; a dead child is replaced; every call returns | two callers, three calls, two children, two ports, two health checks per start, one change of another program |
| `Gateway` | A request goes to the child brought up for it; the last `Stop` spares no child | two callers, three calls (a start of the gateway, a request, a toggle), two children, a fallback port |
| `Preferences` | A restart finds the services as the user left them, and the port as he set it | two clicks at a time, three in all (one toggle per service and one back), three launches, one edit, any failure; no folder, one with settings left out, or one of an earlier build |
| `CredentialStore` | A switch is complete; a request gets a key that was installed while it was on its way; what is in use all the time is not deleted; what is listed is usable | two accounts with two keys, two clicks at a time and a deletion besides, four actions, two logins, one failed operation or crash: two saves and a deletion of one account, a switch after a deactivation that left its key. Symmetric in accounts, keys and clicks. `Unanswered` stops at an answer, since only the request's own state is different then: whatever follows happens without the request, too |
| `PlanProbe` | One verdict per model; a blocked account denies all; few requests leave after the end of the context; `Plan` returns | four models for three slots: one goroutine waits |
| `ChatRouteMidStreamFailureSurfaced` | violated: see below | one retry, two lines |
| `ProxyManagerUnix` | violated: see below | one child, ended by a signal |
| `GatewayOutlives` | violated: see below | two callers, two children |

`CHECK_DEADLOCK FALSE` is in every configuration: a request, a turn, a probe ends,
and the others stop at their bounds.

### Fairness

- `ChatRoute`: the handler's goroutine runs (`WF` on its steps). Opening ends because
  dialling and the wait for the header have timeouts (`server.go` 41-44). A read of
  a response whose context is cancelled fails, be it the answer or the body of a
  refusal, so `ReadLast` and `Refused` are fair once `cancelled`. Nothing makes the
  upstream send a line or end a response, so `EveryRequestAnswered` names that as
  its premise and `HangUpEnds` does without.
- `ProxyManager`: `SF` on each caller's steps, since Go's mutex does not starve a
  waiter; a killed process ends and `Wait` returns after an end. That a child ever
  answers is not assumed: `Start` gives up after `MaxPolls`.
- `PlanProbe`: `WF` on each goroutine; a request ends by the client's timeout of 45
  seconds.

The other specifications state no fairness, and claim no liveness: a user need not
click, and a client need not go on.

### Where code and documents differ

Three runs are expected to violate a property that a document or a comment states.

- `ChatRouteMidStreamFailureSurfaced`: ARCHITECTURE says a mid-stream failure is
  surfaced. `Next` treats a read error as the end, and `streamNext` every error: a
  streamed turn whose response breaks off after content, before any finish or error
  event, ends like a complete one. The property speaks of such turns only (`BrokeOff`).
- `ProxyManagerUnix`: the property the `ProxyManager` run checks for Windows. On
  Unix `ProcessState.Exited()` is false for a process ended by a signal, so `Start`
  takes a killed child for alive and the gateway's ensure is in vain from then on.
- `GatewayOutlives`: `main.go` stops the proxy at the end of the app, but a start
  under way at that moment waits for the mutex and spawns a child after the stop.

These were met in the same way, with the formula given here as an invariant or a
property of the module's run; they have no run of their own.

| Statement | What happens | Refuted formula |
|---|---|---|
| a retryable error event is retried (ARCHITECTURE, D6) | one in an unfinished last line is handed on | `ret = "retryable" /\ ~ContentHanded => attempt = MaxRetries` |
| a refused open becomes a proper error (ARCHITECTURE, D5) | a retry after a finish event may be refused when the 200 is out | `ret = "UpstreamError" => consumer # "drain"` |
| the same | a refusal keeps the upstream's status, which may be another 2xx or a 3xx | `answer.failed => answer.status # "other"` |
| `RequestTimeout` caps a request (`config.go` 33) | it bounds the wait for the header only | `<>(consumer = "closed")` |
| only an event commits to a 200 (ARCHITECTURE, D5) | a stream without any is a 200, too | `answer.status = "200" => passed # <<>>` |
| streamed and buffered agree (ARCHITECTURE, D8) | an error after content ends the stream and is dropped from the buffered answer; a turn without content has a block buffered, none streamed | `frames # <<>> /\ Last(frames).frame = "error" => BuildCompletion(events).ccErr` |
| `External`: health answered, not started by us (`proxy.go` 47) | a dead child keeps an external proxy from being reported | `tenant[state.base] = "external" => state'.running`, at each `Status` |
| `Status` reports whether the gateway listens (`gateway.go` 133) | it goes on doing so after `Serve` has failed | `ln => accepting` |
| the gateway never comes up pointing at nothing (`app.go` 475) | the proxy may die between the check and the start | `[][~ln /\ ln' => Healthy(state.base)]_all` |
| an installed credential is not deleted (`app.go` 309) | one that is switched to after the check is | `[][\A id \in Accounts : file[Saved(id)] # None /\ file'[Saved(id)] = None => InUse(file, id) = {}]_vars` |
| deactivating clears the exported key (`tray.go` 328) | a failure to remove it is ignored, and the gateway falls back to it | `settled.name = "deactivate" => file[KeyFile] = None` |
| a switched credential becomes the CLI's, the exported key and the recorded one (`app.go` 270) | a switch and a deactivation, or two switches, that run at the same time leave a key without the record, or of another account | `(\A g \in Goroutines : pc[g] = "idle") /\ ~hurt /\ file[KeyFile] \in Creds => file[ActiveJSON] = <<AccountOf(file[KeyFile])>>` |
| an account is metadata for one stored credential (`vault.go` 22) | two saves of one account at the same time, with a login in between, may leave the copy of one and the metadata of the other | `ListedIsUsable` with `hurt` left alone by `SaveCurrentCredential` |
| a request gets a key or the error that there is none (`app.go` 415) | once the CLI is logged out, one that finds no `auth.json` takes whatever `active.key` holds at that moment: a part of a key that a switch is writing, a mixture, an old key; and the error, although the switch has logged in by then | `request.at = "answered" => request.key \in Creds \cup {None}` |
| errors are dropped for a blocked account (`probe.go` 139) | a timeout drops them, too, and an empty plan is cached | `plan = "cached" => allowed \cup Denied \cup errs # {}` |
| models cancelled mid-flight share the verdict (`probe.go` 150) | those allowed before are denied, too | `allowed \cap Denied = {}` |
| a restart behaves the way the user left it (`tray.go` 406) | two toggles may be saved in the other order; a `Save` cut short leaves an empty file, which `Load` silently takes for the defaults; and a gateway that starts with the app starts the proxy, whatever `proxyAuto` says | `RestartAsLeft` without `~disturbed`; `[][StartGateway /\ cfg.proxy = "off" => running' \subseteq running \cup {"gateway"}]_vars` |
| a change of `config.json` takes a restart (`desktop/README.md` 132) | a toggle before the restart saves what was loaded over it | `PortFollowsEdit` with `edited` kept by `Truncate` |
| a failed migration is never fatal (`settings.go` 150) | a failed copy ends the launch, and the next one starts with what was copied | `PortFollowsEdit` with `edited` kept by `CopyStops` |

The modelled client of `Conversation` keeps clear of four inputs on which the
translation is not what its properties say: a list that mixes bare strings with an
image loses the strings; an empty user message is kept from Chat Completions and
dropped from Messages; a tool result with an image before its text has them swapped
by Messages; and an id that is used for two calls pairs either with one result.

## What is proved

Eight modules hold theorems. Each proves an inductive invariant for every value of the
constants, with the assumptions named in the component's module, and derives the
properties from it.

- `ChatRoute_proofs`, first the iterator alone, for every set of content types (disjoint from the other
  types, `ContentAssumption`), every `MaxRetries` and every length of a response:
  `TypeOK`, `OneResponse`, `AttemptsBounded`, `FailsBeforeContent`, `BodyReleased`,
  `NoLatePost` and `ImplementsContract`. None of them is inductive by itself. The
  invariant adds `Control`: `Next` is at its caller once `done` is set or the consumer
  has closed, and has no result to return anywhere else; `Live`: as long as neither
  has happened, content handed out implies `produced`, `produced` implies an open
  response, and `posts` is `attempt`, plus one if a response is open or its refusal
  being read; `ContentIsLatest`: all content was handed out for the last request. The
  argument is that `MayRetry` needs `~produced`, that an unfinished line ends the
  stream, and that `done` is never reset: so no step leads from content back to
  `Open`. The refinement maps `over` to `done \/ consumer = "closed"`.
- `ChatRoute_proofs`, then the same properties of a whole request. `Untouched` says that
  the iterator is as it was initialised until the request is admitted; every other
  step of a route is a step of `UpstreamStream` or leaves it alone. Besides,
  `NothingLost` and `HonestStatus`, from `AnswerIInv`: until something decisive comes
  nothing is passed or answered; from then on what was passed, with what the caller
  holds, is what was handed out from the first decisive event `n` on (`Follows(n)`),
  and no error is among it. So a turn that began with an error is never drained, and
  an error that ends one is the last event of the iterator.
- `RequestLog_proofs`, for any requests and any size of the ring: `TypeOK`,
  `RingIsTail`, `RecentIsConsecutive`, `LogsWhatWasSent`. The invariant says that
  `history` has `total` entries and that `entries` are its last ones; the lemma
  `KeepProperties` says what cutting the ring keeps.
- `Gateway_proofs`, first the manager alone, for any callers, ports, children and polls: `TypeOK`,
  `OneLiveChild`, `BaseFollowsChild`, and, where ended processes report their end
  (`~Unix` is the theorem's hypothesis), `EnsureIsNotInVain`. The invariant says that
  `mu` is held exactly between a probe and the last poll, that `Start` goes on only
  without a child it takes for alive, that `Wait` returns only for the dead, and that
  the address is that of the child from the moment it is spawned, not only once it
  serves.
- `Gateway_proofs`, then for any number of requests and clicks: `TargetIsCurrent` and
  `LastStopKillsAll`, from the manager's invariant, which every step of the gateway
  keeps, and `Forwarding`: as long as the child a request was brought up for lives,
  the request's target is its port. The last `Stop` needs no more than the manager's
  invariant at its last step.
- `Accounts_proofs`, of the plan probe, for any finite set of models and any number of slots:
  `EveryModelHasAVerdict` and `FewAskLate`. The invariant adds that a goroutine not
  done has recorded nothing, that one that is done has recorded one verdict while the
  context lives, and that a blocked account ends the context. For the second,
  `Lateness` compares the requests that have left late and those that still may with
  the slots: each of them held a slot when the context ended. If a verdict ended it,
  one slot was held by the goroutine with the verdict, so one fewer can be late.
- `Preferences_proofs`, for any number of clicks, launches and edits: `TypeOK`,
  `RestartAsLeft`, `PortFollowsEdit`. The invariant follows a choice from the click to
  the file: without a disturbance one click at most saves, and saves what the app
  works with into a file it has truncated; the port of an edit is in the file, in the
  copy about to be written, or in the folder still to be taken over.
- `Accounts_proofs`, of the credential actions, for any accounts and keys, any number
  of clicks at a time (`ClicksAssumption` keeps the deletion's goroutine apart from
  theirs), and any number of actions, logins, failures and crashes:
  `SwitchIsComplete`, `RequestIsSeamless`, `DeleteProtects`, `ListedIsUsable`. `Roles`
  tells from what is left of a click's list how far it has come. `Moving` follows a
  switch that nothing disturbs: it is the only click that changes the credential
  (`Alone`), what it has written is still there, and what it is writing is torn and
  nobody else's (`Progress`). `Requests` says that a request that was safe when it came
  finds the CLI logged in until it reads `auth.json`, since only a deactivation removes
  it and every other step replaces it as a whole: so it never gets to the exported key,
  which may be torn unnoticed. A deletion knows in which ways its account has been in use all
  the time, and each of its two checks excludes one (`Deleting`). `Saves` follows all
  the saves of an account beside its deletion, as long as nothing fails: they agree on
  one credential (`SavesAgree`), what is not there yet one of them will still write,
  and once the directory is gone none can open a file in it, so nothing is listed that
  is not there.

- `Lists_proofs`: what `Select`, `DataOf`, `Joined` and `FlattenSeq` do with `Append`,
  `\o` and one element, and that selecting twice is selecting once by the
  intersection. The equation of `FlattenSeq`, whose definition in the library is a
  recursive function, comes from a recursive definition over `Nat`; the facts about
  all sequences are proved by induction on their length, as the absence of a least
  counterexample (`NatLessThanWellFounded`, `WFMin`), since the induction theorems
  of the library take an operator.
- `Turns_proofs`, for a turn of any number of events, over either API, cut off by a
  failed write at any frame: `ContentInOrder`, `AgreesWithBuffered`,
  `SignedThinking`, `OneOutcome`, and that `StreamMessage` implements
  `MessageProtocol` (`FollowsProtocol`). The invariant is about `whole`, what was
  sent followed by what is still due. For `StreamCompletion`, the selections of
  `whole` by kind of chunk are the selections of `events` by type, the calls are
  numbered, and nothing but the usage and `[DONE]` follows an outcome
  (`ChunkIInv`). For `StreamMessage`, `whole` carries what the events say (`Carries`),
  consists of blocks that were opened, filled with their own kind, signed and
  stopped in the order of their numbers, and the variables describe the last of
  them (`Current`): `thinking` is exactly what its deltas show, and a thinking block
  stopped before is signed over what it showed. `Emit` leaves `whole` as it is, and a
  failed write leaves a prefix, so the properties of `out` follow from what is closed
  under prefixes. The protocol's `May` is proved of every frame of `whole` given
  those before it. `TurnType`, the type invariant the others rest on, is stated there.

- `Conversation_proofs`, for any finite set of ids, any parts of a turn, any results
  and any number of turns added and forgotten: `NothingDangling`,
  `NothingSaidIsLost`, `ApisAgree`, `PrefixIsStable`. Two kinds of argument meet.
  One is about the translator alone, for every history (`Seq(LegalTurn)`): each of
  its functions is a mapping of a sequence by a function of one element, so that the
  translation of a history is that of its turns, once it is known which ids are
  paired and what they name (`Translation`); a turn is translated to the same
  messages through Chat Completions and through Messages (`AsOpenAIRenders`,
  `AsAnthropicRenders`), hence `ApisAgree`. The other is the invariant `HistoryInv`.
  `History` says that no id is called or answered twice, that a result stands in the
  turn right after its call (whatever has been forgotten before either), and that the
  texts and images of a turn stand at places of this turn, in order. It is kept
  because a reply calls with ids not in use, a user answers calls of the turn before
  only, and the rest of a history is a history. `SentInv` says that what was last
  sent is the translation of the first turns, up to one of the user, of what is
  remembered now. That is what makes `PrefixIsStable` hold: a turn of the user
  answers or passes over every call before it, so what is added later pairs none of
  those calls and changes nothing of their translation (`FirstTurnsAgree`). The
  assumption on the parts (`PartsAssumption`) keeps out the empty user message of
  the list above; `IdsAssumption` makes the ids finite, for a reply to list some.

Only model-checked: the liveness properties `HangUpEnds`, `EveryRequestAnswered`,
`CallsReturn`, `PlanReturns`, which are out of the prover's reach (fairness and
`ENABLED`). Every other property of a passing run is a theorem.

## Not modelled

- `health`, `listModels`, `countTokens`, the dashboard's page: no state.
- `config`, `auth`, `redact`, `creds`: functions on strings. `ChatRoute` has requests
  with and without a key and a model; an account is its sanitized id, and that two
  ids may be sanitized to one is not in the model.
- Of a request, all but its messages: tool definitions, reasoning effort, `max_tokens`
  and temperature are each a function of one field.
- The wording of errors; a status is the class a client tells apart.
- Notifications, dialogs and the menu, which is built anew before it is shown. Clicks
  run concurrently in `CredentialStore`, as toggles do in `Preferences`; of confirmed
  deletions there is one at a time, and of requests for a key, which change no file,
  one as well.
- The vault's plans and notes: `PutPlan` and `SetNote` write a file each that no other
  operation reads. A cached plan survives a new key of its account for as long as it
  is fresh.
- The log of the app: one file a day, appended under a mutex; it is pruned only at the
  start.
- The extraction of the embedded binary: a step of `Start` that may fail. The end of
  the proxy program on a signal: a step of the host.
- `RecoverInterruptedSwap`, which moves what an earlier version left, and, of the
  folder of earlier builds, everything but `config.json`.
- `FetchCatalog` and `classifyUpstreamError`: one request, and a match on its text,
  whose outcomes `PlanProbe` chooses from.
- Build tools.

## Plan

Order of the work, the most important behaviour first. Done: the stream with its
contract; the routes; the translators; the conversation; the request log; the manager
and the gateway; the preferences; the credentials; the probe; the proofs of all their
safety properties.

1. `Conversation` with ids that are used twice, and a statement of what the pairing
   guarantees then.
2. `AppLog`: the daily file, its rotation at midnight and its pruning.
