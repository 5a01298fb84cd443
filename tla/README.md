# Verification of MutsukiBotPlugins

TLA+ specifications of the stateful parts of MutsukiBotPlugins, TLC
configurations that model-check them on small instances, and proofs for the
TLA+ proof system of theorems about them for every value of the constants.
Everything is translated from the Rust code under `src/`, which is the reference
where a document says something else; `PROJECT.json` maps each definition to the
lines it stands for and lists the runs, the mutants that show each property can
fail, the hazards and the theorems.

1. [The system](#the-system) - [2. Modules](#modules) - [3. Runs and bounds](#runs-and-bounds) -
4. [Fairness](#fairness) - [5. Proofs](#proofs) - [6. Findings](#findings) -
7. [Not modelled](#not-modelled)

## The system

MutsukiBotPlugins are the bot plugins of a Mutsuki product: adapters that turn
platform traffic into tasks of the Core, plugins that act on those tasks, and a
configuration and console layer around them. The Core (task table, scheduler,
host) is another repository; here it appears as the code uses it: `submit_one`,
`submit_batch`, `task_outcome`, runners that are given batches of tasks, host event
sources with `start` and `shutdown`.

| Component | State it keeps | Operations | Talks to | What is hard, and what makes it correct |
|---|---|---|---|---|
| QQ Gateway pump (`gateway/connection.rs`) | resume point, dedup window (set and queue), action queue | `handle_frame`, `pop_action`, `forget_dispatch`, `clear_session` | called by the event source | replayed frames, rejected tasks: set and queue agree, no key makes a second task within the window, a Resume has its session |
| QQ Gateway event source (`event_source.rs`) | phase of one tokio task, health snapshot, back-off count, ACK deadline, cached token | connect, hello, identify or resume, read, heartbeat, drain actions, back off, stop, be aborted | Gateway server, pump, Core, token | every await can be interrupted, a server can close, lose or keep silent: order, at most once, no loss but by rejection, it comes back, it stops |
| QQ access token and OpenAPI transport (`api/client.rs`, `api/transport.rs`) | token cell, refresh mutex, secret, per-call retry counters | `bearer_token`, `invalidate`, `execute_json`, set and clear of the secret | token server, OpenAPI, event source | several callers race refreshes, expiry, 401 and the end of the lease: single flight, expiry, bounded sends, another token after a 401 |
| QQ event and message mapping, event router, command plugin | router sequence; configuration otherwise | map a frame, route an event to subscriptions, parse a command | runners of the Core, each with batches of its own | fan-out in batches, one entry of several fails: each command once, in order, with its correlation |
| SDK (`context.rs`, `command.rs`) | default options of a context | submit operations as one batch, reply to a command | Core | one context answers many messages: an answer goes where its question came from |
| QQ OpenAPI service, media and tasks | message sequence counter | send a message in parts, upload in blocks, single requests | transport, Core, resource registry | requests and answers get lost, a resource is replaced meanwhile: parts in order, repetitions recognisable, images whole, every task ends |
| Configuration service (`mutsuki-bot-config`) | store per context with revision, defaults, file, watchers, secrets, registry | `read`, `validate`, `apply`, `watch`, lifecycle | console, CLI, product file, plugin reload | optimistic concurrency, file against memory, reload after the lock is gone, crash; secrets that a form must not show and must not lose |
| Configuration schema and expressions | none (pure) | validation, visibility, secret shapes | configuration service | what a recursive walk with budgets and early returns accepts is what the author of the schema meant |
| Bilibili polling (`bilibili.rs`, `plugin-bot-bilibili/src/lib.rs`) | handles in flight, due times, retry counts, cursor table | scheduling pass, poll, Chromium fallback, announce | Bilibili, Core, browser plugin, configuration | a source that restarts while its tasks run on, a page older than the cursor, failure after the cursor was stored: history stays silent, nothing twice, nothing missed |
| Bilibili management | QR sessions, binding challenges, live credential, Host secret, live configuration, product file | login, bind, verify, subscribe, pause, unbind, clear | chat commands, web console, Bilibili | requests hold no lock: several stores written one after the other, copies of the configuration written back |
| Bilibili Open Platform | OAuth bundle in memory and in the Host secret | check of the scope, refresh, rotate, publish, retry | Bilibili, secrets, event source | a refresh token is good for one use; the local clock may misjudge the expiry |
| Bundle and configured plugins | assembled once at start | validate, prepare, declare protocols | all adapters | what is declared, what is taken and what is asked for agree |
| Plugin catalog and upgrades | a checkout with its release directory | check, plan; fetch, build, abi, report | Git, cargo, the console | steps go on after a failure over artifacts somebody else may have left: success means the target |
| Web console, config and upgrade extensions | session capabilities, watchers | requests over RPC | configuration service, catalog, host control | capabilities against shapes of requests |
| Link plugins, testkit, benchmarks, control and overview pages | none | - | - | - |

Three paths cross components and carry most of the risk. The Gateway event source
drives the pump and hands its tasks to Core: a task is *reserved* in the dedup
window before it is accepted. Every OpenAPI call and the event source share
one access token, whose secret the event source takes away when it stops. And a frame
that Core accepted passes three runners, a handler and the OpenAPI runner before its
answer reaches QQ.

## Modules

| Module | Models | Correspondence |
|---|---|---|
| `QqGatewayPump` | `QqGatewayPump` of `gateway/connection.rs` | the variables are the fields of the struct; `HandleFrame`, pops, `ForgetDispatch`, `ClearSession` are its methods. `accepted` is a history of what Core took |
| `QqGateway` | `run_gateway` and `run_connection`; EXTENDS the pump | `phase` is the await the task stands at, and a client step runs to the next await. Server, network and token server are the environment; `wire` is socket, reader task and bounded queue as one FIFO. `AbortTask` is a `shutdown()` future that the host drops |
| `EventChannel` | the abstract promise to Core: events in order, each at most once | implemented by `QqGateway` under `delivered <- Delivered` |
| `QqAuth` | the token cell, its refresh mutex, the retry loops, the lease of the secret | a thread is one caller, its record is the local variables of `bearer_token` and `execute_json`; steps end where another thread can come in |
| `BotEvents` | frame mapper, event router, command parser | one queue per runner, as the host keeps them; a step takes a batch of any length up to the limit. Text is a sequence of words and marks |
| `QqSend` | the OpenAPI runner, `service.rs`, `media.rs`, the retry loop as a counter | `work` is where the running task stands: the step, what is left of the message, the block, the attempt and its `msg_seq`; the server keeps what it took |
| `BotFlow`, `MCBotFlow` | the path from a frame to the posts of its answer; EXTENDS both | a handler takes commands and answers through the context of the SDK; other plugins submit uploads, single requests and malformed payloads |
| `ConfigApply`, `MCConfigApply` | `ConfigService::apply` over `MemoryConfigProvider` with persist sink and lifecycle, and its clients | an apply is cut at its locks: persist and commit under the store mutex, notification, then the lifecycle without it. A behaviour is about one of the two providers of the product, with the policies of its fields and its sink: `replace` the field in the file, `patch` it if the candidate has it, or `skip` it. `Missing` is a field a configuration does not give |
| `ConfigValues` | values, their JSON, the shapes of secrets | operators only; a value is a record whose one field names its type. What the code does by recursion is a function on the parts of a value |
| `ConfigSchema` | expressions, schemas and `validate`; EXTENDS the values | operators only, recursive as the code is. Budgets are parameters |
| `ConfigForms` | registry, contexts, capabilities, `merge_secrets`, the RPC of the configuration extension | a session reads, and sends back what it read or what it made of it; each request is one step, since it awaits nothing but the store mutex. Validation is a parameter (`Accepts`, `FitsBudgets`), for which the run takes that of `ConfigSchema` |
| `CatalogUpgrade` | check, plan, execution and exit status of an upgrade | one step per step of `execute_module_upgrade`, callers share the checkout |
| `WebConsole`, `MCWebConsole` | the three above side by side | they share no state, so a behaviour shows one of them |
| `BilibiliPoll` | `run_polling`, the runner, `finish_poll`, the cursor table, one author | `pass` is the rest of the scheduling loop; a dynamic poll with the Chromium fallback is cut at its two locks, every poll between the stored cursor and its announcements |
| `BilibiliManagement` | `management.rs`, its chat commands and web RPCs, the loading of the credential by the event source | a request is a record in its slot, cut at every store it reads or writes; `live` and `disk` are the two copies of the subscriptions, `credential` and `secret` those of the cookie |
| `BilibiliOAuth` | `open_platform.rs` and the loading of the bundle | one poll at a time; bundles are numbered by the server's refreshes; the local clock and the server's verdict are apart |
| `BilibiliSettings` | validation, `prepare`, manifest and runner descriptor, `retry_delay` | configurations as data; delays in words of `WordBits` bits |
| `BilibiliBackends` | the plugin with the backend its configuration selects; EXTENDS the three above | `mode` is one of those some accepted configuration selects |
| `QqGatewayProofs` (the pump too), `QqAuthProofs`, `ConfigApplyProofs`, `WebConsoleProofs` (the forms too), `CatalogUpgradeProofs`, `BilibiliPollProofs`, `BilibiliBackendsProofs`, `BotFlowProofs` | theorems and proofs | each EXTENDS its module |

Abstractions that hold throughout: Option is 0 for None and a positive number
for Some; ids, tokens, posts and sessions are numbers in the order of their
making; time is a step that comes when it comes (only `QqAuth` has a clock, since
expiry is about it); payloads, wording and logging are left out. A definition
named after a slip (`RememberEvictingNewest`, `ReloadOwnCandidate`, ...) stands next
to the one it is a mutant of; no specification uses it.

## Runs and bounds

| Run | Asks | Properties |
|---|---|---|
| `pump` | the pump under frames of every kind in any order | `NoRepeatWithinWindow`, `ResumeHasSession` |
| `gateway_safety` | the event source against server, faults and a rejection | `HealthTracksPhase`, `NothingLeftOver`, `CondemnedTokenNotReused`, and the refinement `DeliversInOrder` |
| `gateway_liveness` | the same, under fairness | `DeadConnectionNoticed`, `StopEnds`, `EventsArrive` |
| `gateway_rejected` (violation) | is a rejected event replayed? | `ResumePointCovered` |
| `auth` | two callers, clock, revocations, failures, two starts of the source, under fairness | `AskedOnlyWhenStale`, `RetryUsesAnotherToken`, `LateStoreAtMostOnce`, `CallsEnd` |
| `bot_flow` | two frames to commands to answers, a lossy network, a resource that is replaced, under fairness | `CommandsOnce`, `AnswersReturn`, `PartsArriveInOrder`, `RepeatsRecognised`, `ImageIsWhole`, `TasksEnd` |
| `console` | two clients of a configuration with failing sink, failing reload and a crash; a session with a form; an upgrade by two command lines and the console | `MemoryMatchesFile`, `StaleWriteRefused`, `ReloadsCatchUp`, `EveryCommitAnnounced`; `StoredAsMeant`, `FormKeepsSecrets`, `SecretsGuarded`; `SuccessIsOfTarget`, `PreviewChangesNothing` |
| `config_lost_update` (violation) | does the revision protect the first apply? | `NoLostUpdate` |
| `config_reload` (violation) | does a complete apply mean that it runs? | `DoneMeansRunning` |
| `bilibili_poll` | a subscription of any kind, restarts, a crash, deletion, failure, under fairness | `OnePollPerKey`, `OnlyNews`, `NothingMissed`, `NewPostArrives` |
| `bili_backends` | overlapping management requests of a chat and the web, restarts and a crash; the OAuth bundle; delays and declarations | `OnlyProvenBindings`, `StoresAgree`, `PauseLostOnlyByStaleCopy`; `AuthorisationKept`, `TokenUsedOnce`, `Recovers`; `EveryRequestServed`, `DelayNeverShrinks` |
| `bili_pause` (violation) | does an acknowledged pause stay? | `PauseKept` |

The bounds, and why they suffice for the cases that matter:

- `pump`: `Window = 2`, two ids, two sequence numbers, one session id, `MaxTasks = 5`.
  Five tasks fill the window more than twice, so that eviction, a rejected task
  after an eviction and a key that comes back after `Window - 1` others all happen.
- `gateway_safety`: two events, two faults (any of close, silent loss, expiry of the
  session, refused token, lost credentials), one rejection, one replayed log entry.
  Two faults are the least for a Resume that fails and is followed by an Identify;
  `Window = 3` is above the overlap, as the default window of 2048 is above a replay
  of a few. With an overlap of one entry `EventsAreDeliveredInOrder` shows that the size of
  the window does not matter. With an overlap of two it does: `last_sequence` follows the
  replayed entries down, so that each connection lost during a replay lets the next one
  begin further back. TLC finds repeated deliveries at `Window` 1 and 2 with two faults,
  and at 3 with four events and three faults; with enough faults no window is long enough.
- `gateway_liveness`: one event and two faults, no rejection (a rejected event is not
  replayed, see the findings). The bound on faults is what ends the disturbance.
- `auth`: two threads, `Ttl = 1`, `Margin = 0`, clock up to 1, two attempts, two
  calls, two faults, two starts: a refresh that outlives the lease under which it began
  needs both starts, and one that races another needs both calls.
- `bot_flow`: two frames out of six (group and private messages, two with one id, one
  whose mark could be two prefixes, one that is no message, one that is no dispatch), three
  subscriptions of which one does not match, batches of up to two, two tasks of QQ
  of which one may be something else, two attempts. `SeqBits = 2` starting at 3 makes the
  counter wrap in the first message. The resource is hashed or not, sized or not, of
  the provider or not, and may be replaced once at any time. Images have two blocks, or
  one after the replacement.
- `console`, configuration: two clients, one of two providers (one field that is replaced and reloads
  the plugins; one that is patched and one that is never written, both optional), two values,
  `MaxRevision = 4`, one failure of sink and of reload, one crash. Revisions 1 (first commit), 2, 3
  and 4 are needed for a snapshot beyond the initial revision to become stale and be applied.
- `console`, forms: a schema with a required secret, a number shown on a condition,
  a string with a pattern, a choice, an array and a nested object with a condition; some
  twenty-five candidates at and just beyond each bound of it, one of them with all its fields; what was read is sent back as it is or with the
  other fields of any candidate; three contexts of which one is
  complete; six sets of capabilities; budgets small enough for one of three providers
  to exceed each. `MCMeant` says in words of its own which values the schema means. The
  values are at most `ValueDepth = 2` deep, which `FormsAssumption` has TLC check; a field in
  an object in the root is the deepest place that redaction and the search for
  secret updates tell apart from the others.
- `console`, upgrades: a module with libraries, one of Python and one of Python with the id of a
  plugin kit, two revisions, a usable
  checkout with libraries of an old revision and an unusable one, a full execution and
  a dry run. A skipped step leaves the checkout as a step that fails at once does, so
  that the other options add no case. The two command lines are symmetric, as
  are the two clients.
- `bilibili_poll`: one key, whose kind and fallback are chosen at the start so that every
  combination is covered (keys share nothing but the runner's lock); three posts on
  pages of two, so that a page can overflow; one deletion, two toggles of a live
  room, two starts (one restart or crash), one failure.
- `bili_backends`: one slot for the chat, which runs one command at a time, and one for the web;
  four requests in all, so that a login, a binding with its verification and one change
  can overlap; one operator, who is an administrator too, and two accounts, so that a code can stand in the
  signature of another account than the challenge names and a challenge be replaced by one for the other;
  an administrator's id that is also that of a self-made binding; one failure, one restart or crash. Three
  refreshes beyond the first bundle with one failure and two stops. `WordBits = 3` with
  any initial and largest delay and up to `WordBits + 2` failures: shift and product exceed the word.

`CHECK_DEADLOCK FALSE` stands where the system may stop: an event source that has
been stopped or refused for good, all bounded work done. Deadlocks that matter are
liveness properties (`StopEnds`, `CallsEnd`, `TasksEnd`, `NewPostArrives`, `Recovers`). The violation
runs have the smallest bounds that show their counterexample.

## Fairness

- `QqGateway`: weak fairness of the client's steps, since the tokio task is polled
  whenever its await is ready; of seeing the stop signal in the select loop, as
  `select!` keeps polling that branch; and of the ACK deadline when the connection is
  dead. Nothing is assumed of the server, and nothing makes faults end but their
  bound. A write to a peer that never reads does not end in the code either and lies
  outside this assumption.
- `QqAuth`: weak fairness of each call's steps, threads being scheduled and requests
  having time limits. That includes taking the refresh mutex, hence that the mutex
  does not starve one caller for ever; every holder gives it up after a bounded number
  of attempts.
- `BotFlow`: the host runs the OpenAPI runner while it has a task. The network may lose
  every request and every answer.
- `BilibiliPoll`: the ticker fires, a scheduling pass goes on to its end (it has no
  await), delays pass, and the Core runs each submitted task. Nothing makes the author
  post, the source start or a subscription resume: `NewPostArrives` speaks of behaviours
  in which the source stays up and the key stays active.
- `BilibiliOAuth`: polls are scheduled as long as there is a bundle, the Core runs the one
  it has admitted, and the host starts its event sources and lets them load. `Recovers` excuses a
  lost authorisation; calls fail as often as their bound allows.

## Proofs

`tlapm` checks the proof modules; they assume only the named ASSUMEs of the
constants. What they establish holds for any window, ids, clients, contexts,
fields, values, threads, attempts, keys and bounds.

Six small definitions are there for the proofs alone and checked by no run: `PumpTypeOK`,
`WindowConsistent`, `WindowIsRecentPast`, `AuthTypeOK`, `ExpiryNotOverestimated` and `SendsBounded`
state types, strengthenings and bounds for which the proof says more than a run would.

- **Pump.** `PumpTypeCorrect` comes first. `NoRepeatWithinWindow` is not inductive: it says
  nothing of the queue that enforces it. `WindowIsRecentPast` is its strengthening: the dedup
  queue is the end of the history of tasks handed over (the reserved one included),
  at least `reach` long, equal keys in that history are `Window` apart, and the set
  equals the queue. Remembering a key appends to both; a rejection takes the
  last entry from both, which is why the reach drops by one. `DedupCorrect` and
  `WindowIsConsistent` follow from it (`WindowCorrect`), `ResumeCorrect` from the types and the
  one action a frame may queue.
- **Event source.** `GatewayInv` has four parts. `HealthInv` ties the health snapshot to the
  phase, or says that it is the `orphan` of an aborted task, whose successor has no socket yet. `QueueInv` says that at most one action is queued and that nothing is left over
  from one frame to the next; it needs `HelloFirst`: before the client has
  authenticated the wire holds a HELLO, possibly followed by more of them or a close, and this
  bounds what `send_auth_action` finds in the queue. `TokenInv` holds because a token is
  condemned only in the step that drops it, and tokens are numbered. `HealthIsTrue`,
  `NothingIsLeftOver` and `CondemnedNotReused` follow, for any server, faults and bounds.
  `EventsAreDeliveredInOrder` is the refinement of `EventChannel`. What has been delivered tells
  nothing of what may still come, so its invariant `ChannelInv` follows an event from
  the log to Core. `LogInv` and `Rising`: the log, and the dispatches on the wire, go up in
  sequence and in event number. `InOrder`: an event on the wire is newer than all Core
  has or is offered (`Top`), but for one sent again, which comes before every other
  dispatch and whose key the window remembers. `InLog` and `PointInv`: the wire
  is at or after the resume point, and what the log has beyond the resume point is
  news, so that a Resume brings news. `Opens`: so does a READY on its way, for the session it
  opens. `Settled` and `QuietInv`: the client authenticates only where no dispatch
  is under way, which is why a replay never overtakes what went before. Most steps
  bring nothing new and are carried over by one lemma (`OrderKept`); the work is
  in taking a dispatch (`TakeDispatch`), in the two answers of the server
  (`IdentifiedStep`, `ResumedStep`) and in `PublishStep`. The theorem assumes `Overlap \in 0..1`,
  the assumption on the Gateway: a Resume is answered with what follows the sequence number it names,
  or from that number on.
  `OnlyRejectionSkips` and `LiveSessionIsComplete` are the other half: that nothing is left out.
  `SkipInv`, on top of `ChannelInv`, says of every event of the log that Core has it, is offered it
  (`Taken`) or has it coming on the wire (`Comes`): up to the resume point it is taken (`Passed`), in front of
  a dispatch on the wire everything before it in the log has come or comes first (`NoGap`),
  and on a live connection all the rest comes (`LiveBringsAll`). A key is in the window
  only if its task was taken (`SeenInv`), since a replayed frame is otherwise suppressed for nothing, and
  a task in hand is dropped by no step but the rejection (`HandInv`): no send that could fail is queued with it.
  Steps that lose no dispatch, or cut off the end of a wire that is no longer live, are carried
  over by one lemma (`GapKept`); the work is in `GapTaken`, `GapPublished` and `GapResumed`. All of it holds
  while `rejects = 0`. The first rejection ends it, as `gateway_rejected` shows.
- **Token.** `AuthTypeCorrect`, then `AuthInv`: the types, an invariant of each call
  (`CallInv`: it owns the refresh mutex where the code holds it, and the cell stays stale
  meanwhile), of each pair of calls (`PairInv`: nobody else has seen the token that one
  is about to store) and of cell, lease and secret (`CellInv`). A step changes
  one call, so that the pairs without it are carried over by one lemma (`OtherCall`).
  `SingleFlight`, `ExpiryCorrect`, `SendsAreBounded`, `RetryDiffers` and `LateStoreBounded` are
  its consequences.
- **Configuration.** `ConfigInv` ties the lock to the one call that persists and each
  snapshot to the revisions committed since: `Shapes`, `LockHeld`, `SnapshotsHonest`.
  `StaleWritesRefused` holds for any number of clients and contexts. `CommitsAreAnnounced` too: by
  `AnnounceInv` every revision of a context is either among the events or in the hands of one
  client that has committed and not yet notified, and never twice; that the
  elements of the events are as many as the events themselves is then a fact about
  bijections. `MemoryFollowsFile` and `ReloadsDoCatchUp` assume a single context, and have to:
  the sink writes one file whatever the context. The first is about the fields the sink writes: what is
  patched or skipped may be in memory only (`SinkWrites` says what a write makes of each field). The second rests on `ReloadInv`: with one
  context every field that the sink changes in the file is in the diff against memory
  (`ReadsFile`, `SinkChangesDiff`), a change of a field
  that calls for a reload leaves something pending since the strongest policy is not
  None (`ChangeIsPending`), and so whenever the plugins run with old fields, some call in
  flight still has something pending or a reload is owed (`ReloadDue`).
- **Forms.** `FormsInv` holds for any schema and whatever validation says. `StoreHonest`: the
  value of a store says of each secret field only whether there is one, and where it says so
  there is. `SnapshotHides`: so does what a session has read, at every depth (`FormsHideSecrets`).
  Redaction and reading from JSON go down a value; they are functions on its parts, of which one
  level at a time is known (`PartsAt`), so that what holds of every part is shown from the
  deepest level up. `SecretsAreGuarded`: an update that the merge takes from a field of
  the root is a part of the candidate, where the check of the right to write secrets finds it.
  `SentBackFormKeepsSecrets`: what was read has no update, since it shows only whether there
  is a secret, and editing its other fields adds none (`EditedHides`). `StoredIsMeant` is about the paths into the store, and there validation matters: it
  assumes a set of values that holds whatever sessions send or read, of which validation
  accepts only what the schema's author means, and which editing does not leave (`MeantIfAccepted`). `MCWebConsole` gives such a
  set for the run's schema and has TLC evaluate that it is one. `ConsoleServesParts` carries the
  theorems about configuration, forms and upgrades over to the console.
- **Upgrades.** `CatalogInv` says of each execution at the shared checkout what its steps have
  brought as long as none failed and nobody disturbed it (`Brings`): the head after the fetch, a
  library of the head after the build, a verified library of the target after the
  check. The step of another execution keeps it because it either leaves the checkout as it is or
  marks everybody else as disturbed. Nothing is assumed of the ids of modules: of a python repository
  with the id of a plugin kit, whose libraries are checked and never built, the theorem says only
  that there were some. `SuccessMeansTarget` and `PreviewsChangeNothing` follow.
- **Polling.** `HandlesInv` says which tasks of the Core the present start can still
  be waiting for, and that none belongs to a later one; `OnePollPerKeyCorrect`
  follows, for any keys and any failures. `NothingIsMissed` and `OnlyNewsIsAnnounced` rest on one
  lemma about the first page (`PageFacts`: for a set of posts and a page size, the page is the
  newest posts in falling order, and whatever is not on it is older than all of it), and on the
  steps of a key told apart by what they do to its cursor (`StepKinds`). For the first, `BaseInv`
  has the types and that a key has a first cursor exactly if it has a cursor, and `Covered`
  says of each post in between how it is accounted for, a task that has stored its cursor and
  is about to announce included. For the second, `KeyOK` says of a key that is not
  excused that what it announced goes up (`GoesUp`) or alternates (`Alternates`) to no further
  than its cursor, short of what one task has still to announce, and that a page a
  task has read holds the post at the cursor or only newer ones (`ReadOK`, `Reaches`). The
  last is what a deleted post and a task that outlives its source break, which is why such a
  key is `excused`.
- **Bilibili backends.** `OAuthInv`: a poll that is about to rotate holds the server's
  current bundle, and as long as nothing was lost and no load raced a refresh, so does whoever
  else holds one, except the credential until it is published. `AuthorisationIsKept` and
  `TokenIsUsedOnce` follow. `ManagementInv`: copies held by requests are as sound as the
  stores (`CallsFine`, `StoresFine`), and file and memory, secret and credential agree unless
  a request stands between the two writes or two publications have overlapped
  (`ConfigurationAgrees`, `CredentialAgrees`). A request outside those stretches is carried over by
  two lemmas (`KeepsWriting`, `KeepsPublishing`). `BindingsAreProven` and `StoresDoAgree` follow.
  `PauseInv`: until a stale copy was written, the file keeps every acknowledged pause, and
  every copy that is not outdated was taken from the file, which nobody has written since
  (`FreshCopies`, `UpToDate`); so writing such a copy keeps the pauses, and writing it makes every
  other copy outdated. With two requests between file and memory this breaks down, but the second
  of them has written an outdated copy. `RequestsAreServed` is a fact about all configurations,
  proved by cases on the backend. `DelaysNeverShrink` needs powers of two, of which the provers know
  nothing: `2^n` is the number of subsets of `1..n` (`PowerIsSubsets`), so that a larger `n` has
  more (`PowerGrows`); the factor then grows up to the width of the word and stays from there
  on (`MultiplierGrows`), and `BackoffInv` says that the delay is that of the failures counted.
- **Bot flow.** Four invariants of the OpenAPI runner and three of the runners before it.
  *Types*: where the runner may be in a task of each kind and what is left of the task
  there (`SendTyped`). *Numbers*: `msg_seq` follows the count of the messages started
  round the counter (`NumberInv`), so that two messages less than a round apart have
  two numbers, and an attempt carries the number of its message (`WorkNumbered`, `PartsInv`);
  `RepeatsAreRecognised` follows for any width and start. *Images*: the blocks a server
  has confirmed are those of one upload of one generation (`ImageInv`), and a posted image is
  one of them (`PostsWhole`). *Order*: what has arrived and what is left make up the message
  (`SentInv`). *Events*: what waits in a queue is made of the frame whose correlation it
  carries (`EventsOK`), the five queues one after the other are in the order of
  arrival (`PipeInv`), and the tasks made of a command and those its event will still be made
  into are together as many as the parser subscriptions it matches (`CountInv`);
  `CommandsAreMadeOnce` follows. *Answers*: a handler's context names the message it was called
  for (`OriginsInv`), and so does every post (`PostsAnswer`); `AnswersComeBack` follows.

Where a proof needs induction over the naturals, the set of the numbers for which the claim holds
is shown to be all of Nat from the least element that is not in it (`LeastNat`,
`SetInduction`): the library's theorem takes an operator as a parameter, which the provers
cannot instantiate.

Proving changed the model in seven places: `RepeatsRecognised` compared only posts
next to each other and was no invariant any induction could carry, so it now speaks of
messages less than a round of the counter apart, which the history `messages` counts; the
parser's `Asks` did not treat a prefix that begins with the mention of the bot as the code
does; `FirstPage` and what a Resume sends again (`Ascending`) are stated by rank rather than
by sorting and selecting; `Mergeable` did not refuse a candidate that is no object, as
`merge_secrets` does (`memory.rs:102-106`); what the forms need of values is apart from
validation and free of RECURSIVE operators (`ConfigValues`); and the constants of the events, the
answers and the sender got the assumptions `EventsAssumption`, `AnswersAssumption` and
`SendAssumption`, which ask for no more than the configuration of the plugins does.

Model-checked only:

- validation itself (`ConfigSchema`), which is recursive over schemas and expressions: that it accepts
  only what a schema means is evaluated for the schema and the values of the run;
- the behaviour of the event source where a Resume brings back more than the entry at the resume point
  (`Overlap` above 1). There the refinement does not hold for every number of faults, so there is
  nothing more of it to prove;
- liveness, hence every property under fairness, and the violation runs. ENABLED, induction over data
  and RECURSIVE operators are out of the prover's reach.

## Findings

- `gateway_rejected`: `handle_frame` takes over `last_sequence` before Core has accepted the
  task. When `submit_one` rejects it, the dedup key is given back so that a replay can
  pass, but the Resume that follows asks for what comes after that sequence number,
  and the event is never replayed. The comment at `connection.rs:140-141` counts on it.
  `OnlyRejectionSkips` proves that nothing else loses an event below the resume point.
- `config_lost_update`: the first apply of a context keeps revision 1, the one every snapshot of
  the defaults carries; a second client that read the defaults overwrites it
  without a conflict.
- `config_reload`: when `plugin_reload` fails the candidate is already committed. Applied again
  it has no difference, so nothing is reloaded and the answer is a success, with the
  plugins still on the old configuration.
- `bili_pause`: `bind_verify` copies the configuration, fetches a profile and writes the copy
  back (`management.rs:403-434`). A pause that was acknowledged meanwhile is gone, in the product file
  and in memory, where `docs/bilibili-management.md:42-43` says that it is persisted.
  `PauseLostOnlyByStaleCopy` shows that this is the only way a pause is lost.

Weaker than one might expect, and shown by how properties had to be stated:

- after a `shutdown()` future that the host drops, the health snapshot goes on showing the connection
  of the task it aborted until the next one marks it (`orphan`);
- of the product's own fields the sink writes four, and those only if the candidate has them; what is
  committed for another one, or taken out, is in memory until the restart and never in the file,
  although the answer is a success;
- of a python repository with the id of a plugin kit the plan leaves out the abi step, and the execution
  runs it over libraries nobody has built for it;
- two publications of a credential that overlap may leave secret and running credential apart, and two
  executions at one checkout may verify each other's libraries: `StoresAgree` and `SuccessIsOfTarget`
  excuse them;
- a task that was rejected costs the dedup window one entry (`reach`);
- a poll that fails after storing its cursor loses all its announcements (`lost`); deleting
  the post at the cursor, or restarting the event source during a dynamic poll with the
  fallback, has history announced again (`excused`);
- a form that replaces a configured secret by another one has an empty diff, since both are
  shown as `Configured`: nothing is pending, and the plugins keep the old secret;
- the visibility condition of a leaf field is ignored by validation, and that of an object is
  evaluated on the value of the object itself.

## Not modelled

- HTTP, SQLite, sockets, the browser, Git and cargo appear by their outcomes; conversions that no
  property tells apart (signing, card and page parsing, payload fields nothing reads) are
  left out.
- The length of delays: that a retry delay does not shrink is checked, what reconnect
  attempts and intervals amount to is not.
- The Core. Where its behaviour is not visible in `src/` (a task id used twice, for one)
  the hazard is listed with a note.
- Link plugins, and the link resolving of the Bilibili plugin with its cooldown: one task
  makes one message, and but for the cooldown row nothing is kept between two. Nothing in
  `src/` submits those tasks.
- Migration chains of configurations, which nothing in `src/` calls; the derive macro;
  metrics; redaction of logs.
- The control and overview extensions of the web console, the console bridge, the assembly of
  manifests, testkit, benchmarks and examples: they keep no state of their own or are no
  part of the running system.

What could come next: how many lost connections a window of a given length bears when a Resume
brings back several entries; the forms of several sessions at once, with the
concurrency that `ConfigApply` has; link cooldowns, once something submits link tasks.
