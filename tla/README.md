# Code Caller: TLA+ verification project

Code Caller lets a user start coding-agent tasks on their own machines from a
phone. This directory models the parts of it in which order, concurrency and
failure matter and checks them with TLC. With TLAPS it proves every safety property
that the passing runs check, for every value of the constants, and that the composed
system implements the model of the Hub.

## The system

| Part | State | Operations | Hard parts |
|---|---|---|---|
| **TasksService / TasksProcessor** (`hub-api/src/tasks`) | tables `tasks`, `task_attempts`; the BullMQ dispatch queue | submit, cancel, daemon status / log / result, capacity failover, dispatch job, watchdog job | every `await` lets other handlers in; queue and table are written one after the other; timeouts and retries |
| **ApprovalsService** (`hub-api/src/approvals`) | table `approvals` | request of a daemon, decision of a user | two devices decide at once; the server read before the writes is used after them |
| **WorkerRegistry, CodexAdapter** (`hub-api/src/workers`) | none | candidates of a task, submit and cancel | presence may be stale |
| **DaemonGateway, RealtimeService** (`hub-api/src/realtime`) | rooms, `Server.status` | connect, disconnect, heartbeat, emission, inbound events | the room, the column and the real connection differ for a while |
| **Agent Daemon** (`agent-daemon/src`) | socket, buffer, map of runners, child processes | task:submit, task:cancel, approval:decision, output, exit, reconnect, shutdown | half-open connections, replay of the buffer, restart |
| **Server registration** (`hub-api/src/server-registrations`, `register.js`) | table `server_registration_requests`, `servers` | create, poll, decide, expire, deliver the credential | concurrent decisions, expiry, lost responses |
| **Auth and app session** (`hub-api/src/auth`, tokens of `mobile-app/App.tsx`) | table `refresh_tokens`; tokens in memory and in AsyncStorage | login, refresh, logout, boot effect, parallel requests | several refreshes of one token, retries on the second URL, restarts |
| **Output of a child** (`runner.js`, `approval-detector.js`, `failure-detector.js`) | tail, last chunk | cut to the limit, detect a prompt, classify a failure, build the command line | chunks end anywhere; the tail is cut and emptied |
| **Presence of a server** (`daemon.gateway.ts`, `servers.service.ts`, `config.js`, `.env`) | sockets, `Server.status`, `.env` | register, start, connect, heartbeat, disconnect | updates of an old and a new socket overtake each other |
| **Live feed** (`app.gateway.ts`, `notifications.service.ts`, lists of `App.tsx`) | room of the user, lists of the app, `busy`, table `push_tokens` | loadAll, socket events, submit, decide, push | responses and events in any order, expired tokens, lost sockets |
| Screens, deployment, development scripts | | | not modelled, see below |

The app talks REST to the Hub; the Hub queues a task, picks a server of the
same owner and emits `task:submit` into the socket room of that server; the
daemon there runs a child process and sends status, logs, approval requests and
the result back. Approval decisions and cancellations go the same way as the
task. The watchdog takes tasks away from daemons that have fallen silent.

## Modules

* **TaskHub** - the Hub's side of a task. The Hub is one Node process, so a
  handler runs undisturbed from one `await` to the next: each database access,
  queue access and emission is an action. `call[c]` is a REST or event handler
  in flight (what it remembers over its awaits), `proc` the dispatch job, `dog`
  the watchdog job; `task`, `attempts`, `approval`, `serverStatus` are the
  tables, `jobs` the queue, `room` and `wire` the sockets. Clock values are
  reduced to "within the watchdog timeout" (`fresh`). Daemons and presence are
  an unconstrained environment: any event about any task may arrive at any time.
  BullMQ, socket.io and Postgres are modelled from their use (`FailJob`,
  `Deliver`, `HubRestart`).
* **AgentDaemon** - `client.js` and `runner.js`. No handler of the daemon awaits
  anything, so a handler is one action. What the detectors say of a chunk of
  output is nondeterministic here; DaemonOutput decides it.
* **CodeCaller** - both joined: the Hub's `wire[s]` is the inbox of daemon `s`,
  the daemon's `outbox` starts the Hub's handlers in order. It EXTENDS TaskHub,
  so TaskHub's `Spec` can be checked as a property: the composition implements
  TaskHub under the identity mapping.
* **ServerRegistration** - `server-registrations.service.ts` with `register.js`,
  and creation and removal of servers.
* **AuthSession** - `auth.service.ts` and everything of `App.tsx` that touches a
  token. `saveTokens` is two steps, the state of the component and the awaited
  call of AsyncStorage; those calls may take effect in any order.
* **SpawnPlan** - the pure functions of `runner.js` that turn the template and
  the prompt into an argument vector. Text is a sequence of symbols; a reference
  definition (`Words`) finds the words by position instead of by scanning.
* **DaemonOutput** - extends AgentDaemon with the text a child prints. What
  AgentDaemon leaves open (is this chunk a prompt, is this failure one of
  capacity) follows from the text here. A regular expression of the detectors is
  a symbol together with the context it needs: an end of line, a word boundary.
  `out` and `mark` are history variables of the properties.
* **ServerPresence** - extends ServerRegistration: the credential goes through
  `upsertEnv` into `.env`, `config.js` reads it, sockets come and go, and the
  status updates of their handlers reach the database in any order. A line of
  `.env` is `plain` when the regular expression of `upsertEnv` matches it; dotenv
  reads others too (`export KEY=`, `KEY =`), which `upsertEnv` leaves alone.
* **AppFeed** - what the app shows against what the Hub has. A row is the number
  of its writes, so "older" and "newer" are numbers; the handlers of TaskHub are
  reduced to what they write and emit. The check of `decide` and its update are
  two steps, so two decisions may both get past the check. `excused` and `seen`
  are history variables that record why a row may be behind.
* **TaskHubProofs**, **AgentDaemonProofs**, **DaemonOutputProofs**,
  **CodeCallerProofs**, **ServerRegistrationProofs**, **ServerPresenceProofs**,
  **AuthSessionProofs**, **AppFeedProofs** - the theorems, see Proofs.
* **MC...** - constants for TLC: two servers of one user and one of another; a
  machine that names an existing approver and one that names an unknown one; the
  chunks a child prints; what a `.env` may hold.

Operators whose comment begins with "Mutant:" are not part of a specification.
Each is a plausible slip in the operator that follows it and is there to show
that a property notices it.

## Runs

| Run | Config | Shows |
|---|---|---|
| `hub` | TaskHub.cfg | two handlers in flight beside the two jobs, and one handler beside presence changes, an unsupported worker type, job retries and a restart of the Hub, with three servers of two users: `TimedOutServerRetired`, `NoQueuedTaskForgotten`, `NoOrphanDispatching`, `TypeOK`, `OwnerIsolation` and the whole inductive invariant `IInv` |
| `hub_live` | TaskHubLive.cfg | `QueuedTaskTried`: a queued task is taken up or its tries are used up; `SilentTaskReclaimed`; both under fairness of the Hub alone |
| `daemon` | DaemonOutput.cfg | `ResultEndsRun`, `NoResultWhileRunning`: buffering and replay keep the story of a run in order; `FreshPromptNoticed`, `RequestIsFresh`: a prompt printed since the last approval is noticed however it is cut into chunks, and nobody is asked twice about it; `FailoverJustified`, `CapacityNoticed`: a failure is classified by what the child last said; `PromptIsOneArgument`; the inductive invariant `OutputInv` |
| `system_approvals` | CodeCallerApprovals.cfg | `RejectionKills`: differing decisions of two devices still end in a child that is dead when the approval says REJECTED; the inductive invariant `DecisionInv` |
| `system_faults` | CodeCallerFaults.cfg | `Spec`: the Hub with a real daemon, lost connections and restarts of both implements TaskHub; `SystemInv`: the inductive invariants of both sides survive the composition |
| `presence` | Presence.cfg | `CredentialMatchesServer`, `CredentialHandedOnce`, `RegistrationEnds`: racing decisions, expiry and lost responses; `EnvHoldsCredential`: the credential is what the daemon loads, unless a later line of the key is in a form `upsertEnv` does not match; `OnlineOnceConnected`: a daemon that stays connected is ONLINE for good, whatever its old sockets still do; `OnlineMeansConnected`: ONLINE without a daemon comes only from a restart of the Hub or from a socket closed while its own heartbeat update was due; the inductive invariant `PresenceInv` |
| `auth` | Auth.cfg | `SessionSurvives`: refreshes of one token at the same time, of which more than one may complete, leave a good pair in memory; `BootEnds`; the inductive invariant `AuthInv` |
| `app_feed` | AppFeed.cfg | `BehindOnlyIfExcused`: the complete list of reasons for which the app may show an old row; `BusyClears`, `FeedReturns`; `ApprovalPushed`: the request that gets the approval row of its task is pushed; the types with racing decisions (`FeedTypeOK`) and the inductive invariant `FeedInv` |

Four runs show where the code disagrees with its own comments and documents
(violations are expected):

| Run | Property | Counterexample |
|---|---|---|
| `cancel_not_final` | `CancelledIsFinal` | cancel writes CANCELLED between the emission of `task:submit` and the job's write of RUNNING |
| `decision_lost` | `DecidedMeansAnswered` | a user decides while the daemon's new socket has not joined its room: the decision is stored, its delivery fails and is logged, and nobody sends it again, while the comment in `decide` relies on the daemon to reconcile |
| `queued_for_ever` | `ExhaustedTaskFails` | the only worker is gone when the last try of the job runs: `process` throws, BullMQ gives the job up, the task stays QUEUED, while the state machine of `worker-failover-watchdog.md` has QUEUED -> FAILED once all dispatch attempts are exhausted |
| `status_not_shown` | `StatusReflected` | a daemon asks for an approval: its task is written AWAITING_APPROVAL, only `approval:pending` is emitted, and an app that stays connected shows the old status for good, while NFR-2.2 wants every change of status in the client over the WebSocket |

Further behaviours of the models that a reader of the design documents may not
expect; they follow from the same steps and have no run of their own:

* A second request for approval of a task violates the unique `taskId`: the
  handler throws, and nothing is written, emitted or pushed. FR-6.1 speaks of a
  push for every pending approval; `ApprovalPushed` is about the first request.
* A prompt that a child prints while its approval is outstanding goes with the
  tail when the approval comes (`resume`), and nobody is asked about it.
  `FreshPromptNoticed` is about what was printed since the last approval.
* A `.env` whose last line of a key is `export API_KEY=...`, behind a plain one,
  keeps the old key after a registration (`Overridden`).
* Two decisions of one approval that both read PENDING both write it, the task
  and the app (`WriteDecision` of AppFeed, `DecideApproval` of TaskHub).
* A logout beside a refresh in flight is undone by its `saveTokens`; and a restart
  of the app before the awaited `setItem` boots with the token the Hub has revoked.
* The watchdog decides on the list it read at its start: an approval request
  that arrives after that does not hold it off.
* Two decisions on a registration request, or a decision and its expiry, that
  both read PENDING both write the status (`Decide...`, `Expire` of
  ServerRegistration); the credential delivered is good nevertheless.
* After a restart of the Hub rows stay ONLINE until their daemon has connected
  and disconnected again.
* A coloured capacity word is not recognised: `failure-detector.js` does not
  strip escape sequences, and they end in a letter, so there is no word boundary.
* A prompt that spells `{{input}}` or `{{cwd}}` has it replaced as well.
* A device that registers its push token n times is pushed n times: the token is
  encrypted with a fresh iv, so the upsert never finds the older row.
* The refresh button and the submit button come back when any operation ends,
  not when all have: `busy` is one flag.

### Bounds

One task is enough for the races of the Hub: handlers of different tasks share
only the worker, which the job steps of one task already contend for. Two
servers allow a failover, the third has another owner. Two slots are two
handlers in flight; `hub` needs three stimuli for "submit, then two racing
events". Its constraint (`RacesOrFaults`) explores two racing handlers without
faults, and one handler with presence changes and a restart, but not their
product. `MaxAttempts` is at least 2, so that a timed-out attempt can be
followed by another one, and is large enough in the liveness runs never to
block (the guards that bound a counter would otherwise look like a stuck
system). `JobTries` (5 in the code) is 1 or 2 and `MaxRequeues` (2) is 1: the
first and the last try, the first and the last requeue are all reached.
`MaxCrashes` is 1, as BullMQ hands a stalled job out only once again. `MaxWire`
1 keeps at most one event on the way to each daemon. `system_approvals` needs six
stimuli: submit, RUNNING, log, approval request and two decisions; it has one
server, as a task that moved is outside its property. In `auth` three
pairs let two requests that were answered 401 with the pair of the login both find
its token good and both get a pair of their own; with a failure or a restart,
one request at a time beside the boot effect and two pairs are explored
(`CalmOrFew`). `daemon` has one daemon and one task with
two runs; `TAIL_LIMIT` 5, two kept lines of four kept symbols and six symbols of
output let a prompt, a capacity word and enough other text meet every cut, and
templates of length 4 with prompts of length 2 have every neighbourhood of quote,
backslash, space and placeholder. `presence` has two sockets, the least number
that can overlap, and room for three servers: two racing approvals of one request
and a server added by hand; its `.env` files have a key exported, or repeated and
exported lines of the keys. Its constraint (`OnboardingOrConnecting`) explores
every race of the registrations as long as no daemon has been started, and the
sockets, restarts of the Hub and daemon starts beside one decision at a time and
no lost response. A constraint cuts the behaviours that leave it: the liveness
properties of `presence` and `auth` are checked of those that stay inside. `app_feed`
has two operations in flight, two writes to the task, two push registrations and
three acts of users, clocks and the network: a login and two more, enough for two
decisions of one approval at once, or for two registrations of a device. Deadlock is not checked: every run stops when its
stimuli are used up, and the real system is idle then as well.

### Fairness

`TaskHub!Fairness`: the event loop resumes handlers whose await is over, the
BullMQ worker keeps taking jobs and the repeated watchdog job, emitted events
leave the wire and the clock runs - weak fairness of each. Nothing is assumed of
users, daemons or presence, so `SilentTaskReclaimed` holds although no daemon
ever has to speak. `FairRegistration`: `register.js` polls, the Hub answers, the
request's expiry time comes; the user need not do anything. `FairAuth`: the Hub
answers and the app goes on with what it has begun; fetches may fail.
`FairPresence`: handlers and updates of the Hub end and a connected daemon keeps
sending heartbeats (its timer); nobody has to start a daemon and connections may
break. `FeedSpec`: the Hub goes on with what it has begun, every request of the
app ends (`HUB_REQUEST_TIMEOUT_MS` if nothing else), socket.io reconnects and
delivers; nobody presses a button.

## Proofs

Every theorem holds for every value of the constants: any number of tasks,
servers, owners, handlers, jobs, tries, restarts, sockets, callers and tokens, any
set of chunks and any limits. The assumptions are the named ASSUMEs of the
modules: bounds and limits are natural numbers (`JobTries`, `MaxRequeues`,
`TAIL_LIMIT`, `KeptLines`, `KeptSymbols` positive), the ranking of servers is
injective, chunks are non-empty texts, a `.env` is a sequence of lines, and a
daemon may report RUNNING (`DaemonsReport`: it is the first event of
`TaskRunner.start`). Each inductive invariant is an invariant of a run as well
(`RegistrationInv` as a conjunct of `PresenceInv`, `DaemonInv` of `OutputInv`).

| Module | Theorems |
|---|---|
| TaskHubProofs | `Invariance` (`IInv`), `TypeCorrect`, `OwnersIsolated`, `TimedOutServersRetired`, `NoneForgotten` (`NoQueuedTaskForgotten`), `NoOrphans` (`NoOrphanDispatching`) |
| AgentDaemonProofs | `DaemonInvariance` (`DaemonInv`), `DaemonTypeCorrect`, `ResultsEndRuns`, `NoResultsWhileRunning` |
| DaemonOutputProofs | `OutputImplementsDaemon` (`OutputSpec => DaemonSpec`), `OutputInvariance` (`OutputInv`), `FreshPromptsNoticed`, `RequestsAreFresh`, `FailoversJustified`, `CapacitiesNoticed`, `CommandLinesAreRaw` (`PlansAreRaw`), `PromptsAreOneArgument` |
| CodeCallerProofs | `SystemInvariance` (`SystemInv`), `SystemImplementsHub` (`System => Spec`), `SystemKeepsHubPromises`, `SystemHearsRunsInOrder`, `DecisionInvariance` (`DecisionInv`), `RejectionsKill` (`RejectionKills`) |
| ServerRegistrationProofs | `RegistrationInvariance` (`RegistrationInv`), `RegistrationTypeCorrect`, `CredentialsMatch`, `CredentialsHandedOnce` |
| ServerPresenceProofs | `PresenceInvariance` (`PresenceInv`), `OnlineIsConnected`, `CredentialsSurviveCrashes`, `EnvInvariance`, `PresenceTypes`, `EnvHoldsTheCredential` |
| AuthSessionProofs | `AuthInvariance` (`AuthInv`), `AuthTypeCorrect`, `SessionsSurvive` |
| AppFeedProofs | `FeedInvariance` (`FeedInv`), `FeedTypes`, `FeedIsBehindOnlyIfExcused` |

There is one lemma per action; steps that leave most variables alone share frame
lemmas (`HandlerStep`, `OneDaemon`, `FlagStep`...).

**The Hub.** `OwnerIsolation` and `TimedOutServerRetired` are not inductive: what
a handler read before an await decides what it does after it. `IInv` adds what is
remembered: the server in `call[c]` belongs to the task's owner (`CallOK`); the
candidates of the dispatch job belong to the owner and none of them has a
TIMED_OUT attempt (`ProcOK`), which stays true because the watchdog, the only
writer of TIMED_OUT, does not run while the job does (`DogOK`) and works on the
latest attempts only; the job being processed is still in the queue with a try
left; and nothing refers to a task that does not exist. `NoOrphanDispatching` is
inductive relative to `IInv`: only the dispatch job writes DISPATCHING, and it
settles the row before it lets go of it. `NoQueuedTaskForgotten` is a property of
steps: the last try of a job that throws does leave a QUEUED task with no job
that will run (see `queued_for_ever`), and so may a restart; the theorem says that
no other step does. It needs `NoLateQueued` beside `IInv`: a handler that is going
to write a status never writes QUEUED, except in the step before it adds the job.

**The daemon.** `ResultEndsRun` speaks of outbox and buffer together. It is
inductive only once the buffer is known to be empty while the socket counts as
connected, so that the buffer is always newer than what was sent, and once every
pending event is known to be about a run not later than the runner in the map
(`Told`).

**The output.** `OutputInv` says what the code keeps without saying it: the tail
is the last `TAIL_LIMIT` symbols of what was printed since the last approval,
although it is cut at every chunk (`TextOK`), and a runner that has not asked has
no prompt in it. From it `FreshPromptNoticed` follows, which is about the output
since the last approval only. The rest is about the detectors: a prompt in the end of a text
is a prompt in the text (`detectEnd`), and a position has as many lines behind it
in a text as in the end of it (`LinesAfterEnd`, a bijection). Every step is one of
AgentDaemon, so the theorems about AgentDaemon apply.

**The command line.** `tokenize` remembers two flags, the reference definition
looks at positions: after n symbols the flags say whether symbol n + 1 is escaped
and quoted, and the tokens and the word begun are as many as the words that begin
up to n (`ScanOK`). A symbol is escaped if the run of backslashes before it is
odd, which each backslash turns over (`EscapedNext`). Induction over a text is the
choice of a least position at which a claim fails (`LeastOf`, from the library's
theorem on well-founded relations); for that `tokenize`, `Put` and `NonBlank` are
written as recursive functions and not with `FoldLeft` or `SelectSeq`.

**The system.** Hub and daemons share only `wire`, so the two invariants are
preserved side by side; with them every step of the composition is a step of
TaskHub or a stutter. `SystemImplementsHub` carries the theorems about TaskHub
over to the system.

**Decisions.** `RejectionKills` speaks of calm behaviours (nothing was lost, no
presence changed, no restart) and of quiet states of tasks dispatched once.
`DecisionInv` says for every calm state how a decision finds the child: the
preferred server is ONLINE and comes first, so the server of the task, of its
attempt and of every decision being written is one (`ServerKnown`); the task is
sent once and nothing of it has begun before, so there is no second child
(`SentOnce`); and a rejection that was written is on the wire or with a handler
until the child is killed (`Obeyed`), even when the other device's approval is
written or sent in between. It is inductive relative to `SystemInv`.

**Registration and presence.** What `getResult` has read must stay good until the
answer is sent: `RegistrationInv` ties the key of a row to the user named by the
machine and says that no second request holds it. `OnlineMeansConnected` talks of
quiet states only; `OnlineExplained` says for every state why a server shows
ONLINE (a socket in the room, or one whose `markOffline` is under way), and
`SocketOK` what the handlers of one socket may still have to do. `upsertEnv` is
shown to leave the new value in every plain line of an updated key, and in one
line at least, for files of any length (`UpsertHolds`, by induction as above); so
what `config.js` reads is the credential unless the last line of the key is not
plain (`Overridden`), and the key of every socket has its type.

**The session.** `SessionSurvives` needs to know where a pair is between its
issue and its save. `AuthInv` follows it (`Unsaved`, `Replacing`): while nothing
has failed, a revoked token in memory is being replaced by the one call that
revoked it, and nobody else can have the new pair. It says nothing of the stored
token, which lags behind the one in memory and may be overtaken. `AuthTypeOK` is
proved with failures and restarts.

**The feed.** `BehindOnlyIfExcused` is not inductive: it speaks of what the app
shows, but whether a late, older version is an excuse depends on what the app was
handed before. `FeedInv` keeps the two apart: what the app was handed
(`Announced`: the newest version is carried by a handler, an event or the answer of
createTask, or was seen, or is excused) and what it shows
(`ShownOrComing`), and says that nothing in flight is newer than the Hub
(`NothingNewer`) and what each operation is about (`OpOK`). `DecidingOK` says what a
decision finds when it writes an await after its check: the approval is PENDING or
was decided by another one, so the row gets no other state (`FeedTypes`).

Only model-checked are the liveness properties (`QueuedTaskTried`,
`SilentTaskReclaimed`, `RegistrationEnds`, `OnlineOnceConnected`, `BootEnds`,
`BusyClears`, `FeedReturns`, `ApprovalPushed`): the prover has neither fairness nor
ENABLED.

## What is not modelled

* Contents: log text, results, payloads, notification wording. The lost update of
  the `logs` column is therefore listed as a hazard without a property.
* Errors of the database or of Redis inside a handler.
* Several Hub instances, or a worker concurrency above 1: the code configures
  neither.
* Removal of a server that has tasks (the cascade), in TaskHub. Heartbeats in
  TaskHub and CodeCaller: there `Server.status` may be written to anything at any
  time, which includes all that ServerPresence reaches.
* The command line with `useShell`: its quoting is that of the shell.
* In AppFeed: the list of servers and the selected one, pushes about results,
  tabs and screens; the requests of one `loadAll` are answered in one step, as no
  property spans two lists; the second URL of `fetchHub`: a request that timed out
  ends, and its repetition is like one more press of the button (AuthSession has the
  repetition of a refresh).
* The throw of `buildSpawnPlan` on a command template without a token has no
  action of its own: it is not caught and ends the daemon, as `shutdown` does.
* FCM, the cipher of push tokens, passwords and account creation.
* Screens and styles, the mock Hub for development, deployment scripts, reports.

## Plan

1. Done: TaskHub, AgentDaemon, CodeCaller, ServerRegistration, AuthSession,
   SpawnPlan, DaemonOutput, ServerPresence, AppFeed; the proofs of all their safety
   properties.
2. Next: an abstract specification of a task's life that TaskHub implements; the
   cascade of a removed server; the `logs` column, whose lost update is a hazard
   without a property.
