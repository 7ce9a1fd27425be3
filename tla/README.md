# A verification project for ydbops

`ydbops` restarts the nodes of a YDB cluster one after another. It asks the
cluster management system (CMS) for permission to take each node, restarts the
nodes it was given, a few at a time, and gives them back. What can go wrong is
rarely in one function: it is in the order in which goroutines, CMS answers,
signals and retries meet. This directory holds TLA+ modules that model that
core and what surrounds it (the calls, the commands of an operator, the
start-up), TLC configurations that check it on small instances, and proofs of
the safety properties for every value of the constants.

## Inventory

| part (under `src/`) | state | operations | hard behaviour | what makes it correct |
|---|---|---|---|---|
| **Restart batch**: `pkg/rolling/restart_handler.go`, `processActionGroupStates`, `dispatchAll`, `dispatchByTenant`, `handleRestartStatus` in `pkg/rolling/rolling.go` | handlers, workers, unbuffered queue, status channel, tenant semaphore, wait groups, `completedActions`, `retriesMadeForNode`, `unreportedButFinishedActionIds` | dispatch, push, restart, send status, receive status, stop, cancel | every interleaving of its goroutines with a signal, random `select`, a full channel | limits kept, nothing started after a signal, nobody left behind, only justified completions, comes back |
| **Rolling loop**: `Execute`, `DoRestart`, `cmsWaitingLoop`, `cleanupRollingRestart` | the task, the batch's results, the retry counters | prepare, clean up, create, process, complete, wait, refresh, check, clean up on exit | failed, lost and refused calls, kill and run again, a signal anywhere | a node is restarted only under its lock, once; success is only claimed when done; tasks do not pile up |
| **CMS client**: `pkg/client/cms` | none but the connection | create, get, refresh, list, drop, complete | an answer lost after the CMS acted; statuses nobody looks at | a success means the CMS did it |
| **Retry wrapper**: `pkg/utils/retries.go` | attempt counter, pauses | run an operation up to the retry number | at-least-once calls, a retry of what was done | bounded attempts, an outage is survived, nothing is done twice but after an outage |
| **Discovery client and connections**: `pkg/client/discovery`, `pkg/client/connectionsfactory` | open connections | `WhoAmI`, `Create` | a connection nobody closes, a call nobody retries | connections stay few, every call returns |
| **Authentication and profiles**: `pkg/options/auth.go`, `pkg/profile`, `pkg/client/auth` | the credentials provider and its token | choose a type, read the secret, log in, get a token | a mixture of options, profile and environment; a token that expires | what the command line names is used |
| **Version check**: `tryDetectCompatibilityIssues` in `rolling.go` | `knownVersions` | accumulate and compare | nodes in any order, listings with gaps, a version no node runs any more | a skipped version is noticed, an allowed upgrade is not stopped |
| **Filters**: `pkg/rolling/restarters` | cluster info | include, exclude, by version, start time, tenant | boundary of the id ranges, missing values | storage and tenant phases partition the nodes |
| **Restarters**: ssh, kubernetes, payload | map from hosts to pods; external processes | `Filter`, `RestartNode` | a list of pods read once, looked up later | the pod deleted is the node's own |
| **Options**: `pkg/rolling/options.go` | the flags | `Validate`, `GetRestartDuration` | zero and negative values | accepted values make the rest work |
| **Maintenance commands**: `cmd/maintenance`, `pkg/client/cms/maintenance.go` | tasks of the user in the CMS | create, list, refresh, complete, drop | another invocation at the same time | nothing goes down without a lock; a command does what it names |
| **Restart and run commands**: `cmd/restart`, `cmd/run` | phases | storage phase, then tenant phase | a signal between the phases | a signal ends the command |
| Command line wiring, printing, collections | - | pure input and output | - | - |

The parts interact so: a command builds restarters and calls `Execute`, once
per phase. `Execute` starts `DoRestart`, and with `--cleanup-on-exit` a
goroutine that turns SIGINT or SIGTERM into a cancelled context. `DoRestart`
talks to the CMS through the client and the retry wrapper, and hands each set of
PERFORMED actions to `processActionGroupStates`. That call starts the
goroutines of a batch, which share `completedActions` and the two maps of the
state with the receiver under a mutex, and with `CompleteAction` without one;
it waits for all of them before it reports to the CMS.

`PROJECT.json` lists every component with its status and every hazard at its
line.

## Modules

- **`Batch`**: what a call of `processActionGroupStates` promises to the loop:
  which nodes it starts (`Start`, with the two limits), what a restart answers
  (`Finish`), how a status is counted (`Record`), when control comes back
  (`Return`). No goroutines.
- **`RestartBatch`**: the goroutines that keep this promise.
- **`Rolling`**: the loop, the cleanup, the CMS and the runs of the
  operator. It takes its batch actions from `Batch` (`B == INSTANCE Batch`), so
  what `RestartBatch` is shown to implement is what `Rolling` is built on.
- **`Phase`**: what one call of `Execute` promises to the command: which nodes it
  may start (of its target, none it is done with, none after a signal), when it
  returns and with what. No tasks, no batches, no retries. `Rolling` is shown to implement it.
- **`Call`**: what one call of a client promises: it returns once, "ok" means that the
  service acted (or that a drop was answered at all), an error leaves that open. These
  are the outcomes `Rolling` and `Maintenance` give a call in one step.
- **`Session`**: the calls of one restart attempt by attempt: token, connection,
  request, answer, pause, retry; shown to implement `Call`. It EXTENDS **`Startup`** (what
  options, profile file and environment make of an invocation) and instantiates
  **`Versions`** (`knownVersions` and its check, and what its help, its message
  and its test say of it). The nodes of the cluster are upgraded while the calls go on.
- **`Maintenance`**: several rolling restarts and an operator's maintenance
  commands on one CMS, with overlapping scopes (nodes and hosts). It uses
  `Filters` for `maintenance create` and **`Restarters`** (which pod is deleted for a
  node) for what goes down.
- **`Filters`**: which nodes the restarters select, as operators: the arguments
  of `--hosts` and `--exclude-hosts` with ids, ranges and names, versions,
  start times, tenants, data centers, pods; and a reference definition of what is asked
  for, node by node (`AskedStorage`, `AskedTenant`), made from the help of the
  options and the changelog. Where these contradict the code, the nodes concerned
  are `Disputed`.
- **`Command`**: one invocation after another with the same options: `Validate`, the
  storage phase, the tenant phase, each with a filter and a context of its own. It takes
  the steps of a phase from `Phase` (`P == INSTANCE Phase`), so what `Rolling` is shown to
  implement is what `Command` is built on.
- **`MCRestartBatch`**, **`MCRolling`**, **`MCSession`**, **`MCMaintenance`**,
  **`MCCommand`**: instances for TLC.
- **`RestartBatchProofs`** and **`BatchProofs`** (which EXTENDS it): theorems about
  `RestartBatch`; **`RollingProofs`**, **`SessionProofs`**, **`MaintenanceProofs`**,
  **`CommandProofs`**, **`FiltersProofs`**: theorems about the module each is named
  after; **`NatLemmas`**: least and greatest elements, induction, powers of two and
  rounded quotients, for the proofs.

How they compose:

```
Command --phase--> Phase <==implements== Rolling --batch--> Batch <==implements== RestartBatch
   |                                        |
 Filters                       (a call's outcomes)  Call <==implements== Session
   |                                        |                           /      \
Maintenance --------------------------------+                      Startup    Versions
   |
Restarters
```

`Rolling` takes its batch actions from `Batch`, and `Command` the steps of its
phases from `Phase`, by INSTANCE. Both contracts are proved to be implemented, so
there is a chain from the goroutines of a batch to the command of the operator: a
step of a worker is a step of `Batch` or a stutter, a step of the loop with such
batches is a step of `Phase` or a stutter, and `Command` composes such phases. `Call` is what a
call of `Rolling` and `Maintenance` may come to; their call steps are written
out, with what the call does to the tasks.

### RestartBatch and the code

| state | code |
|---|---|
| `main` | the caller: dispatching, in `stop`/`wg.Wait`, at `<-done`, returned |
| `handler[h]` | the pusher of `restartHandler` `h`: not spawned, between pushes, parked in `push`'s select, queue closed, stopped. `dispatchAll`'s handler is named `None` |
| `toPush` | actions not handed to a worker yet |
| `sem` | tokens in the `sem` channel of `dispatchByTenant` |
| `worker[w]` | not started, at the top of the loop, parked in its select, in `RestartNode`, before the send, in the delay, returned |
| `job`, `outcome` | the action taken last, what `RestartNode` said |
| `statusCh` | the content of the buffered channel |
| `receiver`, `taken` | the goroutine of `handleRestartStatus` and its loop variable |
| `completed`, `unreported`, `retries` | the maps of the state |
| `cancelled` | `ctx.Done()` is closed |

A goroutine in a `select` either finds a case ready or parks. A send on the
unbuffered queue is one step (`Dequeue`) that needs one side parked and the
other at its select. A cancellation wakes everything that is parked in the
same step (`Cancel`): a goroutine parked in a select takes the Done case, since
no other was ready when it parked and none can become ready before. A goroutine that is not
parked chooses at random between its ready cases, so `Exit` and `Dequeue`,
`SpawnTenant` and `SpawnsOver`, `Receive` and `ReceiverExits` may all be
enabled together.

### Rolling and the code

`pc` names the statement `DoRestart` stands at; `run`, `target`, `listed`,
`permitted` are the locals of the loop, `tasks` and `action` are the CMS. Each
RPC, with all its retries, is one action with its possible outcomes:

| fault | meaning |
|---|---|
| `error` | the call failed and the CMS did nothing |
| `lost` | the CMS acted and the call failed |
| `refused` | the CMS answered with an unsuccessful status |
| `incompatible` | the version check finds incompatible versions |

`Kill` is a death of the process between any two steps (or SIGTERM without
`--cleanup-on-exit`), `RunAgain` is the operator's next invocation with empty
client state and whatever the CMS still holds. `Permit` is the CMS's own step:
it grants a pending action when no other task holds the node; it may also grant some
in its answer to `CreateMaintenanceTask` (`AddTask(now)`), which the loop
processes at once, before its first wait. This part is
external: it is modelled from the calls and from the mock server of the
repository's tests.

### Command and the code

| state | code |
|---|---|
| `pc`, `phase` | the statement of `Run` and of `DoRestart`; `run` counts invocations |
| `opts` | `RestartOptions` after `Validate`, as far as the filters read them |
| `started`, `version`, `up` | what the CMS answers to `Nodes` |
| `target`, `inflight`, `done` | `nodesToRestart`, nodes in `RestartNode` or whose failure is not counted yet, nodes restarted well or given up |
| `cancelled` | the context of the phase's `Execute` is done |
| `watching` | some `Execute` of the process has called `signal.Notify` |
| `due`, `disputed`, `missed`, `touched`, `before`, `signalled` | history, read by properties only: what was asked for as the command began, the nodes on which help and code differ, ... |

`Execute` makes a new context for each phase, and the goroutine of a phase
that is over stays behind and takes the next signal: hence `Signal` cancels
only while a phase is in progress. `Breaks` is a restart that fails, after
which the node may have come up anew all the same (a lost ssh session); `Kill`
leaves the same open for every node in flight, and `Uncounted` (a signal ends the
receiver before it has counted every failure) for those that failed after the signal. Restarting the pods of a node, the number of
concurrent restarts and the CMS calls are not part of this module.

### Session and the code

| state | code |
|---|---|
| `pc` | before `PopulateProfileDefaultsAndValidate`; between two calls of `DoRestart`; in `ContextWithAuth`, at the connection, at the request sent, in the pause of `WrapWithRetries`; ended |
| `given` | options, profile, environment (a record of `Startup`); forgotten when the calls begin |
| `auth`, `dial`, `token` | `Creds.Type`, what `Create` of the connections factory needs, what the provider holds |
| `call`, `attempt`, `waited`, `result` | the call under way, the loop variable and the slept seconds of `WrapWithRetries`, its error |
| `reply` | what the service or the network answers |
| `conns` | `grpc.ClientConn`s that are open |
| `uid` | `restartTaskUID`, made where `prepareState` ends (`Begin("list")`) and used by each attempt of the creation (`SentAgain`) |
| `upgrade`, `running` | external: the versions before and after, and those the nodes run; nodes come up between a batch and its `CompleteAction` |
| `known`, `listed` | `knownVersions`, the versions that the check's `Nodes` call shows: a node that is coming up is missing or has none |
| `acted`, `swallowed`, `created`, `before` | history: the service acted on this call, an outage hid its answer, uids of created tasks, the first version of a node that a check showed |

The order of the calls (`Following`) is that of `DoRestart` and its loop; which
of the possible next calls comes is left open where the answer's content
decides it. `Service` is external: it acts before it answers, or it never acts,
since the requests are synchronous operations.

### Maintenance and the code

| state | code |
|---|---|
| `tasks`, `action` | CMS: the user's tasks and the status of each scope's action |
| `pc[r]` | a restart: `MaintenanceTasks` (`list`, `get`), the drops, the loop, a batch, the end |
| `previous` | `previousTasks` still to be dropped |
| `listed`, `permitted`, `done` | the actions of the last answer, those PERFORMED, `completedActions` |
| `command` | an operator's `maintenance complete` between its get and its completion |
| `busy` | scopes that are worked on under each task: restarted, or by the operator whom `refresh` showed PERFORMED |
| `asked`, `robbed`, `older` | history: options of each `create`, tasks dropped or completed by somebody else, tasks a restart had listed |

A scope is a node or a whole host, and `Cover` says which nodes a lock on it
covers. In Kubernetes what goes down is the node of the pod that
`Restarters` finds (`Deleted`), not necessarily the node that was meant.
`Permit` is the CMS's own step again, and the answer to a restart's creation may
already permit what nobody else holds.

## Runs

| run | instance | question | result |
|---|---|---|---|
| `batch_all` | a storage node and two nodes of a tenant, 2 workers, any delay | do completions and the contract, limits included, hold under every interleaving with a signal? | pass, 1.5 million states |
| `batch_tenants` | three tenants, 2 at a time, a delay the receiver keeps up with | is the tenant limit kept when one handler replaces the next, does no worker wait for the channel, do the goroutines never all wait for each other, does the call return? | pass, 178 thousand states |
| `batch_stuck` | as `batch_all` | do the handlers exit with the context, as a comment says? | violated: finding 1 |
| `rolling_runs` | two runs, three nodes, a foreign task, two errors, losses and incompatibilities each | lock held, no repeat beyond the attempts, success, release, cleanup; does the loop keep the promise of `Phase`? | pass, 1.3 million states |
| `rolling_ends` | two runs, two nodes, every fault once | does a run end? | pass, 414 thousand states |
| `rolling_refused` | one refused drop | is a cleanup that is logged as successful one? | violated: finding 2 |
| `session_calls` | each of 17,735 starting configurations, five attempts, two nodes and six upgrades of them | does the command line decide, do the calls return, is anything done twice, do connections pile up, does the version check stop the right upgrades, do the attempts implement `Call`? | pass, 880 thousand states |
| `session_majors` | an upgrade from 23-4 to 25-1 | do nodes that go on after a check differ by one major at most? | violated: finding 4 |
| `maintenance_tasks` | two restarts, one task of `maintenance create`, two nodes on one host and one on another, in pods | is everything that goes down under a lock, are older tasks gone, do the commands do what they name, do restarts end? | pass, 691 thousand states |
| `command_runs` | two invocations, two storage and two dynamic nodes, twenty-two sets of options, two nodes that go down | does a command restart what was asked for, storage first, and can it be given again? | pass, 2.2 million states |
| `command_signal` | one invocation, the options of the phases | does a signal stop the command? | violated: finding 3 |
| `command_started` | start times the CMS does not give | are such nodes left out? | violated: finding 5 |

`batch_all` and `batch_stuck` do not check for deadlock: with no delay between restarts the
batch really can stop (finding 1). All other runs check it.

### Bounds

- Three nodes, two workers: a worker takes a second action while another is
  still busy, both selects race, and a handler is replaced by the next in
  `batch_tenants` (three tenants, two tokens). `batch_all` has
  `--tenants-inflight 1` with a storage node, the batch that ignores it.
- `InitialRetries` is the number of failed attempts a node brings from earlier
  batches; with `RetryNumber = 2` the values 0 and 1 are just below and at the last attempt.
- `MaxRuns = 2`: the second run meets what the first left in the CMS.
- `MaxFaults`: two faults of a kind are enough for a failed report, followed by a failed
  refresh or a second failed report of the same action.
- `CMSQueryInterval` 0 lets the loop refresh once more after the signal
  (`rolling_runs`), 10 does not (`rolling_ends`).
- `AllOptions` has each way to select and to exclude at least once, alone and in
  the combinations that the code treats specially: ids mixed with names, ranges,
  a pod and a data center, a tenant nobody has, options `Validate` refuses, a static node at the
  bound, exclusions by range and by pod. The theorems of `CommandProofs` cover every combination.
- In `Starts`, 7 is after the time of `--started` (5) and `None` is a missing
  start time; a restarted node has 9.
- `MaxAttempts = 5` is `defaultRetryCount`: all pauses (1, 2, 4 and 8 seconds)
  happen. `MaxConns` and `MaxWait` cut counters just above what the properties
  allow, so that a violation is still seen.
- `SomeGivens` has every mixture of credentials from options, profile and four variables
  (empty ones too), unreadable files, the states of a profile file, the
  endpoints with their schemes and ports, and boundary numbers of a restart. One call is
  one path from each; nothing but the credentials' type and the kind of endpoint is kept once
  the calls begin, so the calls are explored once for each of these.
- `SomeUpgrades`: to the next minor, past one, to the next major, from two minors to a
  major and to a third minor, and from a version that cannot be read. With two nodes
  every order of coming back, every gap in a listing and every check that is
  left out occurs; several checks follow one another, so `known` accumulates. These
  upgrades are made under one kind of credentials: the others restart without an upgrade.
- `maintenance_tasks`: two restarts drop each other's tasks and the operator's; one uid is
  enough, since a task of the operator may be dropped and completed but never comes back;
  two nodes share a host, so that a host's lock, a node's lock and two pods overlap.
- Symmetry is used for `rolling_runs` only, where the nodes are alike and only
  safety is checked.

### Fairness

`RestartBatch!Fairness` says that every goroutine keeps running and that
`RestartNode` comes back. The Go scheduler gives the first. The second is an
assumption about the ssh command, the payload or the Kubernetes API: the code sets no
time-out of its own there, and a batch whose restart never answers does not return.
Fairness is weak and per goroutine: nothing is
assumed about what a `select` prefers. `Rolling!FairSpec` lets the client run
and the CMS permit what it can. `Session!FairSpec` adds that every request is answered or its connection fails
(`WF_vars(Service)`): the code gives the calls no deadline of the client's own
(`context.TODO()`), so this has to come from gRPC and from the timeout that the request carries.
`Maintenance!FairSpec` lets each restart run and the CMS perform each lock it
can; the operator need not do anything. Signals, kills and faults are never assumed.

`DelayOutlastsReceiver` says that `--delay-between-restarts` (a second by
default) is longer than the receiver needs to take a status that was just
sent. It is a premise of `SendNeverBlocks`, `SomebodyGoesOn` and `Returns`, and is `FALSE` in
`batch_all` and `batch_stuck`.

## Mutants

Each property of a passing run has a mutant in the module: a definition next to
the one it changes, headed by a comment "Mutant:", such as a worker that is not waited for (`WorkersIgnored`), an
attempt not counted (`FinishedLate`) or a completion forgotten when its report
failed (`CompleteForgets`). `PROJECT.json` names the property that
catches each.

## Findings

1. `handleRestartStatus` explains that after a cancellation "restartHandler
   will exit as well". The send on the status channel is outside any `select`.
   With a short delay the channel can be full when the receiver leaves; a
   worker that finishes afterwards waits for room for ever, and with it
   `wg.Wait`, `Execute` and the cleanup on exit. (`batch_stuck`.)
2. `DropMaintenanceTask` gives no result to unmarshal, so
   `executeMaintenanceOperation` returns before it compares the status with
   SUCCESS: a drop the CMS refused is logged as "Successfully cleaned up
   maintenance tasks". (`rolling_refused`.)

3. A signal that comes while the storage phase does not wait for anything any
   more (no node passes its filter, its last batch completes the task, or it
   has returned) ends nothing: `Run` starts the tenant phase with a fresh context. The
   changelog says of `--cleanup-on-exit` that ydbops will "safely finish current
   CMS batch and exit". (`command_signal`.)
4. "Nodes must not differ by more than one major", says the check's message, and
   "nodes within one cluster can differ by at most one major release" the help of
   `--suppress-compat-check`. The code compares no majors; an older one need only be
   known with a single minor. A restart from 23-4 to 25-1 passes every check. (`session_majors`.)
5. The changelog says that nodes without a start time are refused by
   `--started`. Their time becomes the Unix epoch, which `IsZero` does not
   recognise and which is before every timestamp: `--started "<T"` selects
   them. (`command_started`.)

Also visible in the models, without a run of their own:

- If the answer to the last `CompleteAction` is lost, or somebody else drops the
  task, the CMS has forgotten it, every refresh fails and the loop ends only by a signal
  (hence `Harmless` in `Terminates`, `robbed` in `RestartEnds`).
- A static node whose id equals `--max-static-node-id` belongs to neither phase
  although the help says "or less" (`targeting.go:94`); `--exclude-hosts` says "Do not
  restart these hosts, even if they are explicitly specified in --hosts", but
  ranges and pod names, which `--hosts` takes, exclude nothing (`primitives.go:137`); the
  sign `~=` is accepted by `--version` and selects nothing. With finding 5 these are the
  cases of `Disputed`.
- Ids mixed with names in `--hosts` are silently ignored.
- `maintenance create --hosts 5-3`: an empty range gives no ids, `nodeIdsToNodes`
  has taken the hosts out of the filter parameters, and a filter without any inclusion
  selects every node: the task asks for the whole cluster. `Addressed` in
  `MaintenanceProofs` is the premise that excludes it.
- `maintenance create` with host names ignores every other option, `--exclude-hosts` included.
- A password or token file of the profile is preferred to the environment, but
  `SA_KEY_FILE` beats the option (hence the exception in `FlagDecides`).
  `YDB_USER` is looked up to choose the type and never becomes the user;
  `USE_METADATA_CREDENTIALS`, which the help names, is never read.
- `--ca-file` is accepted with a `grpc://` endpoint if the text has "grpcs" anywhere.
- A test is titled "Disallow more than 2 major-minor combinations in the cluster"; 24-1 beside
  25-1 and 25-2 passes, since only the minors of older majors must be single.
- `knownVersions` keeps versions that no node runs any more: nodes from 24-1 and 24-2 that
  all go to 24-3 may be stopped when the last node of 24-1 is gone already. The help speaks of
  "comparing before\after", so `UpgradeNotStopped` promises nothing for such an upgrade.
- "Must be positive" accepts 0: `--restart-retry-number 0` repeats a failing restart for ever.
- With `--tenants-inflight` the requested lock may be shorter than the pass
  (`LockOutlastsPass` has the premise that nodes are not grouped by tenants).
- A static login that is denied is kept for the whole invocation; a token that expires is not renewed.
- ssh restarts the systemd unit of a host, whatever nodes run under it.

## Proofs

`RestartBatchProofs` is about `Spec` of `RestartBatch` for every finite set of
nodes and tenants, every limit (0 included) and every retry number. The only
assumption is `RestartBatchAssumption`. The invariant is built in layers, each
inductive given those before it:

1. `Types`: the types.
2. `Gates`: how a worker's place depends on its handler's and a handler's on
   the caller's. A worker is off exactly while its handler is new; the handler
   stops only after its workers; a parked goroutine means a context that is
   alive; when the caller is past the dispatch every handler is new or stopped.
3. `Counts`: the semaphore equals the number of handlers that hold a token.
   `InflightLimits` alone is not inductive: a limit on the nodes being
   restarted says nothing about a token freed too early.
4. `Jobs`: a worker's job is of its handler's group and no other worker's.
5. `Owned`, `ActivesHold`, `FewActives`, under `DelayOutlastsReceiver`: a
   status in the channel belongs to a worker that waits out its delay, or that
   stopped with the context; the handlers of these workers are never more than
   the tokens. After a signal a handler may stop, free its token and leave
   statuses behind while another tenant is still spawned (both cases of that
   `select` may be ready), so the bound cannot be read off the semaphore
   any more: it holds because the set of active handlers only shrinks then.

| theorem | says | rests on |
|---|---|---|
| `TypeCorrect` | `TypeOK`, with the bounds of the semaphore and the channel | 1, 3 |
| `NoStragglersSafe` | `NoStragglers` | 1, 2 |
| `NoStartAfterCancelSafe` | `NoStartAfterCancel` | 1, 2 |
| `InflightLimitsSafe` | `InflightLimits` | 1 to 4 |
| `SendNeverBlocksSafe` | `SendNeverBlocks` if the delay outlasts the receiver | 1 to 5 |

`SendNeverBlocks` counts: the statuses in the channel and the one to be sent map
injectively to the slots of the active handlers, which are not more than the
capacity; the new one is not among the old ones, so there is room.

`BatchProofs` adds four layers. `Statuses`: a node's outcome is
none until its restart ends, and from then its status is with its worker or in the channel until the
receiver takes it. `Tally`: the receiver has counted exactly the nodes whose status
it has taken (`Received`), and it leaves early only for a signal. `Verdicts`: what it has
made of each. `Served`: while the context lives no action is dropped, no tenant passed over, and no
worker leaves before its queue is closed. With the first three every step is classified by what it does to the statuses (`Quiet` steps
are stutters of the contract or hand control back).

| theorem | says | rests on |
|---|---|---|
| `CompletedJustifiedSafe` | `CompletedJustified` | 1, 2, 4, `Tally`, `Verdicts` |
| `ImplementsBatchSafe` | `Spec => ImplementsBatch`: `RestartBatch` implements `Batch` | the same, and `InflightLimits` for the contract's `Start` |
| `SomebodyGoesOnSafe` | `SomebodyGoesOn` if the delay outlasts the receiver and there is a worker | 1 to 5, `Tally`, `Served` |
| `OnlyForwardSafe` | every step but the signal hands over an action or moves a goroutine on, nobody back | 1, 2, `Tally` |

The last two are what can be proved of `Returns` without a temporal argument.
`SomebodyGoesOn` lists where each goroutine waits for another and says that they do not all wait:
an unfinished handler's workers have a status on its way to a receiver that is
there (`HandlerIsServed`), a full semaphore means such a handler, and a receiver that waits
when all handlers are over would have counted everything (`NothingLeft`). `OnlyForward` orders the
places of each goroutine: a step never moves anybody back unless it takes an
action from `toPush`, and nothing ever comes back there. So a batch can neither stop nor go on for ever.
What is left to TLC is that weak fairness turns "somebody can go on" into "somebody goes on".
Without a worker (`--nodes-inflight 0`) `SomebodyGoesOn` is false: the pusher waits until a
signal comes; with a short delay it is false too (finding 1).

`RollingProofs` is about every set of nodes, every number of runs and retries
and any faults. Its inductive invariant `IInv` has, besides `TypeOK`: `Clean` (a
run has no task and no history before it creates one), `TasksOK` (no task of a run to
come), `BatchOK` (what a batch is made of is held by the run's task, and outside a
batch nothing is being restarted), `NodesOK` (attempts and outcomes of each node), `ReportsOK` (a
node that the run is done with and whose action is still there is in the reports to
come), `TargetOK` (whatever is not in the task any more is done). The properties are not inductive: `LockHeld` needs to know
that no completion is sent for a node of the present batch, `SuccessMeansDone`
that nothing left the task but by a completion. `Cleaned` is a second invariant,
about what a cleanup has listed, for the two theorems about cleanups.

| theorem | says | assumes |
|---|---|---|
| `TypeCorrect`, `LockHeldSafe`, `NoRepeatSafe`, `AttemptsBoundedSafe`, `SuccessMeansDoneSafe`, `ReleasedWhenDoneSafe` | the property each is named after (`AttemptsBounded`, what `NoRepeat` comes to over all batches, is stated here) | `RollingAssumption` |
| `NoOlderTaskSafe`, `CleanedUpSafe` | likewise | also, that the CMS refuses no drop: finding 2 is the counterexample without it |
| `ImplementsPhaseSafe` | `Spec => ImplementsPhase`: `Rolling` implements `Phase` | `RollingAssumption` |
| `SignalLeadsToEndSafe` | after a signal every step of the run brings it nearer to its end (`Nearer`) | `RollingAssumption`; the definition excludes `--cms-query-interval` 0 |

Under the refinement mapping a node is in flight from its start until its restart
has worked or its failure is counted (`Unsettled`), it is done when it has worked
or its attempts are used up (`Spent`), and a run that is ending after a signal,
cleaned up or not, is interrupted. `Unsettled` cannot be `inflight`: between a last failed
attempt and its counting, the node is neither being restarted nor done. The proof needs one invariant more, `ExitOK` (the
context is done and the target not empty where the loop has left for a signal), and
`IInv` for the rest: `NodesOK` makes a started node one that is not done, `BatchOK` one
of the target, and `TargetOK` makes the last completion a phase that is done.

`NatLemmas` has the arithmetic. Induction is had in the form of sets: `Least`
(a set of naturals that is not empty has a least element) and from it
`SetInduction` (a set that has 0 and with each natural the next has them all).
With it finite sets are bounded, the recursion of the powers of two has a
solution (`Doubling`), and `RoundedUp` says that `(n + d - 1) \div d` is the
number of rounds: enough, and none to spare.

`SessionProofs`: `CheckNeverTooStrict` says that the three checks of the code let through every
set of versions that the words about them allow (`Neighbouring`: two combinations, majors one apart, no
minor skipped); `CheckNeverTooLax` says what of that follows from the checks, for finite sets, since
`findLowHigh` needs a least and a greatest minor: the minors and the single minor of older majors, not the
distance of majors (finding 4). Three invariants stand beside each other. `UidOK`: the uid is
made before anything can be created under it. `VersionsOK`: a node runs its version from before or the
new one (`RunningOK`); a listing shows what runs or nothing, what is known is what
nodes have had, and what the checks were shown is known (`KnownOK`). With it a stop by the check is a stop
over versions that nodes really had, and a check that passes has seen what it claims. `SInv` has
`StateOK` (types), `CallOK` (what the place in a call says of attempt and answer),
`ServiceOK` (a success was acted on; a repeated call was cut off by an outage),
`ConnsOK` (open connections are the one in use and those left open), `CheckOK`
(what the check said when it ended the restart) and `GivenOK`.

| theorem | says | assumes |
|---|---|---|
| `TypeCorrect`, `FlagDecidesSafe`, `OneTaskSafe`, `ConnectionsBoundedSafe`, `DuplicatesOnlyFromOutageSafe`, `UpgradeNotStoppedSafe`, `SkipsNoticedSafe` | the property each is named after | `StartupAssumption`, `SessionAssumption` |
| `PersistsSafe` | `Persists`, for any number of attempts: `PausesOK` (after n attempts the pauses sum up to 2^n - 1) is inductive beside `SInv` | the same |
| `LockOutlastsAnyPass`, `LockOutlastsPassSafe` | the lock lasts for a pass over any number of nodes; `LockOutlastsPass` is the case of 1 to 5 | the same |
| `ImplementsCallSafe` | `Spec => ImplementsCall`: `Session` implements `Call` | the same |
| `CallGoesOnSafe` | inside a call no step of the client or the service is taken in vain (`Onward`) | the same |

`MaintenanceProofs` is about any cluster, any number of restarts and uids. `MInv` is `TypeOK`,
`CommandOK` (what a `complete` under way is about to give back is not worked on),
`RestartOK` (what is permitted to a restart is held, until its task is robbed;
the tasks it listed are gone once it works) and `HeldOK` (what is worked on is held).

| theorem | says | assumes |
|---|---|---|
| `TypeCorrect`, `OlderTasksGoneSafe`, `CompletesNamedSafe` | the property each is named after | `MaintenanceAssumption` |
| `DeletesOwnPod` | the pod looked up for a node by host and port runs it and no other | `Fit`: the pods have names of their own, run one node each, and each node with a known host has its pod |
| `WorksUnderLockSafe` | `WorksUnderLock` | `Fit(Pods, Cluster)` |
| `CreateLocksAskedSafe` | `CreateLocksAsked`: locked exactly if asked for, but for `Disputed` nodes | `Addressed`: ids are unique, hosts are names, no range of ids is empty |

`CommandProofs` is about any set of nodes, options and pods and any number of
invocations. Its assumption, `CommandAssumption`, says that ids and times are
naturals and that the version installed can be told from none.

`FilterStorageSelects` and `FilterTenantSelects` (in `FiltersProofs`, for this
module and for `maintenance create`) show that the filters select a node that is not
`Disputed` exactly if the reference asks for it;
the second needs that ids are unique, because the
tenant of a node is looked up by its id, and `TargetOfPhase` gets that from
the nodes being listed from a map keyed by id. The invariant `Inv` is then:
the target of a phase is what is due of its kind, but for disputed nodes (`Targeted`); nothing of a
phase to come has been touched and everything of a phase that is over is done
(`Handled`); a node that did not come up anew is asked for now exactly if it
was when the command began, and disputed likewise (`Steady`); what came up shows the new time and
version (`Renewed`), and a command that can be given again selects none of what an earlier one
restarted (`Skipped`; this is read off the filters, disputed nodes included).
`Steady` is what makes the second listing agree with the first: restarts
change only nodes of a phase that is in progress.

| theorem | says | rests on |
|---|---|---|
| `TypeCorrect` | `TypeOK` | `Inv`, `TargetOfPhase` |
| `RestartsWhatWasAskedSafe` | `RestartsWhatWasAsked`, but for `Disputed` nodes | `Inv`, both filter theorems |
| `StorageFirstSafe` | `StorageFirst`, but for `Disputed` nodes | `Inv` |
| `ResumeSkipsRestartedSafe` | `ResumeSkipsRestarted` | `Inv`, `RenewedNotSelected` |

Only model-checked: all liveness (`Returns`, `Terminates`, `SignalEndsRun`,
`CallReturns`, `RestartEnds`), which is out of the prover's reach, as is
`ENABLED`. Their steps are proved where a step can be shown to bring the end nearer:
`OnlyForward` for `Returns`, `SignalLeadsToEnd` for `SignalEndsRun` (with an
interval of 0 the select of `waitOrCancel` may take its other case again and
again, so only fairness ends the run), and `CallGoesOn` for `CallReturns`; that somebody
always can take such a step is proved of the batch only (`SomebodyGoesOn`). Every
invariant, every action property and every refinement of a passing run is also
a theorem, for every value of the constants.

## Abstractions

- An action is named by its node: a task has one action group per node with
  one lock action. In `Maintenance` it is named by its scope.
- The push order of the groups is left open (Go iterates over a map for the
  tenants; the order within one handler is the CMS's), and so is the order of the statuses in
  the channel. Every order the code can produce is among those modelled.
- In `Rolling` the filters choose any subset of the nodes (in `Command` they
  are computed) and the version check answers either way (in `Session` it is computed).
- In `Rolling` and `Maintenance` a call is one step with the outcomes of `Call`. Lost answers
  and refused drops are in `Rolling`; `Maintenance` leaves them out, and a death of a restart before
  its task is created is there the same as a failing call (`Fails`), since it leaves the same behind.
- In `Maintenance` the calls that get the listed tasks are one step. They change
  nothing; those that work might as well come at the end.
- In `Session` a cleanup on exit is left out: its calls are those of the
  cleanup at the beginning, in the same order.
- A service that fails an attempt acts before the attempt ends or never.
- Pods do not move while a restart runs; nodes are not added to the cluster.
- In `Rolling` a second signal is not modelled: the goroutine that reads the
  signals reads one. In `Command` any number may come.
- In `Command` the options are their parsed values. `*` in a version, which is
  read as 0, and ids beyond 32 bits are left out.
- In `Command` a node's state may change at any time, but its process
  restarts only by the command.
- `alreadyRestartedNodes` and the other counters used for logging are left out.
- Time is not modelled: a delay elapses, an interval elapses. Deadlines of locks are
  not modelled either; `LockOutlastsPass` is about the duration that is asked for.

## Not modelled

- The ssh process, the payload process and the Kubernetes API: external. A restart works, fails, or
  works and fails to say so; `Delete` returns before a pod is gone, and when it goes is Kubernetes' business.
- Availability modes, priorities and the CMS's own limits: the code passes them on.
- A failed status of one action among the answers of `CompleteAction`: the code
  looks at none of them, and what a real CMS does then cannot be read off this
  repository, whose mock answers only with success.
- `maintenance list` and the profile commands that only print, the formatting of tasks and
  nodes, cobra's wiring, the collection helpers, the build and the test scaffolding: input and output without state.
- The checks of `run` on its payload file (it exists, it is executable): one early return each.

## What could come next

- A finding run for the empty range of `maintenance create` next to the five above.
- The answers of `CompleteAction` action by action, once a document says what the CMS promises.
