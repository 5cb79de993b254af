# Verification of the Amplify CLI

TLA+ models of the Amplify CLI (`src/packages/amplify-*`), checked with TLC and
proved with TLAPS. The CLI is a large program; most of it is walkthroughs,
template text and calls to services, each made once. Modelled is what keeps state
across steps that can fail, overlap or be cut off:

- the **iterative deployment** of a GraphQL API. DynamoDB accepts one index change
  per table and update, so a push that changes several indexes is split into a plan
  of templates that CloudFormation is led through one at a time, forward, and back
  when a step fails, with the progress recorded in S3 so that another process can
  take over. Its plan, its record, its state machines, its waits, its event monitor
  and the overlap of two pushes each have a module;
- the **secrets of functions**, which live in five places that a command changes
  one after the other;
- the **subscription server** of the AppSync simulator, whose message handlers
  interleave at every await.

Paths are relative to
`src/packages/amplify-provider-awscloudformation/src/` unless they begin with a
package name.

## 1. The system's parts

### Iterative deployment (modelled)

| part | state | operations | interacts with |
|---|---|---|---|
| `iterative-deployment/deployment-state-manager.ts` | `currentState` (status, currentStepIndex, steps with status and previousMetaKey), `direction`; the file `deployment-state.json` | load, startDeployment, startCurrentStep, advanceStep, startRollback, failDeployment, delete; each changes memory synchronously and then awaits an upload | S3 |
| `iterative-deployment/state-machine.ts`, `helpers.ts` | the xstate machine's state and `context.currentIndex` | deploy machine, rollback machine | calls DeploymentManager's functions as invoked promises |
| `iterative-deployment/deployment-manager.ts` | list of stacks | deploy, rollback, doDeploy, waitForDeployment, waitForIndices, startRollBackFn | CloudFormation, DynamoDB, the state manager |
| `iterative-deployment/iterative-rollback.ts` | none | runIterativeRollback: rebuilds a list of rollbacks from the recorded steps | state manager, DeploymentManager, S3 |
| `push-resources.ts`, `run` | `iterativeDeploymentWasInvoked` | refuses, resumes, plans, starts, ends and cleans up a deployment | all of the above |

What is hard: `startRollBackFn` is started on entering the rollback region and
runs beside the rollback; errors of the state manager are swallowed in three
places; uploads can be lost and can land out of order; the process can be killed
at each await with an update in progress; a new process works from the record
alone; two indexes (the machine's and the record's) are advanced in different
places and must agree.

Correct would be: the record follows the machine; the outcome recorded is
the stack's; the stack moves between neighbouring templates only; an interrupted
record can be resumed; every command ends.

### The wait for tables (modelled)

Within a step, `waitForActiveTables` (`deployment-manager.ts:412-428`) starts one
interval timer per table; all of them call one throttled `getTableStatus`. The
state is the timers, lodash.throttle's window, last argument and last result, and
the promises in flight. What is hard: a call inside the window returns the promise
of whatever table was asked about last, answers may be a window late, and a timer
stops only by the answer it happened to get. It would be correct if the step
advanced after each of its tables was seen ready, and the wait ended.

### The plan (modelled)

`graphql-resource-manager/` turns the differences of two builds into one queue of
templates per nested stack: indexes deleted, then added, then replaced by a delete
and an add; a table whose key changes is dropped. The queues are popped in parallel
into steps, each with a rollback (the step before it), a meta key, the key before,
and the tables to wait for. `disconnect-dependent-resources/` puts steps in front
that disconnect functions from replaced tables, and moves the pointers of the first
two of the API's steps. What is hard: the limit of indexes a table may have makes the
order decide whether a legal change throws; a step's tables are collected while the
queues are popped; pointers cross stacks. Correct would be: each template changes one
index of a table, defines the attributes it uses, the last is the target, a step is
undone by its rollback, and the key recorded names that rollback.

### Concurrent pushes (modelled)

`push-resources.ts:84-115, 217-265, 336-351, 477-486` and
`deployment-state-manager.ts:48-78`: any number of processes on one state file. Each
loads it when it starts and decides by it minutes later; an iterative push reads it
again and uploads its own. A rollback (`:129-136`) is begun on any record in progress,
whoever is at work on it. There is no lock. Correct would be: at most one deployment at a
time, and a file that refuses pushes exactly while one is under way.

### The stack event monitor (modelled)

`iterative-deployment/stack-event-monitor.ts` and `stack-progress-printer.ts`: a list
of stacks, a round-robin index into it, the stacks that ended, recorded events, a
timer, two readers. The events read add to and take from the list while the index
points into it; stop() comes in the middle of a read. Correct would be: every stack
that runs is polled, every event is printed once and in order, the readers do not
overlap.

### The subscription server (modelled)

`amplify-appsync-simulator/src/server/subscription/websocket-server/server.ts`:
connections, their subscriptions by id, ping intervals, and the iterators the
subscriptions hold open. Handlers are async functions that nobody awaits. Correct
would be: an iterator that delivers can be reached by its id, and nothing outlives
its connection or the server.

### Function secrets (modelled)

`amplify-category-function/src/provider-utils/awscloudformation/secrets/`, the
commands of the category and the prePush and postPush events: the Parameter Store
of each environment, names in `function-parameters.json`, variables in the template,
the local copy `#current-cloud-backend`, its archive in S3, and pending removals in
memory. Names go first, values after the push. Correct would be: what a deployed
function reads has a value; what nobody names any more has none.

### Parts not modelled

| part | state and operations | why not |
|---|---|---|
| environment parameters (`amplify-environment-parameters/src/`) | managers in memory, team-provider-info, parameter map, Parameter Store, saved one after the other | next in the plan |
| project metadata (`amplify-cli/src/extensions/amplify-helpers/`) | amplify-meta.json and its copy; the status of resources from hashes of directories | only what function secrets read of it is modelled |
| SSM helpers (`utils/ssm-utils/`) | a sequential loop with retries | no state beyond the call |
| emulator launcher (`amplify-dynamodb-simulator/index.js`) | a child process, a port, five attempts | both racers are outside the code: the operating system's ports and the emulator |
| admin login (`admin-login.ts`, `utils/admin-login-server.ts`) | a local server and a prompt race for tokens | one race, interface code for the most part |
| non-iterative CloudFormation driver, S3 client | one call, one upload | their answers are the external part of the modules above |

The other packages (category walkthroughs, runtimes, frontends, templates,
prompts, tests) hold no protocol: they read input, write files and call services
once. Each is listed in PROJECT.json with its reason. Together they are by far most
of the lines of the repository, so the share of it that the models map is small.

## 2. The modules

| module | models | used by |
|---|---|---|
| `DeploymentState` | the record and the state manager's transitions on it, as operators | `IterativeDeployment` |
| `IterativeDeployment` | one process after another: both machines, run(), S3 file, stack | `IterativeInvariants` |
| `DeploymentPromise` | what the protocol promises of the stack (`OnPath` is the safety of it) | `IterativeDeployment` (INSTANCE) |
| `IterativeInvariants` | the inductive invariants | proofs and the run `recovery` |
| `DeploymentStateProofs` | lemmas on the record's transitions | `IterativeProofs` |
| `IterativeProofs` | theorems on `IterativeDeployment` | |
| `TableWait`, `TableWaitProofs` | the wait for a step's tables: the detail behind `TablesReady` and `RollbackTablesReady` of `IterativeDeployment` | |
| `DeploymentSessions`, `DeploymentSessionsProofs` | processes side by side: what of `IterativeDeployment` keeps them apart | |
| `StackEventMonitor`, `StackEventMonitorProofs` | the event monitor of one step, and the printer | |
| `DeploymentPlan`, `DeploymentPlanProofs` | the planner, the disconnection of functions, and the stacks led through the plan and back | `MCDeploymentPlan` |
| `MCDeploymentPlan` | an instance: three indexes and their keys | |
| `SubscriptionServer`, `SubscriptionServerProofs` | the simulator's subscription server | |
| `FunctionSecrets`, `FunctionSecretsProofs` | the secrets of one function over the commands of one developer | |

`DeploymentPlan` gives the templates that are positions 0..N in
`IterativeDeployment`; `TableWait` and `StackEventMonitor` are what happens inside
one of its steps; `DeploymentSessions` runs several of its processes with only the
status of their records.

### How state and actions correspond to the code

`file` is `deployment-state.json`; `mem` and `dir` are `currentState` and
`direction` of the process's DeploymentStateManager; `idx` is
`context.currentIndex`; `pos`, `cfn`, `target` are the stack. `pc` is where the
process's main thread stands: inside a machine it has the name of the machine's
state (`waitingForDeployment`, `waitForTables`, ...), preceded by the name of the
upload the state's operation awaits (`deploying` then `updating` for doDeploy;
`waitForTables` then `advancing` for waitForIndices); outside it is a place of
run(). `enter` is where `startRollBackFn` stands, the second thread.

Code between two awaits is one action; the end of an upload and the
continuation it resolves are one action. So `Advanced(ok)` is: advanceStep's
upload ends or is lost, waitForIndices resolves either way, the machine enters
triggerDeploy, which increments the index, sends itself NEXT, and either ends in
`deployed` or enters `deploying`, whose doDeploy changes the record and begins
its upload. Helpers whose name begins with May are the conditions under which a
method of the state manager does not throw.

Bodies of uploads are snapshots (`mainSave`, `enterSave`), taken when the upload
is issued, as JSON.stringify does; main's and startRollBackFn's may end in either
order.

CloudFormation is external and is modelled from what the code sees of it:
updateStack is refused when an update is in progress, when the stack is in
UPDATE_ROLLBACK_FAILED, and when there is nothing to change; an update ends at
its target, is rolled back, or is stuck. The rollback template of position 0 is
a copy of the deployed template under another key, so asking for it at position
0 may or may not be a change: both are allowed.

In `TableWait`, time is counted in rounds: in a round every timer fires once, in
the order of the tables, since all have the same period and were started
together. The throttle's wait is that period, so a wait begun in one round is over
about when the next begins; whether its timer comes before the first call of the
round, after it, or a millisecond later is left open. `result` and `older` are the
invocations of getTableStatus, each with the timers that hold its promise. The
throttle and DynamoDB are external and modelled from their use. An answer is the
status when the call was issued or when it was answered. The pause of two seconds
is taken to outlast the start of the index changes, as its comment intends.

In `DeploymentSessions` each process has a place (`pc`), the status in its
`currentState` (`mem`) and its kind of command. `StartCommand` is loadOrCreateState,
`Refused` and `GoesOn` the check after the builds, `Reload` and `StartSaved`
startDeployment before and after its await, `StepStarts` and `StepEnds` what
`IterativeDeployment` details, `Ends`, `Fails`, `FailSaved` and `StateFileDeleted` the
ends of run(). `Resumes` is runIterativeRollback begun on a record in progress;
`RollbackFails`, `Ends` and `Repushes` are its ends, the last one that of --force, whose
process goes on as a push. The windows between two processes are named in `FaultKinds`, and a
behaviour has a set of them: "race" and "cleanup" (a reload beside another's upload or
before its deletion of the file), "read" (a reload that throws), "mixed" (a push that needs
no iterative deployment runs beside one) and "beside" (a rollback is asked for while a
process is at work on the deployment). Each property says without which it holds.

In `StackEventMonitor`, `log` is the history of each stack, which CloudFormation
appends to; a read takes it page by page from the newest event back (`PageOfMany`,
`LastPage`), and `Processed` is processNestedStack on each event of a page. `list`,
`cur`, `done`, `seen` are the class's fields. `buffer` and `shown` are the printer's.
The step names the root stack by its name and events name it by its id, so it is on
the list twice (`Name`, `Root`).

In `DeploymentPlan` a table is its key, the keys of its local indexes, its global
indexes and its attribute definitions. `Delete`, `Add` and `Update` are one change of
gsiManagement each, with canAdd, addGSI and removeGSI of the helpers; `Recreate` is
tableRecreationManagement; `BuildStep` pops one template of each queue; `Start` is
prependDeploymentSteps and the last step of run(). `Deploy`, `Fail` and `RollBack` lead
the stacks of the API and of the functions through the steps. An update changes
something (`Changes`) if it changes a table or the key under which the API's templates
were uploaded (`deployedKey`, the parameter S3DeploymentRootKey), which each step and the
copy of the initial templates have of their own.

In `SubscriptionServer` every handler is split at its awaits: `StartArrives` is
onSubscriptionStart up to its first await, `Returned` what stopAsyncIterator does after
return(), `Subscribed` what follows the executor's answer; onClose is `Begins`, a
`CloseStops` for each id and `CloseEnds`; stop() is `Stop`, a `StopCloses` for each
connection and `StopEnds`. Overlaps are named windows: "same" (two messages about one
id), "early" (the connection closes while a message of it is handled), "deaf" (it
closes before anybody listens to it), "late" (the server stops while a connection is
being authorized), "after" (a socket of a stopped server is still served).

In `FunctionSecrets`, `local`, `current` and `record` are the function in the project,
in `#current-cloud-backend` and in its archive; `stack` is what the deployed function
reads, `values` what the Parameter Store has. syncSecretDeltas is `SyncCloud`,
`SyncTemplate` and `SyncNames`, in this order, whoever calls it; a push is `Push`
(ensureNewLocalSecretsSyncedToCloud), `StorePending`, `Fetch`, `Deploy` or
`NoChanges`, `Move`, `Save`, `Clean`. A push whose provider returns without a deployment,
refused or after --iterative-rollback, goes straight to `Clean` (`ReturnsEarly`), since
nothing tells the postPush event so; --env switches the environment between the prePush
event and the deployment (`Elsewhere`). The windows are: "dies" (a process ends between
two steps), "torn" (between template and names), "unrecorded" (between the deployment
and its archive), "partial" (a push finds some of the values missing), "publish",
"refused" (a push returns without a deployment), "elsewhere" (push --env), "declined" (a removal that is not confirmed or fails), "undone" (a secret never pushed
is removed), "leaving" (another environment is checked out with such a secret).

### Abstractions

- A plan is N templates and its positions 0..N; templates and their parameters
  are their position. The API's stack and the root stack around it (the last
  step) are one stack.
- A plan starts at the template deployed: with no deployment to resume, a command
  starts with `pos = 0`. What a push after a FAILED deployment makes of a stack left
  in the middle is out of scope: the planner starts from the templates of the last
  push that ended, and the model of it from the templates deployed.
- In `IterativeDeployment` every push is iterative; the one that is not
  (`push-resources.ts:336-351`) is in `DeploymentSessions`. Whatever run() does before
  startDeployment is a step that may throw.
- `IterativeDeployment` runs processes one after the other, `DeploymentSessions` side by
  side.
- In `IterativeDeployment` the table wait ends at any time; that it ends is
  `WaitEnds` of `TableWait`. A describeTable that fails is an unhandled rejection, which ends the process (`amplify-cli/src/index.ts:50`): `Crash`.
- An upload issued before an update of the stack began ends before the update
  does (seconds against minutes): `UpdateEnds` waits for `enter = "idle"`.
- doDeploy ignores the answer of ensureStack (`deployment-manager.ts:470`); its
  failure is a failed update.
- finishedAt follows from the status and is not kept; of previousMetaKey only the
  presence is. updateStatus and updateCurrentStepStatus have no caller.
- `DeploymentPlan` has the models that are in both builds: models added or removed are
  left to the last step, which deploys the whole project. Stacks of connections and of
  searchable models, placeholders in the root stack's parameters, tables of the root
  stack (skipped by the code, `amplify-graphql-resource-manager.ts:281`), attribute
  types and projections are left out. Each model has a stack of its own; the code
  plans one table per stack (`:262`), so of several tables in one custom stack the
  second is left to the last step.
- `FunctionSecrets` has one function; the commands of one developer follow one another.
  The app id in team-provider-info follows from the names and is not kept.
- `SubscriptionServer` leaves out what messages carry; a wrong protocol or a rejected
  connection is a connection that ends.

## 3. What is checked

| run | constants | shows |
|---|---|---|
| `ends` | N = 3, all faults, 1 lost upload, 2 processes | types; `StateTracksMachine` (record against machine); `EveryCommandEnds` |
| `recovery` | N = 4, all faults but wait, 2 lost uploads, 3 processes | `OutcomeMatchesStack` (record against stack); `RecordIsAProfile` and `NothingFilteredOut` (what a recovering process relies on); `UpdatesStayClose` (a bound on how far a resumed rollback asks the stack to go); the inductive invariants `RecordInv` and `StackInv` |
| `promise` | N = 3, no crash, no lost upload, 3 processes | `KeepsPromise`: `IterativeDeployment` implements `DeploymentPromise`, with `Phase` as the refinement mapping |
| `tables` | 3 tables, 1 late answer | `SomeTableReady`, `WaitEnds`: the shared throttle releases no waiter before some table was ready, and the wait ends |
| `sessions` | 3 processes; losses and crashes, or the windows in two sets | `DeploymentsExclude`, `UpdatesAreGuarded` (without windows, one deployment at a time, its updates guarded by its record); `RefusalHasAReason` (without losses, a record that refuses pushes has a process at work on it) |
| `monitor` | 2 nested stacks, pages of 2, 2 resource events, 3 reads | `NoGaps`, `SingleReader`, `RunningIsMonitored`, `ShowsOnlyNewer` |
| `plan` | 2 models, 3 indexes of which a table may have 2, 1 function | `OneIndexAtATime`, `ThrowsForTooMany`, `AttributesDefined`, `KeysNameRollbacks`, `RollbackUndoesTables`, `ChangesAwaited` (an update that another one of the plan follows waits for the tables it changes) |
| `subscriptions` | 2 connections, 1 id, 2 starts, four sets of windows | `LiveIsRegistered`, `ReturnedIsDeleted`, `StoppedIsEmpty`, `ClosedIsSwept` |
| `secrets` | 2 environments, 3 secrets, three sets of windows | `DeployedHaveValues`, `NoOrphans`, `PushSparesNames` |
| `interrupted` | N = 2, crash | violated: finding 2 |
| `plan_functions` | 1 model, 3 indexes, 1 function | violated: finding 9 |
| `secrets_lost` | 2 environments, 2 secrets, "partial" | violated: finding 11 |

Statements of the repository, or expectations of ours, that TLC refutes have a
configuration kept beside the runs; each gives its counterexample in seconds:

| configuration | module | refutes | finding |
|---|---|---|---|
| `unrecorded_rollback` | `IterativeDeployment` | `FullRollbackIsRecorded` | 1 |
| `waiter_gives_up` | `IterativeDeployment` | `PushFindsStackAtRest` | 3 |
| `rollback_again` | `IterativeDeployment` | `RollbackCommandSucceeds` | 4 |
| `tables_shared` | `TableWait` | `EveryTableReady` | 5 |
| `two_pushes`, `failed_reload` | `DeploymentSessions` | `OneDeployment` | 6 |
| `mixed_pushes`, `late_cleanup` | `DeploymentSessions` | `UpdateIsGuarded` | 7 |
| `resumed_beside` | `DeploymentSessions` | `UpdateIsGuarded` | 8 |
| `plan_lsi` | `DeploymentPlan` | `AttributesMatch` | 10 |
| `secrets_orphaned` | `FunctionSecrets` | `NoneOrphaned` | 12 |
| `secrets_refused` | `FunctionSecrets` | `ReadsExist` | 13 |
| `secrets_elsewhere` | `FunctionSecrets` | `ReadsExist` | 14 |
| `lost_events`, `print_order` | `StackEventMonitor` | `FlushesAll`, `LogIsChronological` | 15 |

Bounds. In `IterativeDeployment`, `N = 3` gives a first, a middle and a last step, the
three cases advanceStep distinguishes; a rollback that ends at 0, passes a step and
starts at the last. `MaxSessions` processes: one to be interrupted, one to resume it,
one to resume the resumption. `MaxSaveFailures = 2` loses both uploads of one step, or
one of each thread. Three tables have a first, which is asked at the start of a window,
a last, which is asked at its end, and one that is never asked while the others wait.
Three processes in `sessions` are a deployment, a push beside it, and one that resumes.
Two nested stacks are one that ends while the other is read; a page of two events is
one that ends within a read's news and one that does not; three reads are two of the
timer, around a change of the list, and the final one. Each behaviour of the monitor
has one kind of fault and at most one stack updated again.

In `plan`, `MAX_GSI_PER_TABLE = 2` stands for the code's 20: the limit is met by a
table that is full, by one full after a delete, and passed by a new API that has three.
Three indexes are one that changes its key and two that share an attribute. Two tables
are one that is done while the other goes on. With `rebuild`, where every table is
dropped, `MCInit` lets the new tables be the deployed ones, since nothing depends on
them. In `subscriptions` two starts about one id of one connection compete for it, or
are on two connections that stop() closes in turn. In `secrets` three secrets are one
kept, one set and one removed; two environments are the one checked out and another.
The proofs remove these bounds for every property but the liveness ones.

Deadlock is checked in `sessions`; elsewhere a state without successor is the
system at rest or the end of a bound.

Fairness. `FairSpec` of `IterativeDeployment` has weak fairness of the main thread, of
startRollBackFn and of CloudFormation: a promise the code awaits settles, and an update
ends. Nothing makes a user run a command or kill one. Under it `EveryCommandEnds` says
that no state of the machines waits for something nobody will do; it depends on the
waiter recognising every final status of a stack. In `TableWait`, timers fire, each
describeTable is answered (the latest, and the one late one of each table), and DynamoDB
ends what it began. `WaitEnds` is then worth its run: most calls of most tables are never
made, and their timers stop only through answers given to others. In
`SubscriptionServer`, what a handler awaits settles and stop() goes on; clients need not
send anything. `ClosedIsSwept` then says that every closing comes to its end.

The bound of `UpdatesStayClose` is what the code gives: the record of an update is
uploaded before it, and doDeploy goes on when the upload is lost, so a resumed
rollback can be off by one template for each loss, and no more. A resumed rollback
may also move the stack one template *forward*, when the killed process had
recorded a step it had not yet deployed; `KeepsPromise` is therefore stated for
processes that are not killed.

### Findings

Of the iterative deployment:

1. **A full rollback is recorded as a failure** (`state-machine.ts:200`). The deploy
   machine does not wait for startRollBackFn. With no table to wait for,
   advanceStep runs first, throws, and is swallowed: the record stays one step
   behind and the deployment that was rolled back completely ends as FAILED. The
   rollback machine waits (`state-machine.ts:332-340`) and records ROLLED_BACK.
2. **An interrupted deployment may be impossible to roll back**
   (`iterative-rollback.ts:67`), although the refused push says to do so: the
   current step has no previousMetaKey until it starts, the last never.
3. **A push is admitted beside an update** (`deployment-manager.ts:492`): the waiter
   gives up, the rollback is refused by the busy stack, FAILED is recorded.
4. **The rollback command may fail for ever** (`deployment-manager.ts:477`): killed
   between the upload of a step's start and the update, the deployment's rollback
   asks for the template that is deployed, which doDeploy takes for an error.
5. **A step may advance before its tables are ready** (`deployment-manager.ts:413`):
   the tables share one throttle, a call within its window returns the promise of
   another table's, and `if (areIndexesReady)` releases whoever holds it. With two
   tables the second is never waited for when the first is ready.
6. **Two deployments may overlap** (`deployment-state-manager.ts:51`): both reload
   before either has uploaded. After a reload that throws, failDeployment records the
   failure of a deployment that was never started over the record of the one that is
   under way (`push-resources.ts:481`), and a third push is admitted.
7. **A push that needs no iterative deployment runs beside one**
   (`push-resources.ts:217`): its state was loaded at the start, it never looks again,
   it updates the stack between two steps, and at its end deletes the other's record
   (`:351`). Likewise the file deleted at the end of one push may be the next one's.
8. **A rollback runs beside a live deployment** (`push-resources.ts:129-136`): nothing
   asks whether the process that wrote the record is at work. Both lead the stack through
   the plan; when one of them has ended, the file admits pushes while the other updates.
   With --force a push follows the rollback at once.

Of the plan:

9. **Functions disconnected first make the API's rollback impossible**
   (`disconnect-dependent-resources/utils.ts:111`): the last function's step becomes the
   rollback of the API's first one. When the step after that one fails, its rollback asks
   the function's stack for the template it has, is refused, and the tables it dropped
   stay dropped. The initial templates are now the rollback of the first function's step;
   when the API's first step fails itself, the rollback updates the API to them and leaves
   the function disconnected.
10. **Attributes of local indexes are not looked at**
    (`graphql-resource-manager/dynamodb-gsi-helpers.ts:118`): with its last global
    index an attribute's definition goes that a local index still uses, which
    CloudFormation rejects.

Of function secrets
(`amplify-category-function/src/provider-utils/awscloudformation/secrets/functionSecretsStateManager.ts`):

11. **A push may delete the values a deployed function reads** (`:261`): asked for
    some missing values, it writes only their names, takes the others for removed, and
    deletes their values, which the template goes on reading.
12. **Values may be left with no trace**: a secret added since the last push and
    removed again, or a function deleted with such a secret, is in no copy the next push
    compares (the comment at `:303-304` expects names in a directory that is gone by
    then). The same comes of a process that dies with removals in memory (`:25`), of
    `publish`, which raises no prePush and postPush, and of `env remove` when a
    bucket is not found, which skips the event that deletes the environment's values
    (`amplify-cli/src/extensions/amplify-helpers/remove-env-from-cloud.ts:31-35`). A
    `remove function` that is declined, or fails, for a function never pushed
    deletes the values of one that stays.
13. **A push that deploys nothing deletes values** (`push-resources.ts:217-220`, `:132-134`):
    a push refused for one in progress, and one with --iterative-rollback, return
    normally; postPush follows and deletes the values pending removal, which the deployed
    function reads (the comment at `:201` says "after the corresponding CFN push is
    complete").
14. **push --env deploys where prePush did not look**
    (`amplify-cli/src/extensions/amplify-helpers/push-resources.ts:48-72`): missing values
    are asked for, and removals noted, in the environment checked out before; the
    environment that is deployed to then reads values that it does not have, or keeps
    some that nobody names.

Of the event monitor, harmless but for the output:

15. **The last events are lost, and those of a read are printed newest first.** The
    final poll reads one stack of the round (`stack-event-monitor.ts:194`), against "flush
    out all events" (`:180`); the printer reverses what the monitor has already put in
    order. A throttled read records the newest events and so leaves out older ones for
    good; an error other than throttling ends the process; a nested stack that ended
    and is updated again is not polled; each read of the root stack adds running stacks
    to the list once more.

Of the subscription server, seen while modelling: the second of the two intervals set
by connection_init is never cleared (`server.ts:239-242`; `PingsEnd`, which no cfg
checks, is false of every connection); an iterator registered after its connection was
swept, or replaced under its id, is never returned; a connection that closes before it
was authorized stays in `connections`; messages of a stopped server's sockets are
still served. The properties of `SubscriptionServer` say without which of these
windows they hold.

## 4. What is proved

For every value of the constants:

| module | theorem | property | assumption |
|---|---|---|---|
| `IterativeProofs` | `TypeCorrect` | `TypeOK` | |
| | `RecordCorrect` | `RecordInv` | |
| | `RecordFollowsMachine` | `StateTracksMachine` | |
| | `ProfileCorrect`, `FileIsAProfile` | `RecordIsAProfile` | |
| | `FilterKeepsSteps` | `NothingFilteredOut` | |
| | `StackCorrect`, `OutcomeCorrect` | `StackInv`, `OutcomeMatchesStack` | `"wait" \notin Faults` |
| | `DistanceCorrect`, `UpdatesClose` | `UpdatesStayClose` | `"wait" \notin Faults` |
| | `WalkCorrect`, `StaysOnPath` | the safety of `KeepsPromise` | `Unharmed` |
| `TableWaitProofs` | `WaitTyped`, `SomeTableSeenReady` | `TypeOK`, `SomeTableReady` | |
| `DeploymentSessionsProofs` | `SessionsTyped` | `TypeOK` | |
| | `SessionsExclude`, `UpdatesGuarded` | `DeploymentsExclude`, `UpdatesAreGuarded` | |
| | `RefusalsEnd` | `RefusalHasAReason` | |
| `StackEventMonitorProofs` | `MonitorCorrect`, `MonitorTyped` | `TypeOK` | |
| | `OneReader` | `SingleReader` | |
| | `NothingMissed` | `NoGaps` | |
| | `RunningMonitored` | `RunningIsMonitored` | |
| | `PrintsOnlyNewer` | `ShowsOnlyNewer` | |
| `DeploymentPlanProofs` | `PlanCorrect`, `PlanTyped` | `TypeOK` | |
| | `ThrowsCorrect` | `ThrowsForTooMany` | |
| | `OneAtATime` | `OneIndexAtATime` | |
| | `DefinesAttributes` | `AttributesDefined` | |
| | `KeysNamed` | `KeysNameRollbacks` | |
| | `TablesUndone` | `RollbackUndoesTables` | |
| | `AwaitsChanges` | `ChangesAwaited` | |
| `SubscriptionServerProofs` | `SubscriptionsTyped` | `TypeOK` | |
| | `ReturnedGoes`, `LiveIsReachable` | `ReturnedIsDeleted`, `LiveIsRegistered` | |
| | `StopsEmpty` | `StoppedIsEmpty` | |
| `FunctionSecretsProofs` | `SecretsTyped` | `TypeOK` | |
| | `DeployedRead`, `NothingOrphaned` | `DeployedHaveValues`, `NoOrphans` | |
| | `PushSpares` | `PushSparesNames` | |

Each rests on the named assumptions on the constants only (`NAssumption`,
`IterativeAssumption`, ...), which TLC evaluates in the runs. The assumption of
`OutcomeCorrect` and `UpdatesClose` is needed: when the waiter gives up, the stack moves
on after the outcome is recorded (finding 3). `Unharmed` (no process killed, no upload
lost, no waiter that gives up) is what the promise is stated for: a resumed rollback may
lead the stack a template forward (section 3). The run `promise` checks it under the same
condition.

`IterativeDeployment`. None of the properties is inductive: what advanceStep does
depends on the status of the current step, which depends on how far startRollBackFn has
come, which depends on when main entered the rollback region.

`RecordInv` describes, for each pc, the record and how it stands to the machine:
`StartInv` and `DeployInv` for the way forward (record and machine equal, the step
DEPLOYING), `PreRollbackInv` and `EnterInv` for the two threads of an entry into
the rollback, `RollbackInv` for the way back (the record equal or one behind; equal
only when its step is being rolled back), and `IndexInv` for the range of the
index. From it follow the types, since they rest on currentStepIndex staying in
the plan, and `StateTracksMachine`.

`StackInv` adds the stack and the file: `PositionInv` ties the stack's position to
the machine's index at each pc, `FileInv` and `UploadInv` say what bodies the file
and the uploads in flight may hold, `BusyInv` when an update is in progress. Its
point is that a body whose status is ROLLED_BACK or DEPLOYED is issued only by
an advanceStep that ended the walk, that no older body can land after it, and that
the stack has not moved since. A resumed rollback starts from a record that may
be off by the lost uploads; the proof shows that the end of the walk does not
depend on where it began.

`ProfileInv` gives each body in memory, in flight and in the file the same shape
(`WellKept`): deployed or waiting for rollback before the current step, not begun or
undone after it, a key where a step has begun; and the step under way has the key that
its successor will need. Each transition of the record keeps the shape, so no order of
uploads can spoil it, and `NothingFilteredOut` follows from the shape alone.

`DistanceInv` bounds how far a recorded position may be from the stack: by one template,
and by one more for each upload lost since. It has a part for what the file says
(`FileNear`), for startRollBackFn's body (`EnterNear`), and for the machine's index on
the way forward, on a resumed way back and on any way back.

`WalkInv` is what the simulation needs of the places between two updates: an update is
awaited by whoever issued it, the file in progress stands on the stack to be rolled back
next, and the bodies in flight agree with it. With it each action of `Next` is a step of
`DeploymentPromise` under `Phase`, or changes neither `pos` nor `Phase` (`StepOnPath`).

`DeploymentStateProofs` states once what each transition does to a well-typed record; the
step lemmas cite those and have one case per action.

`TableWait`: in `WaitInv` each call in flight or settled that saw or said "ready" is
about a table that is ready (and stays so).

`DeploymentSessions`: both theorems leave five windows out (`NoWindow`): "race", "read",
"cleanup", "mixed" and "beside", each of which breaks them. Then in `SessionsInv` at most
one process is about to write the file, because another's reload would have waited for
it, and the record of the one that drives is in the file, from which `UpdatesAreGuarded`
follows too. `RefusalHasAReason` holds through all windows but "mixed" together with
"beside"; `ReasonInv` adds to it why: only a rollback beside another process can be refused
the stack, and the process whose update it met is then still there.

`StackEventMonitor`: `OneReader` holds since the final read begins only when the timer's
is over and the timer, cleared by stop(), begins no other. The rest is about what a read
does page by page. `Monitoring` has the types, and that the name of the root stack stays
on the list. `Downwards` says that a read comes down the history from its end: of the stack's recorded
events, it has recorded just those above its place. `Endings` says that a nested stack
which is said to have ended has an end in its own history, and, without reruns, has it
last. `Covered` is the core: a place before a recorded event has been dealt with
(`Passed`: its event is recorded or, if it is the beginning of a nested stack, this is on
the list or has ended) or is still to come in the read that recorded the event;
`NoGaps` and `RunningIsMonitored` are its two halves between reads. `Printing` says that the printer
holds what is newer than all it has printed, each event once.

`DeploymentPlan`: `PlanInv` has a part for each place. While queues are built
(`Planning`), the end of a queue is a template that has of the old and new indexes those
that it should, so that what is still to be done decides whether the limit is met: that is
`ThrowsForTooMany`, and that neighbours in a queue differ by one index is
`OneIndexAtATime`. While they are popped (`Popping`), the steps are what has been taken of
the queues, each linked to its predecessor by its rollback. While the stacks are led
(`Leading`), the steps are those of the functions, in their order, then those of the API,
then the last one, and the tables are those of the step at which the stacks stand. A
table's attribute definitions are what its indexes use at each of these
(`Defines`). `ChangesAwaited` is of the updates that another one of the plan follows, since
only that one could meet a table still busy; the last step waits for no table
(`push-resources.ts:305-307`), nor does the rollback to the initial templates.

`SubscriptionServer`: in `SubscriptionInv` a subscription is registered under the
connection and id of its start (`RegisteredInv`), nothing else is under way about
the id of a start that is handled, and an await of return() is about the iterator
that is registered (`OrderInv`), and a connection with a start handled is not being
closed (`ClosingInv`); the latter two as far as the windows allow. `StoppingInv`, for
`StopsEmpty`, says that none but those that stop() has still to close, or is closing, are
known once it has begun, and that an iterator that delivers belongs to a known connection
and has its id still before it in every closing of that one.

`FunctionSecrets`: `SecretsInv` has a part for each set of windows. `PushInv` holds
always: what a push is about to delete the function does not name. `RecordedInv`, unless
a deployment may go unrecorded, says where record, local copy and stack differ.
`NamedInv` and `ValuesInv`, in a calm behaviour, say that the template reads what is
named and the record's variables have values; calm is one without the windows "torn",
"unrecorded", "partial", "publish", "refused", "elsewhere" and "declined". `OwnedInv`, in an
undisturbed one (no window but "refused" and "declined"), says for
each step whose every value is: of a known name, of one about to be written, or of one
about to be deleted.

Recursive functions and sequences are reasoned about by a smallest counterexample
(`LeastNumber`, from the well-foundedness of the naturals), since the library's
induction theorems take an operator, which no prover here can instantiate.

Only model-checked is liveness, which is out of the prover's reach: `EveryCommandEnds`,
`WaitEnds`, `ClosedIsSwept`, and of `KeepsPromise` that a walk begun is finished
(`WF_walk(Walk)`). Every other property of a run that passes is stated by a theorem
above.

## 5. The plan

Modules: `EnvParameters` (memory, files and Parameter Store saved one after the other,
with crashes); `SsmBackoff` (the bound on retries); `AmplifyMeta` (the status of
resources over edits, pushes and failed pushes); the stacks of connections in
`DeploymentPlan`.

Theorems: those on these modules as they come; of `DeploymentPlan`, that a plan carried
through ends with the project's tables and one rolled back with the deployed ones; of
`IterativeDeployment`, a promise that allows for kills and lost uploads (a walk that may
be off by a template for each), with `DistanceInv` in place of `WalkInv`.
