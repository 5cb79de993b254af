------------------------- MODULE IterativeDeployment -------------------------
(***************************************************************************)
(* One environment's iterative deployment: the CloudFormation stack, the   *)
(* deployment-state.json file in S3 and the `amplify push` processes that  *)
(* drive them one after the other (push-resources.ts, deployment-manager.ts*)
(* state-machine.ts, iterative-rollback.ts under                           *)
(* packages/amplify-provider-awscloudformation/src).                       *)
(*                                                                         *)
(* A deployment plan is N templates: deploying stack i takes the           *)
(* CloudFormation stack from position i to position i + 1, the rollback    *)
(* operation of stack i takes it back to position i; position 0 is the     *)
(* template deployed before the push.                                      *)
(*                                                                         *)
(* A process has two threads of promises: main, the state machine's        *)
(* current invocation or run() itself, and enter, startRollBackFn, which   *)
(* the deploy machine invokes on entering its rollback region and does not *)
(* wait for.  Code between two awaits is one step; the end of an upload    *)
(* and the continuation it resolves are one step too.                      *)
(***************************************************************************)
EXTENDS DeploymentState

CONSTANTS
  Faults,            \* which of the failures named below may happen
  MaxSaveFailures,   \* how many uploads of the state file may be lost
  MaxSessions        \* how many processes are started

FaultKinds ==
  {"prepare",  \* anything else run() awaits throws
   "update",   \* updateStack is rejected by the service
   "stack",    \* CloudFormation rolls an update back
   "stuck",    \* ... and fails to: UPDATE_ROLLBACK_FAILED
   "wait",     \* the waiter gives up on a stack that is still updating
   "crash"}    \* the process is killed

ASSUME IterativeAssumption ==
  /\ N >= 2
  /\ Faults \subseteq FaultKinds
  /\ MaxSaveFailures \in Nat
  /\ MaxSessions \in Nat

VARIABLES
  \* the cloud
  file,       \* deployment-state.json; IdleState when there is none
  pos,        \* position of the stack
  cfn,        \* status of the stack
  target,     \* position its update in progress leads to
  \* the process
  pc,         \* where main stands
  cmd,        \* the command line
  machine,    \* which machine DeploymentManager interprets
  idx,        \* context.currentIndex of that machine
  outcome,    \* final state it reached
  mem, dir,   \* currentState and direction of DeploymentStateManager
  mainSave,   \* body of the upload main awaits
  enter,      \* where startRollBackFn stands
  enterSave,  \* body of the upload it awaits
  \* bounds
  sessions, saveFails

cloudVars   == <<pos, cfn, target>>
sessionVars == <<cmd, machine, sessions>>
enterVars   == <<enter, enterSave>>
vars == <<file, pos, cfn, target, pc, cmd, machine, idx, outcome, mem, dir,
          mainSave, enter, enterSave, sessions, saveFails>>

\* Where main stands, named after the machine's states; the first of two
\* names for a state is the upload that state's operation awaits.
DeployPCs   == {"deploying", "updating", "waitingForDeployment",
                "waitForTables", "advancing"}
PreRollPCs  == {"waitingForPrevious", "previousTables", "enteringRollback"}
RollbackPCs == {"rollbackTables", "rollbackAdvancing", "rollingBack",
                "updatingBack", "waitingForRollback"}
RunPCs      == {"off", "started", "planning", "starting", "preparing",
                "cleaning", "failing", "done"}

TypeOK ==
  /\ file \in State /\ mem \in State /\ mainSave \in State /\ enterSave \in State
  /\ pos \in 0 .. N /\ target \in 0 .. N
  /\ cfn \in {"complete", "inProgress", "rolledBack", "stuck"}
  /\ pc \in DeployPCs \cup PreRollPCs \cup RollbackPCs \cup RunPCs
  /\ cmd \in {"push", "force", "rollback"}
  /\ machine \in {"none", "deploy", "rollback"}
  /\ idx \in -1 .. N
  /\ outcome \in {"none", "deployed", "rolledBack", "failed"}
  /\ dir \in Directions
  /\ enter \in {"idle", "starting", "stepping"}
  /\ sessions \in 0 .. MaxSessions
  /\ saveFails \in 0 .. MaxSaveFailures

Init ==
  /\ file = IdleState /\ mem = IdleState
  /\ mainSave = IdleState /\ enterSave = IdleState
  /\ pos = 0 /\ target = 0 /\ cfn = "complete"
  /\ pc = "off" /\ cmd = "push" /\ machine = "none" /\ idx = -1
  /\ outcome = "none" /\ dir = 1 /\ enter = "idle"
  /\ sessions = 0 /\ saveFails = 0

-----------------------------------------------------------------------------
(* Pieces of handlers *)

\* saveState: the upload ends well, or is lost.
Upload(body, ok) ==
  IF ok THEN file' = body /\ UNCHANGED saveFails
        ELSE /\ saveFails < MaxSaveFailures
             /\ saveFails' = saveFails + 1
             /\ UNCHANGED file

\* run()'s catch, once iterativeDeploymentWasInvoked.
RunFails ==
  IF MayFail(mem)
  THEN mem' = FailDeployment(mem) /\ mainSave' = mem' /\ pc' = "failing"
  ELSE pc' = "done" /\ UNCHANGED <<mem, mainSave>>

\* doDeploy up to its first await; a startCurrentStep that throws is
\* swallowed and the update goes on.
DoDeploy(saving, updating, hasKey) ==
  IF MayStartStep(mem, dir)
  THEN mem' = StartStep(mem, dir, hasKey) /\ mainSave' = mem' /\ pc' = saving
  ELSE pc' = updating /\ UNCHANGED <<mem, mainSave>>

\* Entry of triggerDeploy with currentIndex i, and the NEXT it sends itself.
\* Every operation but that of the last stack, the root stack, carries a
\* previousMetaKey.
TriggerDeploy(i) ==
  /\ idx' = i
  /\ IF i >= N
     THEN /\ outcome' = "deployed" /\ pc' = "cleaning"
          /\ UNCHANGED <<mem, mainSave>>
     ELSE /\ DoDeploy("deploying", "updating", i < N - 1)
          /\ UNCHANGED outcome

\* Promise of DeploymentManager.deploy or .rollback settles: deploy rejects
\* on rolledBack and on failed; rollback resolves on rolledBack, and run()
\* then returns (--iterative-rollback) or goes on with the push (--force).
MachineEnds(final) ==
  /\ outcome' = final
  /\ CASE machine = "deploy" -> RunFails
       [] machine = "rollback" /\ final = "rolledBack" /\ cmd = "force" ->
            pc' = "planning" /\ UNCHANGED <<mem, mainSave>>
       [] OTHER -> pc' = "done" /\ UNCHANGED <<mem, mainSave>>

\* Entry of triggerRollback with currentIndex i, and the NEXT it sends itself.
TriggerRollback(i) ==
  /\ idx' = i
  /\ IF i < 0 THEN MachineEnds("rolledBack")
     ELSE DoDeploy("rollingBack", "updatingBack", FALSE) /\ UNCHANGED outcome

\* startRollBackFn up to its first await.
StartRollBackFn ==
  IF MayStartRollback(mem, dir)
  THEN /\ mem' = StartRollback(mem) /\ dir' = -1
       /\ enter' = "starting" /\ enterSave' = mem'
  ELSE UNCHANGED <<mem, dir, enter, enterSave>>

\* Mutant of EnterRollback: currentIndex is decremented on entry too.
EnterRollbackOneBelow ==
  /\ StartRollBackFn
  /\ pc' = "rollbackTables" /\ idx' = idx - 1
  /\ UNCHANGED <<file, outcome, mainSave, saveFails>>

\* The deploy machine enters its rollback region: startRollBackFn is invoked
\* and, without waiting for it, waitForTablesToBeReady of the same index.
EnterRollback ==
  /\ StartRollBackFn
  /\ pc' = "rollbackTables"
  /\ UNCHANGED <<file, idx, outcome, mainSave, saveFails>>

-----------------------------------------------------------------------------
(* The command *)

\* A process starts and loads the state file.  A plan starts at the deployed
\* template: with no deployment to resume, only position 0 is in its scope.
StartCommand(c) ==
  /\ pc = "off" /\ sessions < MaxSessions
  /\ IsInProgress(file) \/ pos = 0
  /\ sessions' = sessions + 1
  /\ mem' = file /\ dir' = 1
  /\ pc' = "started" /\ cmd' = c /\ machine' = "none" /\ outcome' = "none"
  /\ UNCHANGED <<file, cloudVars, idx, mainSave, enterVars, saveFails>>

ResumesRollback == IsInProgress(mem) /\ cmd # "push"

HasEveryKey(s) == \A i \in 0 .. s.cur : s.key[i]

\* Mutant of PrevDeploymentStatus: a step being rolled back is forgotten.
PrevDeploymentStatusNotRollingBack ==
  {"DEPLOYING", "DEPLOYED", "WAITING_FOR_ROLLBACK"}

\* The steps runIterativeRollback does not filter out.
PrevDeploymentStatus ==
  {"DEPLOYING", "ROLLING_BACK", "DEPLOYED", "WAITING_FOR_ROLLBACK"}

KeepsEveryStep(s) == \A i \in 0 .. s.cur : s.step[i] \in PrevDeploymentStatus

\* runIterativeRollback throws: a step has no previousMetaKey.
RollbackRefused ==
  /\ pc = "started" /\ ResumesRollback /\ ~HasEveryKey(mem)
  /\ pc' = "done"
  /\ UNCHANGED <<file, cloudVars, sessionVars, idx, outcome, mem, dir,
                 mainSave, enterVars, saveFails>>

\* Mutant of RollbackMachineStarts: it starts at the current step.
RollbackMachineStartsAtCurrent ==
  /\ pc = "started" /\ ResumesRollback /\ HasEveryKey(mem)
  /\ KeepsEveryStep(mem)
  /\ pc' = "waitingForPrevious" /\ machine' = "rollback"
  /\ idx' = mem.cur
  /\ UNCHANGED <<file, cloudVars, cmd, sessions, outcome, mem, dir, mainSave,
                 enterVars, saveFails>>

\* The rollback machine starts in preRollback, one past the current step.
RollbackMachineStarts ==
  /\ pc = "started" /\ ResumesRollback /\ HasEveryKey(mem)
  /\ KeepsEveryStep(mem)
  /\ pc' = "waitingForPrevious" /\ machine' = "rollback"
  /\ idx' = mem.cur + 1
  /\ UNCHANGED <<file, cloudVars, cmd, sessions, outcome, mem, dir, mainSave,
                 enterVars, saveFails>>

Plan ==
  /\ pc = "started" /\ ~ResumesRollback
  /\ pc' = "planning"
  /\ UNCHANGED <<file, cloudVars, sessionVars, idx, outcome, mem, dir,
                 mainSave, enterVars, saveFails>>

\* The second look at the loaded state, or startDeployment's reload, finds a
\* deployment in progress: run() prints a message and returns.
PushRefused ==
  /\ pc = "planning" /\ (IsInProgress(mem) \/ IsInProgress(file))
  /\ pc' = "done"
  /\ UNCHANGED <<file, cloudVars, sessionVars, idx, outcome, mem, dir,
                 mainSave, enterVars, saveFails>>

StartsDeployment ==
  /\ pc = "planning" /\ ~IsInProgress(mem) /\ ~IsInProgress(file)
  /\ mem' = StartDeployment /\ dir' = 1
  /\ mainSave' = mem' /\ pc' = "starting"
  /\ UNCHANGED <<file, cloudVars, sessionVars, idx, outcome, enterVars,
                 saveFails>>

StartSaved(ok) ==
  /\ pc = "starting"
  /\ Upload(mainSave, ok)
  /\ IF ok THEN pc' = "preparing" /\ UNCHANGED <<mem, mainSave>> ELSE RunFails
  /\ UNCHANGED <<cloudVars, sessionVars, idx, outcome, dir, enterVars>>

\* Something run() awaits throws: startDeployment's reload, the uploads and
\* code generation before the deployment, or the clean-up after it.
RunThrows ==
  /\ "prepare" \in Faults
  /\ pc \in {"planning", "preparing", "cleaning"}
  /\ pc = "planning" => ~IsInProgress(mem)
  /\ RunFails
  /\ UNCHANGED <<file, cloudVars, sessionVars, idx, outcome, dir, enterVars,
                 saveFails>>

\* What run() does before it invokes the iterative deployment throws, or what
\* runIterativeRollback does before it starts its machine.
PlanThrows ==
  /\ "prepare" \in Faults
  /\ pc = "planning" \/ (pc = "started" /\ ResumesRollback)
  /\ pc' = "done"
  /\ UNCHANGED <<file, cloudVars, sessionVars, idx, outcome, mem, dir,
                 mainSave, enterVars, saveFails>>

DeployMachineStarts ==
  /\ pc = "preparing"
  /\ machine' = "deploy"
  /\ TriggerDeploy(0)
  /\ UNCHANGED <<file, cloudVars, cmd, sessions, dir, enterVars, saveFails>>

StateFileDeleted ==
  /\ pc = "cleaning"
  /\ file' = IdleState /\ pc' = "done"
  /\ UNCHANGED <<cloudVars, sessionVars, idx, outcome, mem, dir, mainSave,
                 enterVars, saveFails>>

FailSaved(ok) ==
  /\ pc = "failing"
  /\ Upload(mainSave, ok)
  /\ pc' = "done"
  /\ UNCHANGED <<cloudVars, sessionVars, idx, outcome, mem, dir, mainSave,
                 enterVars>>

\* The process exits, and startRollBackFn with it if it has not finished.
Exit ==
  /\ pc = "done"
  /\ pc' = "off" /\ enter' = "idle"
  /\ UNCHANGED <<file, cloudVars, sessionVars, idx, outcome, mem, dir,
                 mainSave, enterSave, saveFails>>

Crash ==
  /\ "crash" \in Faults /\ pc \notin {"off", "done"}
  /\ pc' = "off" /\ enter' = "idle"
  /\ UNCHANGED <<file, cloudVars, sessionVars, idx, outcome, mem, dir,
                 mainSave, enterSave, saveFails>>

-----------------------------------------------------------------------------
(* Deploying *)

\* doDeploy goes on whether or not the status could be saved.
StepSaved(ok) ==
  /\ pc \in {"deploying", "rollingBack"}
  /\ Upload(mainSave, ok)
  /\ pc' = IF pc = "deploying" THEN "updating" ELSE "updatingBack"
  /\ UNCHANGED <<cloudVars, sessionVars, idx, outcome, mem, dir, mainSave,
                 enterVars>>

\* Where the operation doDeploy was given leads: stacks[idx].deployment or
\* stacks[idx].rollback.
Destination == IF pc = "updating" THEN idx + 1 ELSE idx

\* CloudFormation takes the update unless the stack is busy or broken, or
\* there is nothing to change.  The rollback template of position 0 is a copy
\* under another key: asking for it at position 0 may or may not be a change.
AtRest          == cfn \in {"complete", "rolledBack"}
MayUpdate       == AtRest /\ (Destination # pos \/ pos = 0)
NothingToChange == Destination = pos

UpdateStack ==
  /\ pc \in {"updating", "updatingBack"} /\ MayUpdate
  /\ cfn' = "inProgress" /\ target' = Destination
  /\ pc' = IF pc = "updating" THEN "waitingForDeployment" ELSE "waitingForRollback"
  /\ UNCHANGED <<file, pos, sessionVars, idx, outcome, mem, dir, mainSave,
                 enterVars, saveFails>>

UpdateRejected == ~AtRest \/ NothingToChange \/ "update" \in Faults

DeployRejected ==
  /\ pc = "updating" /\ UpdateRejected
  /\ EnterRollback
  /\ UNCHANGED <<cloudVars, sessionVars>>

WaitSucceeds == cfn = "complete"
\* Mutants of WaitFails: the waiter does not know UPDATE_ROLLBACK_FAILED; it
\* takes every status but success for a failure.
WaitFailsNotStuck   == cfn = "rolledBack" \/ ("wait" \in Faults /\ cfn = "inProgress")
WaitFailsImpatient  == cfn # "complete"

WaitFails    == cfn \in {"rolledBack", "stuck"} \/ ("wait" \in Faults /\ cfn = "inProgress")

DeploymentDone ==
  /\ pc = "waitingForDeployment" /\ WaitSucceeds
  /\ pc' = "waitForTables"
  /\ UNCHANGED <<file, cloudVars, sessionVars, idx, outcome, mem, dir,
                 mainSave, enterVars, saveFails>>

DeploymentFails ==
  /\ pc = "waitingForDeployment" /\ WaitFails
  /\ EnterRollback
  /\ UNCHANGED <<cloudVars, sessionVars>>

\* waitForIndices: the tables are ready and the step advances; an advanceStep
\* that throws is swallowed.
TablesReady ==
  /\ pc = "waitForTables"
  /\ IF MayAdvance(mem, dir)
     THEN /\ mem' = Advance(mem, dir) /\ mainSave' = mem' /\ pc' = "advancing"
          /\ UNCHANGED <<idx, outcome>>
     ELSE TriggerDeploy(idx + 1)
  /\ UNCHANGED <<file, cloudVars, sessionVars, dir, enterVars, saveFails>>

Advanced(ok) ==
  /\ pc = "advancing"
  /\ Upload(mainSave, ok)
  /\ TriggerDeploy(idx + 1)
  /\ UNCHANGED <<cloudVars, sessionVars, dir, enterVars>>

-----------------------------------------------------------------------------
(* Rolling back *)

\* preRollback: the stack, then the tables, of the interrupted step.
PreviousDone ==
  /\ pc = "waitingForPrevious" /\ WaitSucceeds
  /\ pc' = "previousTables"
  /\ UNCHANGED <<file, cloudVars, sessionVars, idx, outcome, mem, dir,
                 mainSave, enterVars, saveFails>>

\* A wait or an update fails while rolling back: the machine ends in failed.
RollbackFails ==
  /\ \/ pc \in {"waitingForPrevious", "waitingForRollback"} /\ WaitFails
     \/ pc = "updatingBack" /\ UpdateRejected
  /\ MachineEnds("failed")
  /\ UNCHANGED <<file, cloudVars, sessionVars, idx, dir, enterVars, saveFails>>

\* The rollback machine, unlike the deploy machine, awaits startRollBackFn.
PreviousTablesReady ==
  /\ pc = "previousTables"
  /\ pc' = "enteringRollback"
  /\ StartRollBackFn
  /\ UNCHANGED <<file, cloudVars, sessionVars, idx, outcome, mainSave, saveFails>>

\* Mutant of RollbackEntered: it does not wait for startRollBackFn either.
RollbackEnteredAtOnce ==
  /\ pc = "enteringRollback"
  /\ TriggerRollback(idx - 1)
  /\ UNCHANGED <<file, cloudVars, sessionVars, dir, enterVars, saveFails>>

RollbackEntered ==
  /\ pc = "enteringRollback" /\ enter = "idle"
  /\ TriggerRollback(idx - 1)
  /\ UNCHANGED <<file, cloudVars, sessionVars, dir, enterVars, saveFails>>

RollbackDone ==
  /\ pc = "waitingForRollback" /\ WaitSucceeds
  /\ pc' = "rollbackTables"
  /\ UNCHANGED <<file, cloudVars, sessionVars, idx, outcome, mem, dir,
                 mainSave, enterVars, saveFails>>

RollbackTablesReady ==
  /\ pc = "rollbackTables"
  /\ IF MayAdvance(mem, dir)
     THEN /\ mem' = Advance(mem, dir) /\ mainSave' = mem'
          /\ pc' = "rollbackAdvancing" /\ UNCHANGED <<idx, outcome>>
     ELSE TriggerRollback(idx - 1)
  /\ UNCHANGED <<file, cloudVars, sessionVars, dir, enterVars, saveFails>>

RollbackAdvanced(ok) ==
  /\ pc = "rollbackAdvancing"
  /\ Upload(mainSave, ok)
  /\ TriggerRollback(idx - 1)
  /\ UNCHANGED <<cloudVars, sessionVars, dir, enterVars>>

\* startRollBackFn's two uploads: startCurrentStep follows a startRollback
\* that was saved, and only that.
EnterSaved(ok) ==
  /\ enter = "starting"
  /\ Upload(enterSave, ok)
  /\ IF ok /\ MayStartStep(mem, dir)
     THEN /\ mem' = StartStep(mem, dir, FALSE)
          /\ enter' = "stepping" /\ enterSave' = mem'
     ELSE enter' = "idle" /\ UNCHANGED <<mem, enterSave>>
  /\ UNCHANGED <<cloudVars, sessionVars, pc, idx, outcome, dir, mainSave>>

EnterStepSaved(ok) ==
  /\ enter = "stepping"
  /\ Upload(enterSave, ok)
  /\ enter' = "idle"
  /\ UNCHANGED <<cloudVars, sessionVars, pc, idx, outcome, mem, dir, mainSave,
                 enterSave>>

-----------------------------------------------------------------------------
(* CloudFormation.  An upload issued before an update began ends before the *)
(* update does: seconds against minutes.                                    *)

UpdateEnds(status, position) ==
  /\ cfn = "inProgress" /\ enter = "idle"
  /\ cfn' = status /\ pos' = position
  /\ UNCHANGED <<file, target, pc, sessionVars, idx, outcome, mem, dir,
                 mainSave, enterVars, saveFails>>

StackUpdated    == UpdateEnds("complete", target)
StackRolledBack == "stack" \in Faults /\ UpdateEnds("rolledBack", pos)
StackStuck      == "stuck" \in Faults /\ UpdateEnds("stuck", pos)

-----------------------------------------------------------------------------

Main ==
  \/ RollbackRefused \/ RollbackMachineStarts \/ Plan
  \/ PushRefused \/ StartsDeployment \/ PlanThrows \/ RunThrows
  \/ DeployMachineStarts
  \/ StateFileDeleted \/ Exit
  \/ UpdateStack \/ DeployRejected \/ DeploymentDone \/ DeploymentFails
  \/ TablesReady
  \/ PreviousDone \/ RollbackFails \/ PreviousTablesReady \/ RollbackEntered
  \/ RollbackDone \/ RollbackTablesReady
  \/ \E ok \in BOOLEAN :
       StartSaved(ok) \/ FailSaved(ok) \/ StepSaved(ok) \/ Advanced(ok)
         \/ RollbackAdvanced(ok)

Enter == \E ok \in BOOLEAN : EnterSaved(ok) \/ EnterStepSaved(ok)

Stack == StackUpdated \/ StackRolledBack \/ StackStuck

Next ==
  \/ \E c \in {"push", "force", "rollback"} : StartCommand(c)
  \/ Main \/ Enter \/ Stack \/ Crash

Spec == Init /\ [][Next]_vars

\* Promises settle and CloudFormation ends what it starts; nobody has to run
\* a command or kill one.
Fairness == WF_vars(Main) /\ WF_vars(Enter) /\ WF_vars(Stack)

FairSpec == Spec /\ Fairness

-----------------------------------------------------------------------------
(* Properties *)

\* The recorded outcome is the stack's: a state file that says DEPLOYED lies
\* beside a stack at the new template, one that says ROLLED_BACK beside a
\* stack at the old one, whichever process wrote it and whatever uploads of
\* advanceStep, startRollback and failDeployment were lost on the way.
OutcomeMatchesStack ==
  /\ file.status = "DEPLOYED"    => pos = N
  /\ file.status = "ROLLED_BACK" => pos = 0

\* currentStepIndex follows the machine's currentIndex: while a machine runs
\* they are equal on the way forward, and on the way back the record is never
\* ahead and at most one step behind, although advanceStep's errors are
\* swallowed and startRollBackFn races with it.
StateTracksMachine ==
  /\ pc \in {"deploying", "updating", "waitingForDeployment", "waitForTables"} =>
       mem.cur = idx /\ mem.step[idx] = "DEPLOYING"
  /\ pc \in RollbackPCs \ {"rollbackAdvancing"} => mem.cur \in {idx, idx + 1}
  /\ pc = "rollbackAdvancing" => mem.cur \in {idx - 1, idx}

\* The shape a recovering process relies on: in a state file in progress, the
\* steps before the current one have all been deployed or all wait for their
\* rollback, each with the key its rollback needs, and the current step is
\* the only one a process can have been working on.
RecordIsAProfile ==
  IsInProgress(file) =>
    \A i \in Steps :
      /\ i < file.cur =>
           /\ file.key[i]
           /\ file.step[i] = IF file.status = "DEPLOYING" THEN "DEPLOYED"
                                                         ELSE "WAITING_FOR_ROLLBACK"
      /\ i > file.cur =>
           file.step[i] \in {"WAITING_FOR_DEPLOYMENT"}
             \cup (IF file.status = "DEPLOYING" THEN {} ELSE {"ROLLED_BACK"})

\* runIterativeRollback filters the steps it rolls back by status, and the
\* machine then takes positions in the filtered list for step numbers: the
\* filter never drops a step of a record it does not refuse.
NothingFilteredOut ==
  IsInProgress(file) /\ HasEveryKey(file) => KeepsEveryStep(file)

\* However processes are killed and resumed, CloudFormation is asked to go at
\* most one template away from where it stands, plus one for each upload of
\* the state file that was lost.
UpdatesStayClose ==
  [][UpdateStack => target' - pos <= 1 + saveFails
                    /\ pos - target' <= 1 + saveFails]_vars

\* The stack is led as DeploymentPromise says, from one template to the next
\* and back, by processes that are not killed.
Phase ==
  CASE pc \in DeployPCs     -> "forward"
    [] pc \in RollbackPCs   -> "backward"
    [] pc \in RunPCs \cup PreRollPCs -> IF pos \in {0, N} THEN "idle" ELSE "broken"

Promise == INSTANCE DeploymentPromise WITH N <- N, pos <- pos, phase <- Phase

KeepsPromise == Promise!Spec

\* Every command comes to an end, by itself or killed.
EveryCommandEnds == (pc # "off") ~> (pc = "off")

\* A machine that rolled every step back leaves that outcome in the state
\* file (deploymentState.ts, deployment-state-manager.test.ts).
FullRollbackIsRecorded ==
  pc = "done" /\ outcome = "rolledBack" => file.status = "ROLLED_BACK"

\* What the error message of a refused push says: an interrupted deployment
\* can be rolled back with `amplify push --iterative-rollback`.
InterruptedCanRollBack == pc = "off" /\ IsInProgress(file) => HasEveryKey(file)

\* What the message goes on to say: the command that rolls the interrupted
\* deployment back succeeds when CloudFormation and S3 do their part (leaving
\* position 0 aside, where the stack already is what it was).
RollbackCommandSucceeds ==
  pc = "done" /\ machine = "rollback" /\ pos # 0 => outcome = "rolledBack"

\* A push is refused while the stack is being updated: a state file that lets
\* one in lies beside a stack at rest.
PushFindsStackAtRest ==
  pc = "off" /\ ~IsInProgress(file) => cfn # "inProgress"
=============================================================================
