--------------------------- MODULE IterativeProofs ---------------------------
(***************************************************************************)
(* Proofs about IterativeDeployment for every number of steps, every set   *)
(* of faults and every bound on lost uploads and processes.                *)
(***************************************************************************)
EXTENDS IterativeInvariants, DeploymentStateProofs

AllPCs == DeployPCs \cup PreRollPCs \cup RollbackPCs \cup RunPCs

-----------------------------------------------------------------------------
(* What the pieces that handlers share do. *)

\* saveState writes a state or nothing.
LEMMA UploadFacts ==
  ASSUME TypeOK, NEW body \in State, NEW ok \in BOOLEAN, Upload(body, ok)
  PROVE  /\ file' \in State /\ saveFails' \in 0 .. MaxSaveFailures
         /\ file' \in {file, body}
BY IterativeAssumption DEF Upload, TypeOK

\* run()'s catch fails the deployment or leaves a final outcome alone.
LEMMA RunFailsFacts ==
  ASSUME TypeOK, RunFails
  PROVE  /\ mem' \in State /\ mainSave' \in State
         /\ \/ pc' = "failing" /\ mem'.status = "FAILED" /\ mainSave' = mem'
            \/ pc' = "done" /\ mem' = mem
BY FailDeploymentFacts DEF RunFails, TypeOK

\* doDeploy starts the current step or goes straight to the update.
LEMMA DoDeployFacts ==
  ASSUME TypeOK, NEW saving, NEW updating, NEW hasKey \in BOOLEAN,
         DoDeploy(saving, updating, hasKey)
  PROVE  /\ mem' \in State /\ mainSave' \in State
         /\ pc' \in {saving, updating}
         /\ mem'.status = mem.status /\ mem'.cur = mem.cur
         /\ \A j \in Steps : j # mem.cur => mem'.step[j] = mem.step[j]
         /\ MayStartStep(mem, dir) =>
              CurrentStep(mem') = (IF dir = 1 THEN "DEPLOYING" ELSE "ROLLING_BACK")
         /\ ~MayStartStep(mem, dir) => mem' = mem
         /\ pc' = saving /\ saving # updating => mainSave'.status = mem.status
BY StartStepFacts DEF DoDeploy, TypeOK, CurrentStep

\* The deploy machine's NEXT ends it or deploys the next stack.
LEMMA TriggerDeployFacts ==
  ASSUME TypeOK, NEW i \in 0 .. N, TriggerDeploy(i)
  PROVE  /\ idx' = i /\ outcome' \in {outcome, "deployed"}
         /\ mem' \in State /\ mainSave' \in State
         /\ i = N => pc' = "cleaning" /\ mem' = mem
         /\ i < N =>
              /\ pc' \in {"deploying", "updating"}
              /\ mem'.status = mem.status /\ mem'.cur = mem.cur
              /\ \A j \in Steps : j # mem.cur => mem'.step[j] = mem.step[j]
              /\ MayStartStep(mem, dir) =>
                   CurrentStep(mem') = (IF dir = 1 THEN "DEPLOYING" ELSE "ROLLING_BACK")
              /\ pc' = "deploying" => mainSave'.status = mem.status
<1>1. CASE i = N
  BY <1>1, NAssumption DEF TriggerDeploy, TypeOK
<1>2. CASE i < N
  <2>1. idx' = i /\ outcome' = outcome /\ DoDeploy("deploying", "updating", i < N - 1)
    BY <1>2, NAssumption DEF TriggerDeploy
  <2>2. (i < N - 1) \in BOOLEAN
    OBVIOUS
  <2>3. /\ mem' \in State /\ mainSave' \in State
        /\ pc' \in {"deploying", "updating"}
        /\ mem'.status = mem.status /\ mem'.cur = mem.cur
        /\ \A j \in Steps : j # mem.cur => mem'.step[j] = mem.step[j]
        /\ MayStartStep(mem, dir) =>
             CurrentStep(mem') = (IF dir = 1 THEN "DEPLOYING" ELSE "ROLLING_BACK")
        /\ ~MayStartStep(mem, dir) => mem' = mem
        /\ pc' = "deploying" /\ "deploying" # "updating" => mainSave'.status = mem.status
    BY <2>1, <2>2, DoDeployFacts
  <2>4. QED
    BY <1>2, <2>1, <2>3, NAssumption
<1>3. QED
  BY <1>1, <1>2, NAssumption

\* The end of a machine: the deploy machine fails the deployment, the rollback
\* machine leaves the record as it is.
LEMMA MachineEndsFacts ==
  ASSUME TypeOK, NEW final, MachineEnds(final)
  PROVE  /\ outcome' = final /\ mem' \in State /\ mainSave' \in State
         /\ machine = "deploy" =>
              \/ pc' = "failing" /\ mem'.status = "FAILED" /\ mainSave' = mem'
              \/ pc' = "done" /\ mem' = mem
         /\ machine # "deploy" =>
              /\ mem' = mem
              /\ \/ pc' = "done"
                 \/ pc' = "planning" /\ machine = "rollback" /\ final = "rolledBack"
<1>1. CASE machine = "deploy"
  BY <1>1, RunFailsFacts DEF MachineEnds
<1>2. CASE machine # "deploy"
  BY <1>2 DEF MachineEnds, TypeOK
<1>3. QED
  BY <1>1, <1>2

\* The NEXT of a rollback region ends the machine or rolls the next stack back.
LEMMA TriggerRollbackFacts ==
  ASSUME TypeOK, NEW i \in -1 .. N - 1, TriggerRollback(i)
  PROVE  /\ idx' = i /\ outcome' \in {outcome, "rolledBack"}
         /\ mem' \in State /\ mainSave' \in State
         /\ i = -1 => MachineEnds("rolledBack") /\ pc' \in {"done", "failing", "planning"}
         /\ i >= 0 =>
              /\ pc' \in {"rollingBack", "updatingBack"}
              /\ mem'.status = mem.status /\ mem'.cur = mem.cur
              /\ \A j \in Steps : j # mem.cur => mem'.step[j] = mem.step[j]
              /\ MayStartStep(mem, dir) =>
                   CurrentStep(mem') = (IF dir = 1 THEN "DEPLOYING" ELSE "ROLLING_BACK")
              /\ ~MayStartStep(mem, dir) => mem' = mem
              /\ pc' = "rollingBack" => mainSave'.status = mem.status
<1>1. CASE i = -1
  <2>1. idx' = i /\ MachineEnds("rolledBack")
    BY <1>1 DEF TriggerRollback
  <2>2. /\ outcome' = "rolledBack" /\ mem' \in State /\ mainSave' \in State
        /\ pc' \in {"done", "failing", "planning"}
    BY <2>1, MachineEndsFacts
  <2>3. QED
    BY <1>1, <2>1, <2>2
<1>2. CASE i >= 0
  <2> ~(i < 0)
    BY <1>2, NAssumption
  <2>1. idx' = i /\ outcome' = outcome /\ DoDeploy("rollingBack", "updatingBack", FALSE)
    BY Zenon DEF TriggerRollback
  <2>2. /\ mem' \in State /\ mainSave' \in State
        /\ pc' \in {"rollingBack", "updatingBack"}
        /\ mem'.status = mem.status /\ mem'.cur = mem.cur
        /\ \A j \in Steps : j # mem.cur => mem'.step[j] = mem.step[j]
        /\ MayStartStep(mem, dir) =>
             CurrentStep(mem') = (IF dir = 1 THEN "DEPLOYING" ELSE "ROLLING_BACK")
        /\ ~MayStartStep(mem, dir) => mem' = mem
        /\ pc' = "rollingBack" /\ "rollingBack" # "updatingBack" => mainSave'.status = mem.status
    BY <2>1, DoDeployFacts
  <2>3. QED
    BY <1>2, <2>1, <2>2
<1>3. QED
  BY <1>1, <1>2, NAssumption

\* startRollBackFn turns the record round or leaves it alone.
LEMMA StartRollBackFnFacts ==
  ASSUME TypeOK, StartRollBackFn
  PROVE  /\ mem' \in State /\ enterSave' \in State /\ dir' \in Directions
         /\ enter' \in {enter, "starting"}
         /\ MayStartRollback(mem, dir) =>
              /\ dir' = -1 /\ enter' = "starting" /\ enterSave' = mem'
              /\ mem'.status = "ROLLING_BACK" /\ mem'.cur = mem.cur
              /\ \A j \in Steps : j <= mem.cur => mem'.step[j] = "WAITING_FOR_ROLLBACK"
BY StartRollbackFacts DEF StartRollBackFn, TypeOK, Directions

\* advanceStep keeps the record well formed.
LEMMA AdvanceType ==
  ASSUME NEW s \in State, NEW d \in Directions
  PROVE  Advance(s, d) \in State
BY AdvanceForwardFacts, AdvanceBackwardFacts DEF Advance

-----------------------------------------------------------------------------
(* Types *)

\* Every action keeps the types, and currentIndex within its bounds.
LEMMA TypeStep ==
  ASSUME Typed, [Next]_vars
  PROVE  Typed'
<1> USE NAssumption, IterativeAssumption
    DEF Typed, IndexInv, Steps, TypeOK, DeployPCs, PreRollPCs, RollbackPCs, RunPCs,
        cloudVars, sessionVars, enterVars
<1>1. ASSUME RollbackRefused PROVE Typed'
  BY <1>1 DEF RollbackRefused, Directions
<1>2. ASSUME Plan PROVE Typed'
  BY <1>2 DEF Plan, Directions
<1>3. ASSUME PushRefused PROVE Typed'
  BY <1>3 DEF PushRefused, Directions
<1>4. ASSUME PlanThrows PROVE Typed'
  BY <1>4 DEF PlanThrows, Directions
<1>5. ASSUME Exit PROVE Typed'
  BY <1>5 DEF Exit, Directions
<1>6. ASSUME Crash PROVE Typed'
  BY <1>6 DEF Crash, Directions
<1>7. ASSUME UpdateStack PROVE Typed'
  BY <1>7 DEF UpdateStack, Destination, MayUpdate
<1>8. ASSUME DeploymentDone PROVE Typed'
  BY <1>8 DEF DeploymentDone, Directions
<1>9. ASSUME PreviousDone PROVE Typed'
  BY <1>9 DEF PreviousDone, Directions
<1>10. ASSUME RollbackDone PROVE Typed'
  BY <1>10 DEF RollbackDone, Directions
<1>11. ASSUME NEW c \in {"push", "force", "rollback"}, StartCommand(c) PROVE Typed'
  BY <1>11 DEF StartCommand, Directions
<1>12. ASSUME RollbackMachineStarts PROVE Typed'
  BY <1>12 DEF RollbackMachineStarts, State, Steps
<1>13. ASSUME StartsDeployment PROVE Typed'
  BY <1>13, InitialStates DEF StartsDeployment, Directions
<1>14. ASSUME StateFileDeleted PROVE Typed'
  BY <1>14, InitialStates DEF StateFileDeleted
<1>15. ASSUME RunThrows PROVE Typed'
  <2>1. RunFails /\ UNCHANGED <<file, pos, cfn, target, cmd, machine, sessions, idx,
                                outcome, dir, enter, enterSave, saveFails>>
    BY <1>15 DEF RunThrows
  <2>2. QED
    BY <2>1, RunFailsFacts
<1>16. ASSUME NEW ok \in BOOLEAN, StartSaved(ok) PROVE Typed'
  <2>1. Upload(mainSave, ok) /\ UNCHANGED <<pos, cfn, target, cmd, machine, sessions,
                                            idx, outcome, dir, enter, enterSave>>
    BY <1>16 DEF StartSaved
  <2>2. file' \in State /\ saveFails' \in 0 .. MaxSaveFailures
    BY <2>1, UploadFacts
  <2>3. mem' \in State /\ mainSave' \in State /\ pc' \in {"preparing", "failing", "done"}
    BY <1>16, RunFailsFacts DEF StartSaved
  <2>4. QED
    BY <2>1, <2>2, <2>3
<1>17. ASSUME NEW ok \in BOOLEAN, FailSaved(ok) PROVE Typed'
  BY <1>17, UploadFacts DEF FailSaved
<1>18. ASSUME NEW ok \in BOOLEAN, StepSaved(ok) PROVE Typed'
  BY <1>18, UploadFacts DEF StepSaved
<1>19. ASSUME NEW ok \in BOOLEAN, EnterStepSaved(ok) PROVE Typed'
  BY <1>19, UploadFacts DEF EnterStepSaved
<1>20. ASSUME DeployMachineStarts PROVE Typed'
  BY <1>20, TriggerDeployFacts DEF DeployMachineStarts
<1>21. ASSUME TablesReady PROVE Typed'
  <2>1. CASE MayAdvance(mem, dir)
    BY <1>21, <2>1, AdvanceType DEF TablesReady
  <2>2. CASE ~MayAdvance(mem, dir)
    BY <1>21, <2>2, TriggerDeployFacts DEF TablesReady
  <2>3. QED
    BY <2>1, <2>2
<1>22. ASSUME NEW ok \in BOOLEAN, Advanced(ok) PROVE Typed'
  BY <1>22, UploadFacts, TriggerDeployFacts DEF Advanced
<1>23. ASSUME DeployRejected PROVE Typed'
  BY <1>23, StartRollBackFnFacts DEF DeployRejected, EnterRollback
<1>24. ASSUME DeploymentFails PROVE Typed'
  BY <1>24, StartRollBackFnFacts DEF DeploymentFails, EnterRollback
<1>25. ASSUME RollbackFails PROVE Typed'
  BY <1>25, MachineEndsFacts DEF RollbackFails
<1>26. ASSUME PreviousTablesReady PROVE Typed'
  BY <1>26, StartRollBackFnFacts DEF PreviousTablesReady
<1>27. ASSUME RollbackEntered PROVE Typed'
  BY <1>27, TriggerRollbackFacts DEF RollbackEntered
<1>28. ASSUME RollbackTablesReady PROVE Typed'
  <2>1. CASE MayAdvance(mem, dir)
    BY <1>28, <2>1, AdvanceType DEF RollbackTablesReady
  <2>2. CASE ~MayAdvance(mem, dir)
    <3>1. pc = "rollbackTables" /\ TriggerRollback(idx - 1)
          /\ UNCHANGED <<file, pos, cfn, target, cmd, machine, sessions, dir, enter,
                         enterSave, saveFails>>
      BY <1>28, <2>2 DEF RollbackTablesReady
    <3>2. idx - 1 \in -1 .. N - 1
      BY <3>1
    <3>3. QED
      BY <3>1, <3>2, TriggerRollbackFacts
  <2>3. QED
    BY <2>1, <2>2
<1>29. ASSUME NEW ok \in BOOLEAN, RollbackAdvanced(ok) PROVE Typed'
  <2>1. pc = "rollbackAdvancing" /\ Upload(mainSave, ok) /\ TriggerRollback(idx - 1)
        /\ UNCHANGED <<pos, cfn, target, cmd, machine, sessions, dir, enter, enterSave>>
    BY <1>29 DEF RollbackAdvanced
  <2>2. file' \in State /\ saveFails' \in 0 .. MaxSaveFailures
    BY <2>1, UploadFacts
  <2>3. idx - 1 \in -1 .. N - 1
    BY <2>1
  <2>4. /\ idx' = idx - 1 /\ outcome' \in {outcome, "rolledBack"}
        /\ mem' \in State /\ mainSave' \in State
        /\ idx - 1 = -1 => pc' \in {"done", "failing", "planning"}
        /\ idx - 1 >= 0 => pc' \in {"rollingBack", "updatingBack"}
    BY <2>1, <2>3, TriggerRollbackFacts
  <2>5. QED
    BY <2>1, <2>2, <2>3, <2>4
<1>30. ASSUME NEW ok \in BOOLEAN, EnterSaved(ok) PROVE Typed'
  <2>1. enter = "starting" /\ Upload(enterSave, ok)
        /\ UNCHANGED <<pos, cfn, target, cmd, machine, sessions, pc, idx, outcome,
                       dir, mainSave>>
    BY <1>30 DEF EnterSaved
  <2>2. file' \in State /\ saveFails' \in 0 .. MaxSaveFailures
    BY <2>1, UploadFacts
  <2>3. mem' \in State /\ enterSave' \in State /\ enter' \in {"idle", "starting", "stepping"}
    <3>1. StartStep(mem, dir, FALSE) \in State
      BY StartStepFacts
    <3>2. \/ mem' = StartStep(mem, dir, FALSE) /\ enter' = "stepping" /\ enterSave' = mem'
          \/ enter' = "idle" /\ mem' = mem /\ enterSave' = enterSave
      BY <1>30, Zenon DEF EnterSaved
    <3>3. QED
      BY <3>1, <3>2
  <2>4. QED
    BY <2>1, <2>2, <2>3
<1>31. ASSUME StackUpdated \/ StackRolledBack \/ StackStuck PROVE Typed'
  BY <1>31 DEF StackUpdated, StackRolledBack, StackStuck, UpdateEnds
<1>32. ASSUME UNCHANGED vars PROVE Typed'
  BY <1>32 DEF vars
<1>33. QED
  BY <1>1, <1>2, <1>3, <1>4, <1>5, <1>6, <1>7, <1>8, <1>9, <1>10, <1>11, <1>12, <1>13, <1>14, <1>15, <1>16, <1>17, <1>18, <1>19, <1>20, <1>21, <1>22, <1>23, <1>24, <1>25, <1>26, <1>27, <1>28, <1>29, <1>30, <1>31, <1>32
     DEF Next, Main, Enter, Stack

\* TypeOK holds in every reachable state, whatever the number of steps and
\* the faults.
THEOREM TypeCorrect == Spec => []TypeOK
<1>1. Init => Typed
  BY InitialStates, NAssumption, IterativeAssumption
     DEF Init, Typed, IndexInv, TypeOK, DeployPCs, PreRollPCs, RollbackPCs, RunPCs,
         Directions
<1>2. Typed /\ [Next]_vars => Typed'
  BY TypeStep
<1>3. Typed => TypeOK
  BY DEF Typed
<1>4. QED
  BY <1>1, <1>2, <1>3, PTL DEF Spec

-----------------------------------------------------------------------------
(* The record *)

\* A deploy machine that goes on to stack i finds the record standing on it.
LEMMA DeployGoesOn ==
  ASSUME Typed, NEW i \in 0 .. N, TriggerDeploy(i), UNCHANGED <<dir, enter>>,
         machine' = "deploy", dir = 1, enter = "idle",
         i < N => mem.status = "DEPLOYING" /\ mem.cur = i /\ Untouched(mem, i - 1)
  PROVE  RecordInv'
<1>1. TypeOK
  BY DEF Typed
<1>2. CASE i = N
  <2>1. pc' = "cleaning"
    BY <1>1, <1>2, TriggerDeployFacts
  <2>2. QED
    BY <2>1 DEF RecordInv, EnterInv, StartInv, DeployInv, PreRollbackInv, RollbackInv,
                DeployPCs, PreRollPCs, RollbackPCs
<1>3. CASE i < N
  <2>1. i \in Steps /\ mem.step[i] = "WAITING_FOR_DEPLOYMENT"
        /\ \A j \in Steps : j > i => mem.step[j] = "WAITING_FOR_DEPLOYMENT"
    BY <1>3, NAssumption DEF Untouched, Steps
  <2>2. MayStartStep(mem, dir)
    BY <1>3, <2>1 DEF MayStartStep, CurrentStep
  <2>3. /\ idx' = i /\ pc' \in {"deploying", "updating"}
        /\ mem'.status = "DEPLOYING" /\ mem'.cur = i
        /\ \A j \in Steps : j # i => mem'.step[j] = mem.step[j]
        /\ CurrentStep(mem') = "DEPLOYING"
    BY <1>1, <1>3, <2>2, TriggerDeployFacts
  <2>4. Untouched(mem', i) /\ mem'.step[i] = "DEPLOYING"
    BY <2>1, <2>3 DEF Untouched, CurrentStep, Steps
  <2>5. QED
    BY <2>1, <2>3, <2>4
       DEF RecordInv, EnterInv, StartInv, DeployInv, PreRollbackInv, RollbackInv,
           DeployPCs, PreRollPCs, RollbackPCs
<1>4. QED
  BY <1>2, <1>3, NAssumption

\* A machine that goes on to roll stack i back finds the record on it, or on
\* the step above it.
LEMMA RollbackGoesOn ==
  ASSUME Typed, NEW i \in -1 .. N - 1, TriggerRollback(i),
         UNCHANGED <<machine, dir, enter>>, dir = -1,
         machine \in {"deploy", "rollback"}, enter # "idle" => machine = "deploy",
         i >= 0 => WaitsForRollback(mem) /\ mem.cur \in {i, i + 1}
  PROVE  RecordInv'
<1>1. TypeOK
  BY DEF Typed
<1>2. CASE i = -1
  <2>1. MachineEnds("rolledBack")
    BY <1>1, <1>2, TriggerRollbackFacts
  <2>2. pc' \in {"done", "failing", "planning"} /\ (machine = "deploy" => pc' # "planning")
    BY <1>1, <2>1, MachineEndsFacts
  <2>3. QED
    BY <2>2 DEF RecordInv, EnterInv, StartInv, DeployInv, PreRollbackInv, RollbackInv,
                DeployPCs, PreRollPCs, RollbackPCs
<1>3. CASE i >= 0
  <2>1. i \in Steps
    BY <1>3, NAssumption DEF Steps
  <2>2. /\ idx' = i /\ pc' \in {"rollingBack", "updatingBack"}
        /\ mem'.status = mem.status /\ mem'.cur = mem.cur
        /\ \A j \in Steps : j # mem.cur => mem'.step[j] = mem.step[j]
        /\ MayStartStep(mem, dir) => CurrentStep(mem') = "ROLLING_BACK"
        /\ ~MayStartStep(mem, dir) => mem' = mem
    BY <1>1, <1>3, TriggerRollbackFacts
  <2>3. CurrentStep(mem') = "ROLLING_BACK"
    BY <1>3, <2>2 DEF WaitsForRollback, MayStartStep
  <2>4. WaitsForRollback(mem')
    BY <1>1, <1>3, <2>2, <2>3 DEF WaitsForRollback, Steps, TypeOK, State
  <2>5. QED
    BY <1>3, <2>1, <2>2, <2>3, <2>4
       DEF RecordInv, EnterInv, StartInv, DeployInv, PreRollbackInv, RollbackInv,
           DeployPCs, PreRollPCs, RollbackPCs
<1>4. QED
  BY <1>2, <1>3

\* startRollBackFn turns a record in progress into one that waits for its
\* rollback.
LEMMA RecordTurns ==
  ASSUME TypeOK, StartRollBackFn, IsInProgress(mem), dir = 1
  PROVE  /\ dir' = -1 /\ enter' = "starting" /\ mem'.cur = mem.cur
         /\ WaitsForRollback(mem')
<1>1. /\ dir' = -1 /\ enter' = "starting" /\ mem'.cur = mem.cur
      /\ mem'.status = "ROLLING_BACK"
      /\ \A j \in Steps : j <= mem.cur => mem'.step[j] = "WAITING_FOR_ROLLBACK"
  BY StartRollBackFnFacts DEF MayStartRollback
<1>2. mem.cur \in Steps
  BY DEF TypeOK, State
<1>3. QED
  BY <1>1, <1>2 DEF WaitsForRollback, CurrentStep, Steps

\* The deploy machine enters its rollback region with the record on its stack.
LEMMA DeployTurns ==
  ASSUME Typed, RecordInv, pc \in {"updating", "waitingForDeployment"},
         EnterRollback, UNCHANGED machine
  PROVE  RecordInv'
<1>1. TypeOK
  BY DEF Typed
<1>2. /\ machine = "deploy" /\ dir = 1 /\ idx \in Steps /\ mem.cur = idx
      /\ mem.status = "DEPLOYING"
  BY DEF RecordInv, DeployInv, DeployPCs
<1>3. StartRollBackFn /\ pc' = "rollbackTables" /\ idx' = idx
  BY DEF EnterRollback
<1>4. /\ dir' = -1 /\ mem'.cur = idx /\ WaitsForRollback(mem')
  BY <1>1, <1>2, <1>3, RecordTurns DEF IsInProgress
<1>5. idx # idx + 1
  BY <1>2 DEF Steps
<1>6. QED
  BY <1>2, <1>3, <1>4, <1>5
     DEF RecordInv, EnterInv, StartInv, DeployInv, PreRollbackInv, RollbackInv,
         DeployPCs, PreRollPCs, RollbackPCs

\* Every action keeps the record in step with the machine.
LEMMA RecordStep ==
  ASSUME Typed, RecordInv, [Next]_vars
  PROVE  RecordInv'
<1> USE NAssumption, IterativeAssumption
    DEF RecordInv, EnterInv, StartInv, DeployInv, PreRollbackInv, RollbackInv,
        Untouched, WaitsForRollback, CurrentStep,
        DeployPCs, PreRollPCs, RollbackPCs, cloudVars, sessionVars, enterVars
<1>0. TypeOK /\ IndexInv
  BY DEF Typed
<1>1. ASSUME RollbackRefused PROVE RecordInv'
  BY <1>0, <1>1 DEF RollbackRefused
<1>2. ASSUME Plan PROVE RecordInv'
  BY <1>0, <1>2 DEF Plan
<1>3. ASSUME PushRefused PROVE RecordInv'
  BY <1>0, <1>3 DEF PushRefused
<1>4. ASSUME PlanThrows PROVE RecordInv'
  BY <1>0, <1>4 DEF PlanThrows
<1>5. ASSUME Exit PROVE RecordInv'
  BY <1>0, <1>5 DEF Exit
<1>6. ASSUME Crash PROVE RecordInv'
  BY <1>0, <1>6 DEF Crash
<1>7. ASSUME UpdateStack PROVE RecordInv'
  BY <1>0, <1>7 DEF UpdateStack
<1>8. ASSUME DeploymentDone PROVE RecordInv'
  BY <1>0, <1>8 DEF DeploymentDone
<1>9. ASSUME PreviousDone PROVE RecordInv'
  BY <1>0, <1>9 DEF PreviousDone
<1>10. ASSUME RollbackDone PROVE RecordInv'
  BY <1>0, <1>10 DEF RollbackDone
<1>11. ASSUME StateFileDeleted PROVE RecordInv'
  BY <1>0, <1>11 DEF StateFileDeleted
<1>12. ASSUME NEW c \in {"push", "force", "rollback"}, StartCommand(c) PROVE RecordInv'
  BY <1>12 DEF StartCommand
<1>13. ASSUME RollbackMachineStarts PROVE RecordInv'
  BY <1>0, <1>13 DEF RollbackMachineStarts, ResumesRollback, IsInProgress, TypeOK, State, Steps
<1>14. ASSUME StartsDeployment PROVE RecordInv'
  BY <1>14, InitialStates DEF StartsDeployment
<1>15. ASSUME RunThrows PROVE RecordInv'
  BY <1>0, <1>15, RunFailsFacts DEF RunThrows
<1>16. ASSUME NEW ok \in BOOLEAN, StartSaved(ok) PROVE RecordInv'
  BY <1>0, <1>16, RunFailsFacts, TriggerDeployFacts DEF StartSaved
<1>17. ASSUME NEW ok \in BOOLEAN, FailSaved(ok) PROVE RecordInv'
  BY <1>0, <1>17 DEF FailSaved
<1>18. ASSUME NEW ok \in BOOLEAN, StepSaved(ok) PROVE RecordInv'
  BY <1>0, <1>18 DEF StepSaved
<1>19. ASSUME NEW ok \in BOOLEAN, Advanced(ok) PROVE RecordInv'
  <2>1. /\ pc = "advancing" /\ TriggerDeploy(idx + 1) /\ UNCHANGED <<dir, enter, machine>>
        /\ machine = "deploy" /\ dir = 1 /\ enter = "idle"
    BY <1>19 DEF Advanced
  <2>2. /\ idx + 1 \in 0 .. N
        /\ idx + 1 < N => mem.status = "DEPLOYING" /\ mem.cur = idx + 1
                          /\ Untouched(mem, (idx + 1) - 1)
    BY <2>1 DEF Steps
  <2> HIDE DEF RecordInv, Untouched
  <2>3. QED
    BY <2>1, <2>2, DeployGoesOn
<1>20. ASSUME NEW ok \in BOOLEAN, RollbackAdvanced(ok) PROVE RecordInv'
  <2>1. /\ pc = "rollbackAdvancing" /\ TriggerRollback(idx - 1)
        /\ UNCHANGED <<dir, enter, machine>>
        /\ machine \in {"deploy", "rollback"} /\ dir = -1 /\ idx \in Steps
        /\ enter # "idle" => machine = "deploy"
    BY <1>20 DEF RollbackAdvanced
  <2>2. /\ idx - 1 \in -1 .. N - 1
        /\ idx - 1 >= 0 => WaitsForRollback(mem) /\ mem.cur \in {idx - 1, (idx - 1) + 1}
    BY <2>1 DEF Steps
  <2> HIDE DEF RecordInv, WaitsForRollback
  <2>3. QED
    BY <2>1, <2>2, RollbackGoesOn
<1>21. ASSUME NEW ok \in BOOLEAN, EnterSaved(ok) PROVE RecordInv'
  <2>1. /\ enter = "starting" /\ UNCHANGED <<pc, idx, dir, machine>>
        /\ mem \in State /\ mem.cur \in Steps /\ dir \in Directions
    BY <1>0, <1>21 DEF EnterSaved, TypeOK, State
  <2>2. CASE mem' = mem
    BY <1>0, <2>1, <2>2
  <2>3. CASE MayStartStep(mem, dir) /\ mem' = StartStep(mem, dir, FALSE)
    <3>1. /\ mem'.status = mem.status /\ mem'.cur = mem.cur
          /\ mem'.step[mem.cur] = IF dir = 1 THEN "DEPLOYING" ELSE "ROLLING_BACK"
          /\ \A j \in Steps : j # mem.cur => mem'.step[j] = mem.step[j]
      <4> DEFINE t == StartStep(mem, dir, FALSE)
      <4>1. /\ t.status = mem.status /\ t.cur = mem.cur
            /\ t.step[mem.cur] = IF dir = 1 THEN "DEPLOYING" ELSE "ROLLING_BACK"
            /\ \A j \in Steps : j # mem.cur => t.step[j] = mem.step[j]
        BY <2>1, StartStepFacts
      <4>2. QED
        BY <2>3, <4>1
    <3>2. pc \notin DeployPCs /\ pc \notin {"started", "starting", "preparing"}
      BY <2>1
    <3>3. dir = -1 /\ WaitsForRollback(mem) => WaitsForRollback(mem')
      BY <2>1, <3>1 DEF Steps
    <3>4. dir = -1 /\ mem.step[0] = "ROLLED_BACK" => mem.cur # 0
      BY <2>3 DEF MayStartStep
    <3>5. dir = -1 => CurrentStep(mem') = "ROLLING_BACK"
      BY <3>1
    <3>6. pc \in {"waitingForPrevious", "previousTables"} => FALSE
      BY <2>1
    <3> HIDE DEF WaitsForRollback, Untouched
    <3>7. QED
      BY <2>1, <3>1, <3>2, <3>3, <3>4, <3>5, <3>6
  <2>4. QED
    BY <2>2, <2>3, <1>21 DEF EnterSaved
<1>22. ASSUME NEW ok \in BOOLEAN, EnterStepSaved(ok) PROVE RecordInv'
  BY <1>0, <1>22 DEF EnterStepSaved
<1>23. ASSUME DeployMachineStarts PROVE RecordInv'
  <2>1. /\ TriggerDeploy(0) /\ UNCHANGED <<dir, enter>> /\ machine' = "deploy"
        /\ dir = 1 /\ enter = "idle" /\ 0 \in 0 .. N
        /\ mem.status = "DEPLOYING" /\ mem.cur = 0 /\ Untouched(mem, 0 - 1)
    BY <1>23 DEF DeployMachineStarts
  <2> HIDE DEF RecordInv, Untouched
  <2>2. QED
    BY <2>1, DeployGoesOn
<1>24. ASSUME TablesReady PROVE RecordInv'
  <2>1. /\ pc = "waitForTables" /\ machine = "deploy" /\ dir = 1 /\ enter = "idle"
        /\ idx \in Steps /\ mem \in State /\ mem.cur = idx /\ mem.status = "DEPLOYING"
        /\ mem.step[idx] = "DEPLOYING" /\ Untouched(mem, idx)
    BY <1>0, <1>24 DEF TablesReady, TypeOK
  <2>2. MayAdvance(mem, dir)
    BY <2>1 DEF MayAdvance, IsInProgress
  <2>3. /\ mem' = AdvanceForward(mem) /\ pc' = "advancing"
        /\ UNCHANGED <<idx, dir, enter, machine>>
    BY <2>1, <2>2, <1>24 DEF TablesReady, Advance
  <2>4. /\ \A j \in Steps : j # idx => mem'.step[j] = mem.step[j]
        /\ idx = N - 1 => mem'.status = "DEPLOYED"
        /\ idx < N - 1 => mem'.status = "DEPLOYING" /\ mem'.cur = idx + 1
    BY <2>1, <2>3, AdvanceForwardFacts
  <2>5. Untouched(mem', idx) /\ (idx = N - 1 \/ idx < N - 1)
    BY <2>1, <2>4 DEF Steps
  <2> HIDE DEF Untouched, WaitsForRollback
  <2>6. QED
    BY <2>1, <2>3, <2>4, <2>5
<1>25. ASSUME DeployRejected PROVE RecordInv'
  BY <1>25, DeployTurns DEF DeployRejected
<1>26. ASSUME DeploymentFails PROVE RecordInv'
  BY <1>26, DeployTurns DEF DeploymentFails
<1>27. ASSUME RollbackFails PROVE RecordInv'
  <2>1. MachineEnds("failed") /\ UNCHANGED <<dir, enter, machine>>
        /\ pc \in {"waitingForPrevious", "waitingForRollback", "updatingBack"}
    BY <1>27 DEF RollbackFails
  <2>2. /\ pc' \in {"done", "failing", "planning"}
        /\ machine = "deploy" => pc' # "planning"
        /\ machine # "deploy" => pc' # "failing"
    BY <1>0, <2>1, MachineEndsFacts
  <2>3. enter # "idle" => machine = "deploy"
    BY <2>1
  <2>4. QED
    BY <2>1, <2>2, <2>3
<1>28. ASSUME PreviousTablesReady PROVE RecordInv'
  <2>1. /\ pc = "previousTables" /\ pc' = "enteringRollback" /\ StartRollBackFn
        /\ UNCHANGED <<idx, machine>> /\ machine = "rollback" /\ dir = 1
        /\ idx = mem.cur + 1 /\ IsInProgress(mem)
    BY <1>28 DEF PreviousTablesReady
  <2>2. dir' = -1 /\ mem'.cur = mem.cur /\ WaitsForRollback(mem')
    BY <1>0, <2>1, RecordTurns
  <2> HIDE DEF WaitsForRollback, Untouched
  <2>3. QED
    BY <2>1, <2>2
<1>29. ASSUME RollbackEntered PROVE RecordInv'
  <2>1. /\ pc = "enteringRollback" /\ TriggerRollback(idx - 1)
        /\ UNCHANGED <<dir, enter, machine>> /\ enter = "idle"
        /\ machine = "rollback" /\ dir = -1 /\ WaitsForRollback(mem)
        /\ idx = mem.cur + 1 /\ mem.cur \in Steps
    BY <1>0, <1>29 DEF RollbackEntered, TypeOK, State
  <2>2. idx - 1 \in -1 .. N - 1 /\ mem.cur \in {idx - 1, (idx - 1) + 1}
    BY <2>1 DEF Steps
  <2> HIDE DEF RecordInv, WaitsForRollback
  <2>3. QED
    BY <2>1, <2>2, RollbackGoesOn
<1>30. ASSUME RollbackTablesReady PROVE RecordInv'
  <2>1. /\ pc = "rollbackTables" /\ machine \in {"deploy", "rollback"} /\ dir = -1
        /\ idx \in Steps /\ mem \in State /\ mem.cur \in Steps
        /\ WaitsForRollback(mem) /\ mem.cur \in {idx, idx + 1}
        /\ mem.cur = idx + 1 => CurrentStep(mem) = "ROLLING_BACK"
        /\ enter # "idle" => machine = "deploy"
        /\ UNCHANGED <<dir, enter, machine>>
    BY <1>0, <1>30 DEF RollbackTablesReady, TypeOK, State
  <2>2. CASE MayAdvance(mem, dir)
    <3>1. mem' = AdvanceBackward(mem) /\ pc' = "rollbackAdvancing" /\ idx' = idx
      BY <2>1, <2>2, <1>30 DEF RollbackTablesReady, Advance
    <3>2. /\ mem'.step[mem.cur] = "ROLLED_BACK"
          /\ \A j \in Steps : j # mem.cur => mem'.step[j] = mem.step[j]
          /\ mem.cur = 0 => mem'.status = "ROLLED_BACK" /\ mem'.cur = 0
          /\ mem.cur > 0 => mem'.status = mem.status /\ mem'.cur = mem.cur - 1
      BY <2>1, <3>1, AdvanceBackwardFacts
    <3>3. CASE mem.cur = 0
      <4>1. idx = 0
        BY <2>1, <3>3 DEF Steps
      <4>2. QED
        BY <2>1, <3>1, <3>2, <3>3, <4>1
    <3>4. CASE mem.cur > 0
      <4>1. mem'.cur \in {idx - 1, idx} /\ mem'.cur \in Steps /\ mem'.cur < mem.cur
        BY <2>1, <3>2, <3>4 DEF Steps
      <4>2. WaitsForRollback(mem')
        BY <2>1, <3>2, <3>4, <4>1 DEF Steps
      <4> HIDE DEF WaitsForRollback, Untouched, CurrentStep
      <4>3. QED
        BY <2>1, <3>1, <4>1, <4>2
    <3>5. QED
      BY <2>1, <3>3, <3>4 DEF Steps
  <2>3. CASE ~MayAdvance(mem, dir)
    <3>1. TriggerRollback(idx - 1)
      BY <2>3, <1>30 DEF RollbackTablesReady
    <3>2. mem.cur = idx
      BY <2>1, <2>3 DEF MayAdvance, IsInProgress
    <3>3. idx - 1 \in -1 .. N - 1 /\ mem.cur \in {idx - 1, (idx - 1) + 1}
      BY <2>1, <3>2 DEF Steps
    <3> HIDE DEF RecordInv, WaitsForRollback
    <3>4. QED
      BY <2>1, <3>1, <3>3, RollbackGoesOn
  <2>4. QED
    BY <2>2, <2>3
<1>31. ASSUME StackUpdated \/ StackRolledBack \/ StackStuck PROVE RecordInv'
  BY <1>31 DEF StackUpdated, StackRolledBack, StackStuck, UpdateEnds
<1>32. ASSUME UNCHANGED vars PROVE RecordInv'
  BY <1>32 DEF vars
<1>33. QED
  BY <1>1, <1>2, <1>3, <1>4, <1>5, <1>6, <1>7, <1>8, <1>9, <1>10, <1>11, <1>12, <1>13, <1>14, <1>15, <1>16, <1>17, <1>18, <1>19, <1>20, <1>21, <1>22, <1>23, <1>24, <1>25, <1>26, <1>27, <1>28, <1>29, <1>30, <1>31, <1>32
     DEF Next, Main, Enter, Stack

\* For each place of the program, the record stands to the machine as RecordInv
\* says in every reachable state, and every index stays in the plan: the
\* invariant behind the two theorems that follow it.
THEOREM RecordCorrect == Spec => [](Typed /\ RecordInv)
<1>1. Init => Typed /\ RecordInv
  BY InitialStates, NAssumption, IterativeAssumption
     DEF Init, Typed, IndexInv, TypeOK, DeployPCs, PreRollPCs, RollbackPCs, RunPCs,
         Directions, RecordInv, EnterInv, StartInv, DeployInv, PreRollbackInv, RollbackInv
<1>2. Typed /\ RecordInv /\ [Next]_vars => (Typed /\ RecordInv)'
  BY TypeStep, RecordStep
<1>3. QED
  BY <1>1, <1>2, PTL DEF Spec

\* currentStepIndex follows currentIndex, however many steps there are, whatever
\* fails, and wherever startRollBackFn's uploads end among the machine's.
THEOREM RecordFollowsMachine == Spec => []StateTracksMachine
<1>1. Typed /\ RecordInv => StateTracksMachine
  BY DEF RecordInv, DeployInv, RollbackInv, WaitsForRollback, StateTracksMachine,
         DeployPCs, RollbackPCs
<1>2. QED
  BY <1>1, RecordCorrect, PTL

-----------------------------------------------------------------------------
(* The stack *)

\* Every action keeps the stack, the state file and the machine in step,
\* provided that no waiter gives up on an update in progress.
LEMMA StackStep ==
  ASSUME Typed, RecordInv, Typed', RecordInv', StackInv, [Next]_vars,
         "wait" \notin Faults
  PROVE  StackInv'
<1> USE NAssumption, IterativeAssumption
    DEF StackInv, BusyInv, FileInv, UploadInv, PositionInv, Matches, IsInProgress,
        RestingPCs, WaitingPCs,
        DeployPCs, PreRollPCs, RollbackPCs, cloudVars, sessionVars, enterVars
<1>0. /\ TypeOK /\ IndexInv /\ TypeOK' /\ IndexInv'
      /\ EnterInv /\ StartInv /\ DeployInv /\ PreRollbackInv /\ RollbackInv
      /\ EnterInv' /\ StartInv' /\ DeployInv' /\ PreRollbackInv' /\ RollbackInv'
  BY DEF Typed, RecordInv
<1>1. ASSUME RollbackRefused PROVE StackInv'
  BY <1>0, <1>1 DEF RollbackRefused, EnterInv
<1>2. ASSUME Plan PROVE StackInv'
  BY <1>0, <1>2 DEF Plan, EnterInv
<1>3. ASSUME PushRefused PROVE StackInv'
  BY <1>0, <1>3 DEF PushRefused, EnterInv
<1>4. ASSUME PlanThrows PROVE StackInv'
  BY <1>0, <1>4 DEF PlanThrows, EnterInv
<1>5. ASSUME Exit PROVE StackInv'
  BY <1>0, <1>5 DEF Exit, EnterInv
<1>6. ASSUME Crash PROVE StackInv'
  BY <1>0, <1>6 DEF Crash, EnterInv
<1>7. ASSUME StateFileDeleted PROVE StackInv'
  BY <1>0, <1>7 DEF StateFileDeleted, EnterInv, IdleState
<1>8. ASSUME UpdateStack PROVE StackInv'
  BY <1>0, <1>8 DEF UpdateStack, EnterInv, MayUpdate, Destination, RollbackInv
<1>9. ASSUME DeploymentDone PROVE StackInv'
  BY <1>0, <1>9 DEF DeploymentDone, WaitSucceeds
<1>10. ASSUME PreviousDone PROVE StackInv'
  BY <1>0, <1>10 DEF PreviousDone, WaitSucceeds
<1>11. ASSUME RollbackDone PROVE StackInv'
  BY <1>0, <1>11 DEF RollbackDone, WaitSucceeds
<1>12. ASSUME NEW c \in {"push", "force", "rollback"}, StartCommand(c) PROVE StackInv'
  BY <1>0, <1>12 DEF StartCommand, EnterInv
<1>13. ASSUME RollbackMachineStarts PROVE StackInv'
  BY <1>0, <1>13 DEF RollbackMachineStarts, ResumesRollback, EnterInv
<1>14. ASSUME StartsDeployment PROVE StackInv'
  BY <1>0, <1>14, InitialStates DEF StartsDeployment, EnterInv
<1>15. ASSUME RunThrows PROVE StackInv'
  BY <1>0, <1>15, RunFailsFacts DEF RunThrows
<1>16. ASSUME NEW ok \in BOOLEAN, StartSaved(ok) PROVE StackInv'
  <2>1. /\ pc = "starting" /\ Upload(mainSave, ok) /\ enter = "idle" /\ cfn # "inProgress"
        /\ pos = 0 /\ IsInProgress(mainSave)
        /\ UNCHANGED <<pos, cfn, target, enter, enterSave>>
    BY <1>0, <1>16 DEF StartSaved, EnterInv
  <2>2. CASE ok
    <3>1. file' = mainSave /\ pc' = "preparing"
      BY <2>2, <1>16 DEF StartSaved, Upload
    <3>2. QED
      BY <2>1, <3>1
  <2>3. CASE ~ok
    <3>1. file' = file /\ RunFails
      BY <2>3, <1>16 DEF StartSaved, Upload
    <3>2. \/ pc' = "failing" /\ mainSave'.status = "FAILED"
          \/ pc' = "done"
      BY <1>0, <3>1, RunFailsFacts
    <3>3. QED
      BY <2>1, <3>1, <3>2
  <2>4. QED
    BY <2>2, <2>3
<1>17. ASSUME NEW ok \in BOOLEAN, FailSaved(ok) PROVE StackInv'
  <2>1. /\ pc = "failing" /\ pc' = "done" /\ Upload(mainSave, ok) /\ cfn # "inProgress"
        /\ mainSave.status = "FAILED" /\ UNCHANGED <<pos, cfn, target, mem, enter, enterSave>>
    BY <1>17 DEF FailSaved
  <2>2. file' \in {file, mainSave}
    BY <1>0, <2>1, UploadFacts DEF TypeOK
  <2>3. QED
    BY <2>1, <2>2
<1>18. ASSUME NEW ok \in BOOLEAN, StepSaved(ok) PROVE StackInv'
  <2>1. /\ pc \in {"deploying", "rollingBack"} /\ Upload(mainSave, ok)
        /\ cfn # "inProgress" /\ IsInProgress(mainSave)
        /\ pc' = IF pc = "deploying" THEN "updating" ELSE "updatingBack"
        /\ UNCHANGED <<pos, cfn, target, idx, mem, enter, enterSave>>
    BY <1>18 DEF StepSaved
  <2>2. file' \in {file, mainSave} /\ IsInProgress(file')
    BY <1>0, <2>1, UploadFacts DEF TypeOK
  <2>3. QED
    BY <2>1, <2>2
<1>19. ASSUME NEW ok \in BOOLEAN, Advanced(ok) PROVE StackInv'
  <2>1. /\ pc = "advancing" /\ Upload(mainSave, ok) /\ TriggerDeploy(idx + 1)
        /\ cfn # "inProgress" /\ enter = "idle" /\ pos = idx + 1 /\ IsInProgress(file)
        /\ mainSave.status = mem.status /\ idx \in Steps
        /\ UNCHANGED <<pos, cfn, target, enter, enterSave>>
        /\ \/ idx = N - 1 /\ mem.status = "DEPLOYED"
           \/ idx < N - 1 /\ mem.status = "DEPLOYING"
    BY <1>0, <1>19 DEF Advanced, EnterInv, DeployInv
  <2>2. file' \in {file, mainSave} /\ idx + 1 \in 0 .. N
    BY <1>0, <2>1, UploadFacts DEF TypeOK, Steps
  <2>3. CASE idx = N - 1
    <3>1. pc' = "cleaning" /\ pos = N
      BY <1>0, <2>1, <2>2, <2>3, TriggerDeployFacts
    <3>2. QED
      BY <2>1, <2>2, <3>1
  <2>4. CASE idx < N - 1
    <3> DEFINE i == idx + 1
    <3>0. i < N /\ i \in 0 .. N /\ TriggerDeploy(i)
      BY <2>1, <2>2, <2>4 DEF Steps
    <3>1. /\ idx' = i /\ pc' \in {"deploying", "updating"}
          /\ pc' = "deploying" => mainSave'.status = mem.status
      <4> HIDE DEF i
      <4>1. QED
        BY <1>0, <3>0, TriggerDeployFacts
    <3>2. QED
      BY <2>1, <2>2, <2>4, <3>1
  <2>5. QED
    BY <2>1, <2>3, <2>4
<1>20. ASSUME NEW ok \in BOOLEAN, RollbackAdvanced(ok) PROVE StackInv'
  <2>1. /\ pc = "rollbackAdvancing" /\ Upload(mainSave, ok) /\ TriggerRollback(idx - 1)
        /\ cfn # "inProgress" /\ pos = idx /\ IsInProgress(file)
        /\ mainSave.status = mem.status /\ idx \in Steps
        /\ UNCHANGED <<pos, cfn, target, enter, enterSave, machine>>
        /\ \/ idx = 0 /\ mem.status = "ROLLED_BACK"
           \/ mem.status = "ROLLING_BACK"
        /\ enter # "idle" => machine = "deploy"
    BY <1>0, <1>20 DEF RollbackAdvanced, EnterInv, RollbackInv, WaitsForRollback
  <2>2. file' \in {file, mainSave}
    BY <1>0, <2>1, UploadFacts DEF TypeOK
  <2>3. /\ idx = 0 => /\ pc' \in {"done", "failing", "planning"}
                      /\ pc' = "failing" => mainSave'.status = "FAILED"
                      /\ enter # "idle" => Matches(mem)'
        /\ idx # 0 => /\ pc' \in {"rollingBack", "updatingBack"}
                      /\ mem'.status = "ROLLING_BACK"
                      /\ pc' = "rollingBack" => mainSave'.status = "ROLLING_BACK"

    <3>1. idx - 1 \in -1 .. N - 1 /\ (idx = 0 \/ idx - 1 >= 0)
      BY <2>1 DEF Steps
    <3>2. /\ idx' = idx - 1
          /\ idx = 0 => MachineEnds("rolledBack") /\ pc' \in {"done", "failing", "planning"}
          /\ idx - 1 >= 0 => /\ pc' \in {"rollingBack", "updatingBack"}
                             /\ mem'.status = mem.status
                             /\ pc' = "rollingBack" => mainSave'.status = mem.status
      BY <1>0, <2>1, <3>1, TriggerRollbackFacts
    <3>3. MachineEnds("rolledBack") =>
            /\ machine = "deploy" =>
                 \/ pc' = "failing" /\ mem'.status = "FAILED" /\ mainSave' = mem'
                 \/ pc' = "done" /\ mem' = mem
            /\ machine # "deploy" => pc' # "failing"
      BY <1>0, MachineEndsFacts

    <3>4. QED
      BY <2>1, <3>1, <3>2, <3>3
  <2>4. QED
    BY <2>1, <2>2, <2>3
<1>21. ASSUME NEW ok \in BOOLEAN, EnterSaved(ok) PROVE StackInv'
  <2>1. /\ enter = "starting" /\ Upload(enterSave, ok) /\ Matches(enterSave) /\ Matches(mem)
        /\ pc \in RollbackPCs \cup {"enteringRollback"} => IsInProgress(enterSave)
        /\ pc \in RollbackPCs \cup {"enteringRollback", "failing", "done"}
        /\ UNCHANGED <<pos, cfn, target, pc, idx, mainSave>>
    BY <1>0, <1>21 DEF EnterSaved, EnterInv
  <2>2. file' \in {file, enterSave}
    BY <1>0, <2>1, UploadFacts DEF TypeOK
  <2>3. CASE MayStartStep(mem, dir) /\ mem' = StartStep(mem, dir, FALSE)
             /\ enter' = "stepping" /\ enterSave' = mem'
    <3>1. mem'.status = mem.status
      <4> DEFINE t == StartStep(mem, dir, FALSE)
      <4>1. mem \in State /\ dir \in Directions
        BY <1>0 DEF TypeOK
      <4> HIDE DEF IsInProgress, StackInv, BusyInv, FileInv, UploadInv, PositionInv
      <4>2. t.status = mem.status
        BY <4>1, StartStepFacts
      <4>3. QED
        BY <2>3, <4>2
    <3>2. pc \in RollbackPCs \cup {"enteringRollback"} => mem.status = "ROLLING_BACK"
      BY <1>0, <2>3 DEF RollbackInv, PreRollbackInv, WaitsForRollback, MayStartStep, CurrentStep
    <3>3. QED
      BY <2>1, <2>2, <2>3, <3>1, <3>2
  <2>4. CASE enter' = "idle" /\ mem' = mem
    BY <2>1, <2>2, <2>4
  <2>5. QED
    BY <2>3, <2>4, <1>21, Zenon DEF EnterSaved
<1>22. ASSUME NEW ok \in BOOLEAN, EnterStepSaved(ok) PROVE StackInv'
  <2>1. /\ enter = "stepping" /\ enter' = "idle" /\ Upload(enterSave, ok) /\ Matches(enterSave)
        /\ pc \in RollbackPCs \cup {"enteringRollback"} => IsInProgress(enterSave)
        /\ pc \in RollbackPCs \cup {"enteringRollback", "failing", "done"}
        /\ UNCHANGED <<pos, cfn, target, pc, idx, mem, mainSave>>
    BY <1>0, <1>22 DEF EnterStepSaved, EnterInv
  <2>2. file' \in {file, enterSave}
    BY <1>0, <2>1, UploadFacts DEF TypeOK
  <2>3. QED
    BY <2>1, <2>2
<1>23. ASSUME DeployMachineStarts PROVE StackInv'
  BY <1>0, <1>23, TriggerDeployFacts DEF DeployMachineStarts, DeployInv
<1>24. ASSUME TablesReady PROVE StackInv'
  <2>1. /\ pc = "waitForTables" /\ cfn # "inProgress" /\ enter = "idle" /\ pos = idx + 1
        /\ IsInProgress(file) /\ dir = 1 /\ mem.status = "DEPLOYING"
        /\ CurrentStep(mem) = "DEPLOYING"
        /\ UNCHANGED <<file, pos, cfn, target, enter>>
    BY <1>0, <1>24 DEF TablesReady, DeployInv, EnterInv, CurrentStep
  <2>2. mainSave' = mem' /\ pc' = "advancing" /\ idx' = idx
    BY <2>1, <1>24 DEF TablesReady, MayAdvance
  <2>3. QED
    BY <2>1, <2>2
<1>25. ASSUME DeployRejected PROVE StackInv'
  <2>1. /\ pc' = "rollbackTables" /\ StartRollBackFn
        /\ cfn # "inProgress" /\ IsInProgress(file) /\ mem.status = "DEPLOYING" /\ dir = 1
        /\ pos = idx /\ UNCHANGED <<file, pos, cfn, target, idx>>
    BY <1>0, <1>25 DEF DeployRejected, EnterRollback, DeployInv
  <2>2. mem'.status = "ROLLING_BACK" /\ enterSave' = mem'
    BY <1>0, <2>1, StartRollBackFnFacts DEF MayStartRollback
  <2>3. QED
    BY <2>1, <2>2
<1>26. ASSUME DeploymentFails PROVE StackInv'
  <2>1. /\ pc' = "rollbackTables" /\ StartRollBackFn
        /\ cfn # "inProgress" /\ IsInProgress(file) /\ mem.status = "DEPLOYING" /\ dir = 1
        /\ pos = idx /\ UNCHANGED <<file, pos, cfn, target, idx>>
    BY <1>0, <1>26 DEF DeploymentFails, WaitFails, EnterRollback, DeployInv
  <2>2. mem'.status = "ROLLING_BACK" /\ enterSave' = mem'
    BY <1>0, <2>1, StartRollBackFnFacts DEF MayStartRollback
  <2>3. QED
    BY <2>1, <2>2
<1>27. ASSUME RollbackFails PROVE StackInv'
  BY <1>0, <1>27, MachineEndsFacts DEF RollbackFails, WaitFails
<1>28. ASSUME PreviousTablesReady PROVE StackInv'
  <2>1. /\ pc = "previousTables" /\ pc' = "enteringRollback" /\ StartRollBackFn
        /\ cfn # "inProgress" /\ IsInProgress(file) /\ IsInProgress(mem) /\ dir = 1
        /\ UNCHANGED <<file, pos, cfn, target>>
    BY <1>0, <1>28 DEF PreviousTablesReady, PreRollbackInv
  <2>2. mem'.status = "ROLLING_BACK" /\ enterSave' = mem'
    BY <1>0, <2>1, StartRollBackFnFacts DEF MayStartRollback
  <2>3. QED
    BY <2>1, <2>2
<1>29. ASSUME RollbackEntered PROVE StackInv'
  <2>1. /\ pc = "enteringRollback" /\ TriggerRollback(idx - 1) /\ cfn # "inProgress"
        /\ IsInProgress(file) /\ enter = "idle" /\ mem.status = "ROLLING_BACK"
        /\ idx - 1 \in 0 .. N - 1
        /\ UNCHANGED <<file, pos, cfn, target, enter>>
    BY <1>0, <1>29 DEF RollbackEntered, PreRollbackInv, WaitsForRollback, IndexInv
  <2>2. /\ pc' \in {"rollingBack", "updatingBack"}
        /\ pc' = "rollingBack" => mainSave'.status = "ROLLING_BACK"
    BY <1>0, <2>1, TriggerRollbackFacts
  <2>3. QED
    BY <2>1, <2>2
<1>30. ASSUME RollbackTablesReady PROVE StackInv'
  <2>1. /\ pc = "rollbackTables" /\ cfn # "inProgress" /\ pos = idx /\ IsInProgress(file)
        /\ idx \in Steps /\ mem \in State /\ dir = -1 /\ mem.status = "ROLLING_BACK"
        /\ mem.cur \in {idx, idx + 1} /\ mem.cur \in Steps
        /\ UNCHANGED <<file, pos, cfn, target, dir, enter, enterSave, machine>>
        /\ enter # "idle" => machine = "deploy"
    BY <1>0, <1>30 DEF RollbackTablesReady, EnterInv, RollbackInv, WaitsForRollback, TypeOK, State
  <2>2. CASE MayAdvance(mem, dir)
    <3>1. mem' = AdvanceBackward(mem) /\ mainSave' = mem' /\ pc' = "rollbackAdvancing"
          /\ idx' = idx
      BY <2>1, <2>2, <1>30 DEF RollbackTablesReady, Advance
    <3>2. /\ mem.cur = 0 => mem'.status = "ROLLED_BACK"
          /\ mem.cur > 0 => mem'.status = mem.status
      BY <2>1, <3>1, AdvanceBackwardFacts
    <3>3. /\ mem.cur = 0 \/ mem.cur > 0
          /\ mem.cur = 0 => idx = 0
      BY <2>1 DEF Steps
    <3>4. QED
      BY <2>1, <3>1, <3>2, <3>3
  <2>3. CASE ~MayAdvance(mem, dir)
    <3> TriggerRollback(idx - 1)
      BY <2>3, <1>30 DEF RollbackTablesReady
    <3>1. idx - 1 \in -1 .. N - 1 /\ (idx = 0 \/ idx - 1 >= 0)
      BY <2>1 DEF Steps
    <3>2. /\ idx' = idx - 1
          /\ idx = 0 => MachineEnds("rolledBack") /\ pc' \in {"done", "failing", "planning"}
          /\ idx - 1 >= 0 => /\ pc' \in {"rollingBack", "updatingBack"}
                             /\ mem'.status = mem.status
                             /\ pc' = "rollingBack" => mainSave'.status = mem.status
      BY <1>0, <2>1, <3>1, TriggerRollbackFacts
    <3>3. MachineEnds("rolledBack") =>
            /\ machine = "deploy" =>
                 \/ pc' = "failing" /\ mem'.status = "FAILED" /\ mainSave' = mem'
                 \/ pc' = "done" /\ mem' = mem
            /\ machine # "deploy" => pc' # "failing"
      BY <1>0, MachineEndsFacts

    <3>4. QED
      BY <2>1, <3>1, <3>2, <3>3
  <2>4. QED
    BY <2>2, <2>3
<1>31. ASSUME StackUpdated \/ StackRolledBack \/ StackStuck PROVE StackInv'
  BY <1>0, <1>31 DEF StackUpdated, StackRolledBack, StackStuck, UpdateEnds
<1>32. ASSUME UNCHANGED vars PROVE StackInv'
  BY <1>32 DEF vars
<1>33. QED
  BY <1>1, <1>2, <1>3, <1>4, <1>5, <1>6, <1>7, <1>8, <1>9, <1>10, <1>11, <1>12, <1>13, <1>14, <1>15, <1>16, <1>17, <1>18, <1>19, <1>20, <1>21, <1>22, <1>23, <1>24, <1>25, <1>26, <1>27, <1>28, <1>29, <1>30, <1>31, <1>32
     DEF Next, Main, Enter, Stack

\* Where the stack stands and what the state file and the uploads in flight say
\* of it, for each place of the program: whatever fails, is lost or is killed,
\* as long as waiters see updates to their end.
THEOREM StackCorrect ==
  ASSUME "wait" \notin Faults
  PROVE  Spec => []StackInv
<1>1. Init => StackInv
  BY DEF Init, IdleState, StackInv, BusyInv, FileInv, UploadInv, PositionInv, Matches,
         DeployPCs, PreRollPCs, RollbackPCs
<1>2. Typed /\ RecordInv /\ Typed' /\ RecordInv' /\ StackInv /\ [Next]_vars => StackInv'
  BY StackStep
<1>3. Spec => [](Typed /\ RecordInv)
  BY RecordCorrect
<1>4. QED
  BY <1>1, <1>2, <1>3, PTL DEF Spec

\* The recorded outcome is the stack's, however many steps there are, whatever
\* fails, is lost or is killed, as long as waiters see updates to their end.
THEOREM OutcomeCorrect ==
  ASSUME "wait" \notin Faults
  PROVE  Spec => []OutcomeMatchesStack
<1>1. StackInv => OutcomeMatchesStack
  BY DEF StackInv, FileInv, Matches, OutcomeMatchesStack
<1>2. Spec => []StackInv
  BY StackCorrect
<1>3. QED
  BY <1>1, <1>2, PTL

-----------------------------------------------------------------------------
(* The shape of the record *)

\* startCurrentStep keeps the shape, and on the way forward stores the key.
LEMMA StartStepKeeps ==
  ASSUME NEW s \in State, NEW d \in Directions, NEW hasKey \in BOOLEAN, WellKept(s)
  PROVE  /\ WellKept(StartStep(s, d, hasKey))
         /\ d = 1 /\ hasKey => StartStep(s, d, hasKey).key[s.cur]
<1> DEFINE t == StartStep(s, d, hasKey)
<1>1. s.cur \in Steps
  BY DEF State
<1>2. /\ t.status = s.status /\ t.cur = s.cur
      /\ t.step[s.cur] \in {"DEPLOYING", "ROLLING_BACK"}
      /\ \A j \in Steps : j # s.cur => t.step[j] = s.step[j]
  BY StartStepFacts
<1>3. /\ \A j \in Steps : j # s.cur => t.key[j] = s.key[j]
      /\ d = 1 /\ hasKey => t.key[s.cur]
  <2>1. CASE d = 1 /\ hasKey
    BY <1>1, <2>1 DEF StartStep, State
  <2>2. CASE d = 1 /\ ~hasKey
    BY <1>1, <2>2 DEF StartStep, State
  <2>3. CASE d = -1
    BY <1>1, <2>3 DEF StartStep, State
  <2> QED BY <2>1, <2>2, <2>3 DEF Directions
<1> HIDE DEF t
<1>4. KeysOfBegun(t)
  BY <1>1, <1>2, <1>3 DEF WellKept, KeysOfBegun
<1>5. Profile(t)
  <2>1. \A i \in Steps : (i < s.cur => i # s.cur) /\ (i > s.cur => i # s.cur)
    BY <1>1 DEF Steps
  <2> QED BY <1>1, <1>2, <1>3, <2>1 DEF WellKept, Profile, IsInProgress
<1> QED BY <1>3, <1>4, <1>5 DEF WellKept, t

\* advanceStep keeps the shape going forward from a step that has its key ...
LEMMA AdvanceForwardKeeps ==
  ASSUME NEW s \in State, WellKept(s), s.status = "DEPLOYING",
         s.cur < N - 1 => s.key[s.cur]
  PROVE  WellKept(AdvanceForward(s))
<1> DEFINE t == AdvanceForward(s)
<1>1. s.cur \in Steps /\ (s.cur = N - 1 \/ s.cur < N - 1)
  BY NAssumption DEF State, Steps
<1>2. /\ \A j \in Steps : j # s.cur => t.step[j] = s.step[j]
      /\ s.cur = N - 1 => t.status = "DEPLOYED" /\ t.cur = 0
      /\ s.cur < N - 1 => t.status = s.status /\ t.cur = s.cur + 1
  BY AdvanceForwardFacts
<1>3. t.step[s.cur] = "DEPLOYED" /\ t.key = s.key
  BY <1>1 DEF AdvanceForward, State
<1> HIDE DEF t
<1>4. KeysOfBegun(t)
  BY <1>1, <1>2, <1>3 DEF WellKept, KeysOfBegun
<1>5. Profile(t)
  <2>1. CASE s.cur = N - 1
    BY <1>2, <2>1 DEF Profile, IsInProgress
  <2>2. CASE s.cur < N - 1
    <3>1. t.status = "DEPLOYING" /\ t.cur = s.cur + 1 /\ s.key[s.cur]
      BY <1>2, <2>2
    <3>2. \A i \in Steps : /\ i < s.cur + 1 => i = s.cur \/ (i < s.cur /\ i # s.cur)
                           /\ i > s.cur + 1 => i > s.cur /\ i # s.cur
      BY <1>1 DEF Steps
    <3> QED BY <1>1, <1>2, <1>3, <3>1, <3>2 DEF WellKept, Profile, IsInProgress
  <2> QED BY <1>1, <2>1, <2>2
<1> QED BY <1>4, <1>5 DEF WellKept, t

\* ... and going back, where the step that is undone loses its key.
LEMMA AdvanceBackwardKeeps ==
  ASSUME NEW s \in State, WellKept(s), s.status = "ROLLING_BACK"
  PROVE  WellKept(AdvanceBackward(s))
<1> DEFINE t == AdvanceBackward(s)
<1>1. s.cur \in Steps /\ (s.cur = 0 \/ s.cur > 0)
  BY NAssumption DEF State, Steps
<1>2. /\ t.step[s.cur] = "ROLLED_BACK"
      /\ \A j \in Steps : j # s.cur => t.step[j] = s.step[j]
      /\ s.cur = 0 => t.status = "ROLLED_BACK" /\ t.cur = 0
      /\ s.cur > 0 => t.status = s.status /\ t.cur = s.cur - 1
  BY AdvanceBackwardFacts
<1>3. ~t.key[s.cur] /\ \A j \in Steps : j # s.cur => t.key[j] = s.key[j]
  BY <1>1 DEF AdvanceBackward, State
<1> HIDE DEF t
<1>4. KeysOfBegun(t)
  BY <1>1, <1>2, <1>3 DEF WellKept, KeysOfBegun
<1>5. Profile(t)
  <2>1. CASE s.cur = 0
    BY <1>2, <2>1 DEF Profile, IsInProgress
  <2>2. CASE s.cur > 0
    <3>1. t.status = "ROLLING_BACK" /\ t.cur = s.cur - 1
      BY <1>2, <2>2
    <3>2. \A i \in Steps : /\ i < s.cur - 1 => i < s.cur /\ i # s.cur
                           /\ i > s.cur - 1 => i = s.cur \/ (i > s.cur /\ i # s.cur)
      BY <1>1 DEF Steps
    <3> QED BY <1>1, <1>2, <1>3, <3>1, <3>2 DEF WellKept, Profile, IsInProgress
  <2> QED BY <1>1, <2>1, <2>2
<1> QED BY <1>4, <1>5 DEF WellKept, t

\* startRollback keeps it: it turns the steps begun and no other.
LEMMA StartRollbackKeeps ==
  ASSUME NEW s \in State, WellKept(s), IsInProgress(s)
  PROVE  WellKept(StartRollback(s))
<1> DEFINE t == StartRollback(s)
<1>1. s.cur \in Steps
  BY DEF State
<1>2. /\ t.status = "ROLLING_BACK" /\ t.cur = s.cur
      /\ \A j \in Steps : j <= s.cur => t.step[j] = "WAITING_FOR_ROLLBACK"
  BY StartRollbackFacts
<1>3. t.key = s.key /\ \A j \in Steps : j > s.cur => t.step[j] = s.step[j]
  BY <1>1 DEF StartRollback, State, Steps
<1> HIDE DEF t
<1>4. \A j \in Steps : j <= s.cur \/ j > s.cur
  BY <1>1 DEF Steps
<1>5. KeysOfBegun(t)
  BY <1>2, <1>3, <1>4 DEF WellKept, KeysOfBegun
<1>6. \A j \in Steps : j < s.cur => j <= s.cur
  BY <1>1 DEF Steps
<1>7. Profile(t)
  BY <1>2, <1>3, <1>6 DEF WellKept, Profile, IsInProgress
<1> QED BY <1>5, <1>7 DEF WellKept, t

\* The records no deployment is in progress in.
LEMMA StillRecordsKept ==
  /\ WellKept(IdleState) /\ WellKept(StartDeployment)
  /\ \A s \in State : WellKept(s) => WellKept(FailDeployment(s))
<1>1. 0 \in Steps
  BY NAssumption DEF Steps
<1>2. WellKept(IdleState)
  BY DEF IdleState, WellKept, Profile, KeysOfBegun, IsInProgress
<1>3. WellKept(StartDeployment)
  <2>1. /\ StartDeployment.status = "DEPLOYING" /\ StartDeployment.cur = 0
        /\ \A j \in Steps : /\ StartDeployment.step[j] = "WAITING_FOR_DEPLOYMENT"
                            /\ StartDeployment.key[j] = FALSE
    BY DEF StartDeployment, IdleState
  <2>2. \A j \in Steps : ~(j < 0)
    BY DEF Steps
  <2> QED BY <2>1, <2>2 DEF WellKept, Profile, KeysOfBegun
<1>4. ASSUME NEW s \in State, WellKept(s) PROVE WellKept(FailDeployment(s))
  <2>1. FailDeployment(s).step = s.step /\ FailDeployment(s).key = s.key
        /\ FailDeployment(s).status = "FAILED"
    BY DEF FailDeployment, State
  <2> QED BY <1>4, <2>1 DEF WellKept, Profile, KeysOfBegun, IsInProgress
<1> QED BY <1>2, <1>3, <1>4

\* doDeploy keeps the shape of the record and of what it uploads, and stores
\* the key of a step that it starts on the way forward.
LEMMA DoDeployKeeps ==
  ASSUME TypeOK, NEW saving, NEW updating, NEW hasKey \in BOOLEAN,
         DoDeploy(saving, updating, hasKey), WellKept(mem), WellKept(mainSave)
  PROVE  /\ WellKept(mem') /\ WellKept(mainSave')
         /\ MayStartStep(mem, dir) /\ dir = 1 /\ hasKey => mem'.key[mem.cur]
<1> DEFINE t == StartStep(mem, dir, hasKey)
<1>1. mem \in State /\ dir \in Directions
  BY DEF TypeOK
<1>2. WellKept(t) /\ (dir = 1 /\ hasKey => t.key[mem.cur])
  BY <1>1, StartStepKeeps
<1>3. \/ MayStartStep(mem, dir) /\ mem' = t /\ mainSave' = mem'
      \/ ~MayStartStep(mem, dir) /\ mem' = mem /\ mainSave' = mainSave
  BY Zenon DEF DoDeploy
<1> HIDE DEF t
<1> QED BY <1>2, <1>3

\* So does the NEXT of the deploy machine ...
LEMMA TriggerDeployKeeps ==
  ASSUME TypeOK, NEW i \in 0 .. N, TriggerDeploy(i), WellKept(mem), WellKept(mainSave)
  PROVE  /\ WellKept(mem') /\ WellKept(mainSave')
         /\ MayStartStep(mem, dir) /\ dir = 1 /\ i < N - 1 => mem'.key[mem.cur]
<1>1. CASE i >= N
  BY <1>1, NAssumption DEF TriggerDeploy
<1>2. CASE i < N
  <2>1. DoDeploy("deploying", "updating", i < N - 1) /\ (i < N - 1) \in BOOLEAN
    BY <1>2, NAssumption DEF TriggerDeploy
  <2> QED BY <2>1, DoDeployKeeps
<1> QED BY <1>1, <1>2, NAssumption

\* ... the end of a machine ...
LEMMA MachineEndsKeeps ==
  ASSUME TypeOK, NEW final, MachineEnds(final) \/ RunFails,
         WellKept(mem), WellKept(mainSave)
  PROVE  WellKept(mem') /\ WellKept(mainSave')
<1>1. RunFails => WellKept(mem') /\ WellKept(mainSave')
  BY StillRecordsKept DEF RunFails, TypeOK
<1>2. MachineEnds(final) => RunFails \/ UNCHANGED <<mem, mainSave>>
  BY DEF MachineEnds
<1> QED BY <1>1, <1>2

\* ... and the NEXT of a rollback region.
LEMMA TriggerRollbackKeeps ==
  ASSUME TypeOK, NEW i, TriggerRollback(i), WellKept(mem), WellKept(mainSave)
  PROVE  WellKept(mem') /\ WellKept(mainSave')
<1>1. MachineEnds("rolledBack") \/ DoDeploy("rollingBack", "updatingBack", FALSE)
  BY DEF TriggerRollback
<1> QED BY <1>1, MachineEndsKeeps, DoDeployKeeps

\* startRollBackFn keeps the shape of the record it turns round.
LEMMA StartRollBackFnKeeps ==
  ASSUME TypeOK, StartRollBackFn, WellKept(mem), WellKept(enterSave)
  PROVE  WellKept(mem') /\ WellKept(enterSave')
BY StartRollbackKeeps DEF StartRollBackFn, TypeOK, MayStartRollback

\* Every action keeps the shape of the record, of its copies and of the file.
LEMMA ProfileStep ==
  ASSUME Typed, RecordInv, ProfileInv, [Next]_vars
  PROVE  ProfileInv'
<1> DEFINE KeyInv == pc \in DeployPCs \ {"advancing"} /\ idx < N - 1 => mem.key[idx]
       Kept == /\ WellKept(file') /\ WellKept(mem') /\ WellKept(mainSave')
               /\ WellKept(enterSave') /\ KeyInv'
<1>0. /\ TypeOK /\ KeyInv
      /\ WellKept(file) /\ WellKept(mem) /\ WellKept(mainSave) /\ WellKept(enterSave)
      /\ EnterInv /\ StartInv /\ DeployInv /\ PreRollbackInv /\ RollbackInv
  BY DEF Typed, RecordInv, ProfileInv
<1> USE NAssumption, IterativeAssumption
    DEF DeployPCs, PreRollPCs, RollbackPCs, cloudVars, sessionVars, enterVars
<1>1. ASSUME RollbackRefused \/ RollbackMachineStarts \/ Plan \/ PushRefused
               \/ PlanThrows \/ Exit \/ Crash \/ PreviousDone \/ RollbackDone
      PROVE  Kept
  BY <1>0, <1>1 DEF RollbackRefused, RollbackMachineStarts, Plan, PushRefused, PlanThrows,
                    Exit, Crash, PreviousDone, RollbackDone
<1>2. ASSUME UpdateStack \/ DeploymentDone \/ StackUpdated \/ StackRolledBack \/ StackStuck
               \/ UNCHANGED vars
      PROVE  Kept
  BY <1>0, <1>2 DEF UpdateStack, DeploymentDone, StackUpdated, StackRolledBack, StackStuck,
                    UpdateEnds, vars
<1>3. ASSUME NEW c \in {"push", "force", "rollback"}, StartCommand(c) PROVE Kept
  BY <1>0, <1>3 DEF StartCommand
<1>4. ASSUME StartsDeployment PROVE Kept
  BY <1>0, <1>4, StillRecordsKept DEF StartsDeployment
<1>5. ASSUME StateFileDeleted PROVE Kept
  BY <1>0, <1>5, StillRecordsKept DEF StateFileDeleted
<1>6. ASSUME RunThrows PROVE Kept
  <2>1. RunFails /\ UNCHANGED <<file, enterSave>>
    BY <1>6 DEF RunThrows
  <2>2. pc' \in {"failing", "done"}
    BY <2>1 DEF RunFails
  <2> QED BY <1>0, <2>1, <2>2, MachineEndsKeeps
<1>7. ASSUME NEW ok \in BOOLEAN, StartSaved(ok) PROVE Kept
  <2>1. /\ Upload(mainSave, ok) /\ UNCHANGED enterSave
        /\ \/ pc' = "preparing" /\ UNCHANGED <<mem, mainSave>>
           \/ RunFails
    BY <1>7 DEF StartSaved
  <2>2. file' \in {file, mainSave} /\ pc' \in {"preparing", "failing", "done"}
    BY <2>1 DEF Upload, RunFails
  <2> QED BY <1>0, <2>1, <2>2, MachineEndsKeeps
<1>8. ASSUME NEW ok \in BOOLEAN, FailSaved(ok) \/ StepSaved(ok) PROVE Kept
  <2>1. file' \in {file, mainSave}
    BY <1>8 DEF FailSaved, StepSaved, Upload
  <2> QED BY <1>0, <1>8, <2>1 DEF FailSaved, StepSaved
<1>9. ASSUME DeployMachineStarts PROVE Kept
  <2>1. /\ TriggerDeploy(0) /\ UNCHANGED <<file, enterSave>> /\ 0 \in 0 .. N
        /\ dir = 1 /\ mem.cur = 0 /\ mem.step[0] = "WAITING_FOR_DEPLOYMENT"
    BY <1>0, <1>9 DEF DeployMachineStarts, StartInv, Untouched, Steps
  <2>2. idx' = 0 /\ MayStartStep(mem, dir)
    BY <2>1 DEF TriggerDeploy, MayStartStep, CurrentStep
  <2> QED BY <1>0, <2>1, <2>2, TriggerDeployKeeps
<1>10. ASSUME NEW ok \in BOOLEAN, Advanced(ok) PROVE Kept
  <2> DEFINE i == idx + 1
  <2>1. /\ pc = "advancing" /\ TriggerDeploy(i) /\ Upload(mainSave, ok) /\ UNCHANGED enterSave
    BY <1>10 DEF Advanced
  <2>2. file' \in {file, mainSave} /\ i \in 0 .. N
    BY <1>0, <2>1 DEF Upload, Typed, IndexInv, Steps
  <2>3. i < N - 1 => dir = 1 /\ mem.cur = i /\ mem.step[i] = "WAITING_FOR_DEPLOYMENT"
    BY <1>0, <2>1 DEF DeployInv, Untouched, Steps
  <2>4. idx' = i
    BY <2>1 DEF TriggerDeploy
  <2> HIDE DEF i
  <2>5. i < N - 1 => MayStartStep(mem, dir)
    BY <2>3 DEF MayStartStep, CurrentStep
  <2> QED BY <1>0, <2>1, <2>2, <2>3, <2>4, <2>5, TriggerDeployKeeps
<1>11. ASSUME TablesReady PROVE Kept
  <2>1. /\ pc = "waitForTables" /\ dir = 1 /\ idx \in Steps /\ mem \in State
        /\ mem.cur = idx /\ mem.status = "DEPLOYING" /\ mem.step[idx] = "DEPLOYING"
        /\ UNCHANGED <<file, enterSave>>
    BY <1>0, <1>11 DEF TablesReady, DeployInv, TypeOK
  <2>2. MayAdvance(mem, dir)
    BY <2>1 DEF MayAdvance, IsInProgress, CurrentStep
  <2>3. mem' = AdvanceForward(mem) /\ mainSave' = mem' /\ pc' = "advancing"
    BY <2>1, <2>2, <1>11 DEF TablesReady, Advance
  <2>4. WellKept(AdvanceForward(mem))
    BY <1>0, <2>1, AdvanceForwardKeeps
  <2> QED BY <1>0, <2>1, <2>3, <2>4
<1>12. ASSUME DeployRejected \/ DeploymentFails \/ PreviousTablesReady PROVE Kept
  <2>1. StartRollBackFn /\ UNCHANGED <<file, mainSave>>
        /\ pc' \in {"rollbackTables", "enteringRollback"}
    BY <1>12 DEF DeployRejected, DeploymentFails, PreviousTablesReady, EnterRollback
  <2> QED BY <1>0, <2>1, StartRollBackFnKeeps
<1>13. ASSUME RollbackFails PROVE Kept
  <2>1. MachineEnds("failed") /\ UNCHANGED <<file, enterSave>>
    BY <1>13 DEF RollbackFails
  <2>2. pc' \in {"failing", "done", "planning"}
    BY <2>1 DEF MachineEnds, RunFails
  <2> QED BY <1>0, <2>1, <2>2, MachineEndsKeeps
<1>14. ASSUME NEW i \in Int, TriggerRollback(i), file' \in {file, mainSave},
              UNCHANGED enterSave
       PROVE  Kept
  <2>1. pc' \in {"failing", "done", "planning", "rollingBack", "updatingBack"}
    BY <1>14 DEF TriggerRollback, DoDeploy, MachineEnds, RunFails
  <2> QED BY <1>0, <1>14, <2>1, TriggerRollbackKeeps
<1>15. idx \in Int /\ idx - 1 \in Int
  BY <1>0 DEF TypeOK
<1>16. ASSUME RollbackEntered PROVE Kept
  BY <1>14, <1>15, <1>16 DEF RollbackEntered
<1>17. ASSUME NEW ok \in BOOLEAN, RollbackAdvanced(ok) PROVE Kept
  BY <1>14, <1>15, <1>17 DEF RollbackAdvanced, Upload
<1>18. ASSUME RollbackTablesReady PROVE Kept
  <2>1. /\ pc = "rollbackTables" /\ dir = -1 /\ mem \in State
        /\ mem.status = "ROLLING_BACK" /\ UNCHANGED <<file, enterSave>>
    BY <1>0, <1>18 DEF RollbackTablesReady, RollbackInv, WaitsForRollback, TypeOK
  <2>2. CASE MayAdvance(mem, dir)
    <3>1. mem' = AdvanceBackward(mem) /\ mainSave' = mem' /\ pc' = "rollbackAdvancing"
      BY <2>1, <2>2, <1>18 DEF RollbackTablesReady, Advance
    <3>2. WellKept(AdvanceBackward(mem))
      BY <1>0, <2>1, AdvanceBackwardKeeps
    <3> QED BY <1>0, <2>1, <3>1, <3>2
  <2>3. CASE ~MayAdvance(mem, dir)
    BY <2>1, <2>3, <1>14, <1>15, <1>18 DEF RollbackTablesReady
  <2> QED BY <2>2, <2>3
<1>19. ASSUME NEW ok \in BOOLEAN, EnterSaved(ok) \/ EnterStepSaved(ok) PROVE Kept
  <2>1. /\ enter # "idle" /\ file' \in {file, enterSave} /\ UNCHANGED <<pc, idx, mainSave>>
    BY <1>19 DEF EnterSaved, EnterStepSaved, Upload
  <2>2. \/ UNCHANGED <<mem, enterSave>>
        \/ mem' = StartStep(mem, dir, FALSE) /\ enterSave' = mem'
    BY <1>19, Zenon DEF EnterSaved, EnterStepSaved
  <2>3. WellKept(StartStep(mem, dir, FALSE))
    BY <1>0, StartStepKeeps DEF TypeOK
  <2>4. pc \notin DeployPCs
    BY <1>0, <2>1 DEF EnterInv
  <2> QED BY <1>0, <2>1, <2>2, <2>3, <2>4
<1> HIDE DEF Kept, KeyInv
<1>20. Kept
  BY <1>1, <1>2, <1>3, <1>4, <1>5, <1>6, <1>7, <1>8, <1>9, <1>10, <1>11, <1>12, <1>13,
     <1>16, <1>17, <1>18, <1>19
     DEF Next, Main, Enter, Stack
<1> QED BY <1>20 DEF ProfileInv, Kept, KeyInv

\* The record, its copies and the file keep their shape and the steps under
\* way their keys, for every plan, every fault and every lost upload.
THEOREM ProfileCorrect == Spec => []ProfileInv
<1>1. Init => ProfileInv
  BY StillRecordsKept DEF Init, ProfileInv, DeployPCs
<1>2. Typed /\ RecordInv /\ ProfileInv /\ [Next]_vars => ProfileInv'
  BY ProfileStep
<1> QED BY <1>1, <1>2, RecordCorrect, PTL DEF Spec

\* Whatever was killed or lost, a state file in progress has deployed, or has
\* waiting for their rollback, the steps before the current one, each with its
\* key, and has not begun, or has undone, those after it.
THEOREM FileIsAProfile == Spec => []RecordIsAProfile
<1>1. ProfileInv => RecordIsAProfile
  BY DEF ProfileInv, WellKept, Profile, RecordIsAProfile
<1> QED BY <1>1, ProfileCorrect, PTL

\* The filter of runIterativeRollback drops no step of a file that it does not
\* refuse: positions in the filtered list are step numbers.
THEOREM FilterKeepsSteps == Spec => []NothingFilteredOut
<1>1. Typed /\ ProfileInv => NothingFilteredOut
  <2> SUFFICES ASSUME Typed, ProfileInv, IsInProgress(file), HasEveryKey(file),
                      NEW i \in 0 .. file.cur
               PROVE  file.step[i] \in PrevDeploymentStatus
    BY DEF NothingFilteredOut, KeepsEveryStep
  <2>1. file \in State /\ i \in Steps /\ file.key[i] /\ (i < file.cur \/ i = file.cur)
    BY NAssumption DEF Typed, TypeOK, State, Steps, HasEveryKey
  <2>2. CASE i < file.cur
    BY <2>1, <2>2 DEF ProfileInv, WellKept, Profile, PrevDeploymentStatus
  <2>3. CASE i = file.cur
    <3>1. file.step[i] \in DeploymentStepStatus
      BY <2>1 DEF State
    <3>2. file.step[i] \notin {"WAITING_FOR_DEPLOYMENT", "ROLLED_BACK"}
      BY <2>1 DEF ProfileInv, WellKept, KeysOfBegun
    <3> QED BY <3>1, <3>2 DEF DeploymentStepStatus, PrevDeploymentStatus
  <2> QED BY <2>1, <2>2, <2>3
<1> QED BY <1>1, ProfileCorrect, RecordCorrect, PTL

-----------------------------------------------------------------------------
(* How far the record may be from the stack *)

\* doDeploy uploads the record as it leaves it.
LEMMA DoDeployUploads ==
  ASSUME NEW saving, NEW updating, NEW hasKey, DoDeploy(saving, updating, hasKey),
         saving # updating, pc' = saving
  PROVE  mainSave' = mem'
BY DEF DoDeploy

\* failDeployment leaves currentStepIndex alone.
LEMMA FailKeepsPlace == \A s \in State : FailDeployment(s).cur = s.cur
BY DEF FailDeployment, State

\* A lost upload widens the distance allowed, a successful one writes a record
\* that is near.
LEMMA UploadNear ==
  ASSUME TypeOK, NEW body \in State, NEW ok \in BOOLEAN, Upload(body, ok),
         UNCHANGED <<pos, cfn, target>>, FileNear,
         IsInProgress(body) => Near(body.cur) /\ NearNext(body.cur)
  PROVE  /\ FileNear' /\ saveFails <= saveFails'
         /\ \/ file' = body
            \/ file' = file /\ saveFails' = saveFails + 1
<1>1. /\ pos \in Int /\ target \in Int /\ saveFails \in Int
      /\ file.cur \in Int /\ body.cur \in Int
  BY IterativeAssumption, NAssumption DEF TypeOK, State, Steps
<1>2. CASE ok
  BY <1>1, <1>2 DEF Upload, FileNear, Near, NearNext
<1>3. CASE ~ok
  BY <1>1, <1>3 DEF Upload, FileNear, Near, NearNext
<1> QED BY <1>2, <1>3

\* Distances under a wider bound, and between neighbours.
LEMMA Distances ==
  ASSUME NEW x \in Int, NEW y \in Int, NEW b \in Int, NEW c \in Int, b <= c
  PROVE  x - y <= 1 + b => x - y <= 1 + c
OBVIOUS

LEMMA Neighbours ==
  ASSUME NEW x \in Int, NEW y \in Int, NEW c \in Int, 0 <= c, x = y \/ x = y + 1
  PROVE  /\ x - y <= 1 + c /\ y - x <= 1 + c
         /\ x <= y + 1 + c /\ y <= x + c
OBVIOUS

\* The invariant is kept by every action, as long as waiters see updates to
\* their end.
LEMMA DistanceStep ==
  ASSUME Typed, RecordInv, StackInv, DistanceInv, [Next]_vars,
         Typed', RecordInv', StackInv'
  PROVE  DistanceInv'
<1> DEFINE Kept == FileNear' /\ EnterNear' /\ ForwardLag' /\ ResumeLag' /\ BackwardLag'
<1>0. /\ TypeOK /\ IndexInv /\ TypeOK' /\ IndexInv'
      /\ EnterInv /\ StartInv /\ DeployInv /\ PreRollbackInv /\ RollbackInv
      /\ EnterInv' /\ StartInv' /\ DeployInv' /\ PreRollbackInv' /\ RollbackInv'
      /\ BusyInv /\ FileInv /\ UploadInv /\ PositionInv
      /\ BusyInv' /\ FileInv' /\ UploadInv' /\ PositionInv'
      /\ FileNear /\ EnterNear /\ ForwardLag /\ ResumeLag /\ BackwardLag
  BY DEF Typed, RecordInv, StackInv, DistanceInv
<1>00. /\ pos \in Int /\ target \in Int /\ saveFails \in Int /\ idx \in Int
       /\ pos' \in Int /\ target' \in Int /\ saveFails' \in Int /\ idx' \in Int
       /\ 0 <= saveFails
       /\ file \in State /\ mem \in State /\ mainSave \in State /\ enterSave \in State
       /\ file.cur \in Int /\ mem.cur \in Int /\ mainSave.cur \in Int /\ enterSave.cur \in Int
       /\ file'.cur \in Int /\ mem'.cur \in Int /\ mainSave'.cur \in Int
       /\ enterSave'.cur \in Int
  BY <1>0, IterativeAssumption, NAssumption DEF TypeOK, State, Steps
<1> USE NAssumption, IterativeAssumption
    DEF DeployPCs, PreRollPCs, RollbackPCs, cloudVars, sessionVars, enterVars
<1>1. ASSUME pc' \in {"off", "done", "planning", "failing", "cleaning"},
             UNCHANGED <<pos, cfn, target, enterSave>>, enter' \in {enter, "idle"},
             enter' # "idle" => mem'.cur = mem.cur,
             FileNear', saveFails <= saveFails'
      PROVE  Kept
  <2>1. EnterNear'
    BY <1>0, <1>00, <1>1 DEF EnterNear, Near, NearNext
  <2>2. ForwardLag' /\ ResumeLag' /\ BackwardLag'
    BY <1>1 DEF ForwardLag, ResumeLag, BackwardLag
  <2> QED BY <1>1, <2>1, <2>2
<1>2. ASSUME UNCHANGED <<file, pos, cfn, target, saveFails>> PROVE FileNear'
  BY <1>0, <1>2 DEF FileNear, Near, NearNext
<1>3. ASSUME RollbackRefused \/ Plan \/ PushRefused \/ PlanThrows \/ Exit \/ Crash
      PROVE  Kept
  BY <1>1, <1>2, <1>3, <1>00
     DEF RollbackRefused, Plan, PushRefused, PlanThrows, Exit, Crash
<1>4. ASSUME RunThrows PROVE Kept
  BY <1>1, <1>2, <1>4, <1>00, FailKeepsPlace DEF RunThrows, RunFails
<1>5. ASSUME RollbackFails PROVE Kept
  BY <1>1, <1>2, <1>5, <1>00, FailKeepsPlace DEF RollbackFails, MachineEnds, RunFails
<1>6. ASSUME StateFileDeleted PROVE Kept
  BY <1>1, <1>6, <1>00 DEF StateFileDeleted, FileNear, IdleState, IsInProgress
<1>7. ASSUME UNCHANGED vars PROVE Kept
  BY <1>0, <1>7 DEF vars, FileNear, EnterNear, ForwardLag, ResumeLag, BackwardLag, Near, NearNext,
          CurrentStep
<1>8. ASSUME NEW c \in {"push", "force", "rollback"}, StartCommand(c) PROVE Kept
  <2>1. /\ pc' = "started" /\ enter = "idle"
        /\ UNCHANGED <<file, pos, cfn, target, saveFails, enter, enterSave>>
    BY <1>0, <1>8 DEF StartCommand, EnterInv
  <2> QED BY <1>0, <2>1 DEF FileNear, EnterNear, ForwardLag, ResumeLag, BackwardLag, Near, NearNext
<1>9. ASSUME RollbackMachineStarts PROVE Kept
  <2>1. /\ pc = "started" /\ pc' = "waitingForPrevious" /\ enter = "idle"
        /\ UNCHANGED <<file, pos, cfn, target, saveFails, enter, enterSave, mem>>
    BY <1>0, <1>9 DEF RollbackMachineStarts, EnterInv
  <2> QED BY <1>0, <2>1 DEF FileNear, EnterNear, ForwardLag, ResumeLag, BackwardLag, Near, NearNext,
          FileInv
<1>10. ASSUME StartsDeployment PROVE Kept
  <2>1. /\ pc' = "starting" /\ mainSave'.cur = 0 /\ enter = "idle"
        /\ UNCHANGED <<file, pos, cfn, target, saveFails, enter, enterSave>>
    BY <1>0, <1>10, InitialStates DEF StartsDeployment, EnterInv
  <2> QED BY <1>0, <2>1 DEF FileNear, EnterNear, ForwardLag, ResumeLag, BackwardLag, Near, NearNext
<1>11. ASSUME NEW ok \in BOOLEAN, StartSaved(ok) PROVE Kept
  <2>1. /\ pc = "starting" /\ Upload(mainSave, ok) /\ pos = 0 /\ mainSave.cur = 0
        /\ cfn # "inProgress" /\ enter = "idle"
        /\ UNCHANGED <<pos, cfn, target, enter, enterSave>>
    BY <1>0, <1>11 DEF StartSaved, BusyInv, RestingPCs, WaitingPCs, PositionInv, ForwardLag,
            EnterInv
  <2>2. FileNear' /\ saveFails <= saveFails'
    BY <1>0, <1>00, <2>1, UploadNear DEF Near, NearNext
  <2>3. CASE pc' = "preparing" /\ file' = mainSave
    BY <2>1, <2>2, <2>3 DEF EnterNear, ForwardLag, ResumeLag, BackwardLag
  <2>4. CASE pc' \in {"failing", "done"}
    BY <1>1, <2>1, <2>2, <2>4
  <2> QED BY <2>3, <2>4, <1>11 DEF StartSaved, Upload, RunFails
<1>12. ASSUME NEW ok \in BOOLEAN, FailSaved(ok) PROVE Kept
  <2>1. /\ pc = "failing" /\ Upload(mainSave, ok) /\ pc' = "done" /\ ~IsInProgress(mainSave)
        /\ UNCHANGED <<pos, cfn, target, enter, enterSave, mem>>
    BY <1>0, <1>12 DEF FailSaved, UploadInv, IsInProgress
  <2>2. FileNear' /\ saveFails <= saveFails'
    BY <1>0, <1>00, <2>1, UploadNear
  <2> QED BY <1>1, <2>1, <2>2
<1>13. ASSUME UpdateStack PROVE Kept
  <2>1. /\ pc \in {"updating", "updatingBack"}
        /\ pc' = IF pc = "updating" THEN "waitingForDeployment" ELSE "waitingForRollback"
        /\ cfn' = "inProgress"
        /\ target' = IF pc = "updating" THEN idx + 1 ELSE idx
        /\ UNCHANGED <<file, pos, idx, saveFails, enter, enterSave, mem, mainSave>>
    BY <1>13 DEF UpdateStack, Destination
  <2>2. CASE pc = "updating"
    BY <1>0, <1>00, <2>1, <2>2 DEF FileNear, EnterNear, ForwardLag, ResumeLag, BackwardLag,
       Near, NearNext, EnterInv, RollbackInv
  <2>3. CASE pc = "updatingBack"
    BY <1>0, <1>00, <2>1, <2>3 DEF FileNear, EnterNear, ForwardLag, ResumeLag, BackwardLag,
       Near, NearNext, EnterInv, RollbackInv
  <2> QED BY <2>1, <2>2, <2>3
<1>14. ASSUME DeploymentDone \/ PreviousDone PROVE Kept
  <2>1. /\ \/ pc = "waitingForDeployment" /\ pc' = "waitForTables"
           \/ pc = "waitingForPrevious" /\ pc' = "previousTables"
        /\ UNCHANGED <<file, pos, cfn, target, idx, saveFails, enter, enterSave, mem, mainSave>>
    BY <1>14 DEF DeploymentDone, PreviousDone
  <2> QED BY <1>0, <1>00, <2>1 DEF FileNear, EnterNear, ForwardLag, ResumeLag, BackwardLag,
       Near, NearNext
<1>15. ASSUME RollbackDone PROVE Kept
  <2>1. /\ pc = "waitingForRollback" /\ pc' = "rollbackTables" /\ cfn = "complete"
        /\ CurrentStep(mem) = "ROLLING_BACK"
        /\ UNCHANGED <<file, pos, cfn, target, idx, saveFails, enter, enterSave, mem, mainSave>>
    BY <1>0, <1>15 DEF RollbackDone, WaitSucceeds, RollbackInv
  <2>2. enter = "idle" /\ CurrentStep(mem') # "WAITING_FOR_ROLLBACK"
    BY <1>0, <2>1 DEF BackwardLag
  <2> QED BY <1>0, <1>00, <2>1, <2>2 DEF FileNear, EnterNear, ForwardLag, ResumeLag, BackwardLag,
       Near, NearNext
<1>16. ASSUME StackUpdated \/ StackRolledBack \/ StackStuck PROVE Kept
  <2>1. /\ cfn = "inProgress" /\ cfn' # "inProgress" /\ enter = "idle" /\ pos' \in {pos, target}
        /\ UNCHANGED <<file, pc, target, idx, saveFails, enter, enterSave, mem, mainSave>>
    BY <1>16 DEF StackUpdated, StackRolledBack, StackStuck, UpdateEnds
  <2>2. pc \in WaitingPCs \cup RestingPCs
    BY <1>0, <2>1 DEF BusyInv
  <2> QED BY <1>0, <1>00, <2>1, <2>2 DEF FileNear, EnterNear, ForwardLag, ResumeLag, BackwardLag,
       Near, NearNext, WaitingPCs, RestingPCs, CurrentStep
<1>17. ASSUME NEW ok \in BOOLEAN, EnterSaved(ok) \/ EnterStepSaved(ok) PROVE Kept
  <2>1. /\ enter # "idle" /\ Upload(enterSave, ok)
        /\ UNCHANGED <<pc, pos, cfn, target, idx, mainSave, dir>>
        /\ pc \in RollbackPCs \cup {"enteringRollback", "failing", "done"}
    BY <1>0, <1>17 DEF EnterSaved, EnterStepSaved, EnterInv
  <2>2. /\ FileNear' /\ saveFails <= saveFails'
        /\ \/ file' = enterSave
           \/ file' = file /\ saveFails' = saveFails + 1
    BY <1>0, <1>00, <2>1, UploadNear DEF EnterNear
  <2>3. \/ mem' = mem /\ enter' = "idle"
        \/ mem' = StartStep(mem, dir, FALSE) /\ enterSave' = mem' /\ enter' = "stepping"
           /\ MayStartStep(mem, dir)
    BY <1>17, Zenon DEF EnterSaved, EnterStepSaved
  <2>4. CASE mem' = mem /\ enter' = "idle"
    BY <1>0, <1>00, <2>1, <2>2, <2>4 DEF EnterNear, ForwardLag, ResumeLag, BackwardLag,
       Near, NearNext, CurrentStep
  <2>5. CASE mem' = StartStep(mem, dir, FALSE) /\ enterSave' = mem' /\ enter' = "stepping"
             /\ MayStartStep(mem, dir)
    <3> DEFINE t == StartStep(mem, dir, FALSE)
    <3>1. t.cur = mem.cur /\ t.step[mem.cur] = IF dir = 1 THEN "DEPLOYING" ELSE "ROLLING_BACK"
      <4>1. mem \in State /\ dir \in Directions
        BY <1>0 DEF TypeOK
      <4> QED BY <4>1, StartStepFacts
    <3> HIDE DEF t
    <3>2. /\ mem'.cur = mem.cur /\ enterSave'.cur = mem.cur
          /\ CurrentStep(mem') # "WAITING_FOR_ROLLBACK"
      BY <2>5, <3>1 DEF CurrentStep, t
    <3>3. EnterNear'
      BY <1>0, <1>00, <2>1, <2>2, <3>2 DEF EnterNear, Near, NearNext
    <3>4. CASE pc = "enteringRollback"
      BY <1>0, <2>1, <2>2, <3>2, <3>3, <3>4 DEF ForwardLag, ResumeLag, BackwardLag
    <3>5. CASE pc \in {"failing", "done"}
      BY <2>1, <2>2, <3>3, <3>5 DEF ForwardLag, ResumeLag, BackwardLag
    <3>6. CASE pc \in RollbackPCs
      <4>1. mem.step[mem.cur] = "WAITING_FOR_ROLLBACK"
            /\ pc \in {"rollbackTables", "rollbackAdvancing"}
        BY <1>0, <2>1, <2>5, <3>6 DEF RollbackInv, MayStartStep, CurrentStep
      <4>2. ForwardLag' /\ ResumeLag'
        BY <2>1, <4>1 DEF ForwardLag, ResumeLag
      <4>3. CASE pc = "rollbackTables"
        <5>1. mem.cur = idx
          BY <1>0, <4>1, <4>3 DEF RollbackInv, CurrentStep
        <5> QED
          BY <1>0, <1>00, <2>1, <2>2, <3>2, <3>3, <4>2, <4>3, <5>1 DEF BackwardLag
      <4>4. CASE pc = "rollbackAdvancing"
        <5>1. mem.cur \in {idx - 1, idx}
          BY <1>0, <4>4 DEF RollbackInv
        <5>2. /\ file.cur <= idx + 1 + saveFails /\ idx <= file.cur + saveFails + 1
              /\ mainSave.cur = mem.cur /\ enterSave.cur <= idx /\ idx <= enterSave.cur + 1
          BY <1>0, <2>1, <4>4 DEF BackwardLag
        <5>3. /\ file'.cur <= idx + 1 + saveFails' /\ idx <= file'.cur + saveFails' + 1
              /\ mainSave'.cur = mem'.cur
              /\ enterSave'.cur <= idx /\ idx <= enterSave'.cur + 1
          BY <1>00, <2>1, <2>2, <3>2, <5>1, <5>2
        <5>4. BackwardLag'
          <6>1. pc' = "rollbackAdvancing" /\ idx' = idx /\ idx' <= idx + 1
                /\ enterSave'.cur <= idx + 1
            BY <1>00, <2>1, <4>4, <5>3
          <6> QED BY <5>3, <6>1 DEF BackwardLag
        <5> QED
          BY <2>2, <3>3, <4>2, <5>4
      <4> QED BY <4>1, <4>3, <4>4
    <3> QED BY <2>1, <3>4, <3>5, <3>6
  <2> QED BY <2>3, <2>4, <2>5
<1>18. ASSUME NEW ok \in BOOLEAN, StepSaved(ok) PROVE Kept
  <2>1. /\ pc \in {"deploying", "rollingBack"} /\ Upload(mainSave, ok)
        /\ pc' = IF pc = "deploying" THEN "updating" ELSE "updatingBack"
        /\ UNCHANGED <<pos, cfn, target, idx, mem, mainSave, enter, enterSave>>
    BY <1>18 DEF StepSaved
  <2>2. cfn # "inProgress" /\ (pc = "deploying" => pos = idx)
    BY <1>0, <2>1 DEF BusyInv, WaitingPCs, RestingPCs, PositionInv
  <2>3. /\ Near(mainSave.cur) /\ NearNext(mainSave.cur)
        /\ pc = "rollingBack" => mainSave.cur \in {idx, idx + 1}
        /\ pc = "deploying" => mainSave.cur = idx /\ enter = "idle"
    BY <1>0, <1>00, <2>1, <2>2
       DEF ForwardLag, BackwardLag, RollbackInv, EnterInv, DeployInv, Near, NearNext
  <2>4. /\ FileNear' /\ saveFails <= saveFails'
        /\ \/ file' = mainSave
           \/ file' = file /\ saveFails' = saveFails + 1
    BY <1>0, <1>00, <2>1, <2>3, UploadNear
  <2>5. EnterNear'
    BY <1>0, <1>00, <2>1, <2>4 DEF EnterNear, Near, NearNext
  <2>6. CASE pc = "deploying"
    BY <1>0, <1>00, <2>1, <2>3, <2>4, <2>5, <2>6 DEF ForwardLag, ResumeLag, BackwardLag
  <2>7. CASE pc = "rollingBack"
    <3>1. /\ pos - idx <= 1 + saveFails /\ idx - pos <= 1 + saveFails
          /\ pos - mem.cur <= 1 + saveFails /\ mem.cur - pos <= 1 + saveFails
          /\ saveFails <= saveFails' /\ pos' = pos /\ idx' = idx /\ mem'.cur = mem.cur
      BY <1>0, <2>1, <2>4, <2>7 DEF BackwardLag, Near
    <3>2. Near(idx)' /\ Near(mem.cur)'
      <4>2. /\ pos - idx <= 1 + saveFails' /\ idx - pos <= 1 + saveFails'
        BY <1>00, <3>1, Distances
      <4>3. /\ pos - mem.cur <= 1 + saveFails' /\ mem.cur - pos <= 1 + saveFails'
        BY <1>00, <3>1, Distances
      <4> QED BY <3>1, <4>2, <4>3 DEF Near
    <3> QED
      BY <1>0, <1>00, <2>1, <2>3, <2>4, <2>5, <2>7, <3>2 DEF ForwardLag, ResumeLag, BackwardLag
  <2> QED BY <2>1, <2>6, <2>7
<1>19. ASSUME NEW i \in 0 .. N, TriggerDeploy(i), dir = 1, enter = "idle",
              UNCHANGED <<pos, cfn, target, enter, enterSave>>, FileNear',
              saveFails <= saveFails',
              i < N => /\ file'.cur <= i /\ i <= file'.cur + saveFails' /\ mem.cur = i
       PROVE  Kept
  <2>1. CASE i = N
    <3>1. pc' = "cleaning"
      BY <1>0, <1>19, <2>1, TriggerDeployFacts
    <3> QED BY <1>1, <1>19, <3>1
  <2>2. CASE i < N
    <3>1. idx' = i /\ DoDeploy("deploying", "updating", i < N - 1)
      BY <1>19, <2>2 DEF TriggerDeploy
    <3>2. pc' \in {"deploying", "updating"} /\ mem'.cur = i
      BY <1>0, <1>19, <2>2, TriggerDeployFacts
    <3>3. pc' = "deploying" => mainSave' = mem'
      BY <3>1, DoDeployUploads
    <3> QED
      BY <1>00, <1>19, <2>2, <3>1, <3>2, <3>3 DEF EnterNear, ForwardLag, ResumeLag, BackwardLag
  <2> QED BY <2>1, <2>2
<1>20. ASSUME DeployMachineStarts PROVE Kept
  <2>1. /\ TriggerDeploy(0) /\ dir = 1 /\ enter = "idle" /\ mem.cur = 0 /\ file.cur = 0
        /\ UNCHANGED <<pos, cfn, target, enter, enterSave, file, saveFails>> /\ 0 \in 0 .. N
    BY <1>0, <1>20 DEF DeployMachineStarts, EnterInv, StartInv, ForwardLag
  <2> QED BY <1>00, <1>2, <1>19, <2>1
<1>21. ASSUME TablesReady PROVE Kept
  <2>1. /\ pc = "waitForTables" /\ dir = 1 /\ enter = "idle" /\ mem.status = "DEPLOYING"
        /\ mem.cur = idx /\ CurrentStep(mem) = "DEPLOYING" /\ idx \in Steps /\ mem \in State
        /\ UNCHANGED <<file, pos, cfn, target, enter, enterSave, saveFails>>
    BY <1>0, <1>00, <1>21 DEF TablesReady, DeployInv, EnterInv, CurrentStep
  <2>2. mem' = AdvanceForward(mem) /\ mainSave' = mem' /\ pc' = "advancing" /\ idx' = idx
    BY <2>1, <1>21 DEF TablesReady, MayAdvance, IsInProgress, Advance
  <2>3. idx < N - 1 => mem'.cur = idx + 1
    BY <2>1, <2>2, AdvanceForwardFacts
  <2> QED
    BY <1>0, <1>00, <1>2, <2>1, <2>2, <2>3 DEF EnterNear, ForwardLag, ResumeLag, BackwardLag
<1>22. ASSUME NEW ok \in BOOLEAN, Advanced(ok) PROVE Kept
  <2> DEFINE i == idx + 1
  <2>1. /\ pc = "advancing" /\ Upload(mainSave, ok) /\ TriggerDeploy(i) /\ i \in 0 .. N
        /\ dir = 1 /\ enter = "idle" /\ pos = i /\ cfn # "inProgress"
        /\ UNCHANGED <<pos, cfn, target, enter, enterSave>>
    BY <1>0, <1>22 DEF Advanced, IndexInv, Steps, DeployInv, EnterInv, PositionInv, BusyInv,
       WaitingPCs, RestingPCs
  <2>2. /\ i < N => mainSave.cur = i /\ mem.cur = i
        /\ IsInProgress(mainSave) => i < N
        /\ file.cur <= idx /\ idx <= file.cur + saveFails
    BY <1>0, <1>00, <2>1 DEF ForwardLag, DeployInv, UploadInv, IsInProgress
  <2>3. IsInProgress(mainSave) => Near(mainSave.cur) /\ NearNext(mainSave.cur)
    BY <1>00, <2>1, <2>2 DEF Near, NearNext
  <2>4. /\ FileNear' /\ saveFails <= saveFails'
        /\ \/ file' = mainSave
           \/ file' = file /\ saveFails' = saveFails + 1
    BY <1>0, <1>00, <2>1, <2>3, UploadNear
  <2>5. i < N => file'.cur <= i /\ i <= file'.cur + saveFails' /\ mem.cur = i
    BY <1>00, <2>2, <2>4
  <2> HIDE DEF i
  <2> QED BY <1>19, <2>1, <2>4, <2>5
<1>23. ASSUME DeployRejected \/ DeploymentFails PROVE Kept
  <2>1. /\ StartRollBackFn /\ pc' = "rollbackTables" /\ dir = 1 /\ IsInProgress(mem)
        /\ mem.cur = idx /\ pos = idx /\ cfn # "inProgress" /\ pc \in DeployPCs
        /\ UNCHANGED <<file, pos, cfn, target, idx, saveFails>>
    BY <1>0, <1>23 DEF DeployRejected, DeploymentFails, EnterRollback, DeployInv, IsInProgress,
       PositionInv, BusyInv, WaitingPCs, RestingPCs, WaitFails
  <2>2. enterSave' = mem' /\ mem'.cur = idx
    BY <1>0, <2>1, StartRollBackFnFacts DEF MayStartRollback
  <2>3. EnterNear'
    BY <1>00, <2>1, <2>2 DEF EnterNear, Near, NearNext
  <2> QED
    BY <1>0, <1>00, <1>2, <2>1, <2>2, <2>3 DEF ForwardLag, ResumeLag, BackwardLag
<1>24. ASSUME PreviousTablesReady PROVE Kept
  <2>1. /\ StartRollBackFn /\ pc' = "enteringRollback" /\ dir = 1 /\ IsInProgress(mem)
        /\ file.cur = mem.cur /\ IsInProgress(file)
        /\ UNCHANGED <<file, pos, cfn, target, idx, saveFails>>
    BY <1>0, <1>24 DEF PreviousTablesReady, PreRollbackInv, ResumeLag, FileInv
  <2>2. enterSave' = mem' /\ mem'.cur = mem.cur
    BY <1>0, <2>1, StartRollBackFnFacts DEF MayStartRollback
  <2>3. EnterNear'
    BY <1>0, <1>00, <2>1, <2>2 DEF EnterNear, FileNear, Near, NearNext
  <2> QED
    BY <1>2, <2>1, <2>2, <2>3 DEF ForwardLag, ResumeLag, BackwardLag
<1>25. ASSUME NEW i \in -1 .. N - 1, TriggerRollback(i), cfn # "inProgress",
              UNCHANGED <<pos, cfn, target, enter, enterSave>>, FileNear',
              saveFails <= saveFails',
              enter # "idle" => Near(mem.cur),
              i >= 0 =>
                /\ file'.cur <= i + 1 + saveFails' /\ i <= file'.cur + saveFails'
                /\ pos - i <= 1 + saveFails' /\ i - pos <= 1 + saveFails'
                /\ pos - mem.cur <= 1 + saveFails' /\ mem.cur - pos <= 1 + saveFails'
                /\ enter # "idle" => i <= enterSave.cur /\ enterSave.cur <= i + 1
       PROVE  Kept
  <2>1. CASE i = -1
    <3>1. /\ pc' \in {"done", "failing", "planning"} /\ MachineEnds("rolledBack")
      BY <1>0, <1>25, <2>1, TriggerRollbackFacts
    <3>2. mem'.cur = mem.cur
      BY <1>00, <3>1, FailKeepsPlace DEF MachineEnds, RunFails
    <3> QED BY <1>1, <1>25, <3>1, <3>2
  <2>2. CASE i >= 0
    <3>1. idx' = i /\ DoDeploy("rollingBack", "updatingBack", FALSE)
      <4>1. ~(i < 0) /\ TriggerRollback(i)
        BY <1>25, <2>2
      <4> QED BY <4>1 DEF TriggerRollback
    <3>2. pc' \in {"rollingBack", "updatingBack"} /\ mem'.cur = mem.cur
      BY <1>0, <1>25, <2>2, TriggerRollbackFacts
    <3>3. pc' = "rollingBack" => mainSave' = mem'
      BY <3>1, DoDeployUploads
    <3>4. EnterNear'
      BY <1>0, <1>00, <1>25, <3>2 DEF EnterNear, Near, NearNext
    <3>5. Near(idx)' /\ Near(mem.cur)'
      BY <1>00, <1>25, <2>2, <3>1, <3>2 DEF Near
    <3> QED
      BY <1>00, <1>25, <2>2, <3>1, <3>2, <3>3, <3>4, <3>5 DEF ForwardLag, ResumeLag, BackwardLag
  <2> QED BY <2>1, <2>2
<1>26. ASSUME RollbackEntered PROVE Kept
  <2>1. /\ TriggerRollback(idx - 1) /\ enter = "idle" /\ idx \in 1 .. N
        /\ mem.cur = idx - 1 /\ file.cur = idx - 1 /\ IsInProgress(file) /\ cfn # "inProgress"
        /\ UNCHANGED <<file, pos, cfn, target, enter, enterSave, saveFails>>
    BY <1>0, <1>00, <1>26 DEF RollbackEntered, IndexInv, PreRollbackInv, ResumeLag, FileInv,
       BusyInv, WaitingPCs, RestingPCs
  <2> DEFINE i == idx - 1
  <2>2. i \in -1 .. N - 1 /\ TriggerRollback(i) /\ Near(i) /\ mem.cur = i /\ file.cur = i
    BY <1>0, <2>1 DEF FileNear
  <2>3. pos - i <= 1 + saveFails' /\ i - pos <= 1 + saveFails'
    BY <2>1, <2>2 DEF Near
  <2> HIDE DEF i
  <2> QED BY <1>00, <1>2, <1>25, <2>1, <2>2, <2>3
<1>27. ASSUME NEW ok \in BOOLEAN, RollbackAdvanced(ok) PROVE Kept
  <2> DEFINE i == idx - 1
  <2>1. /\ pc = "rollbackAdvancing" /\ Upload(mainSave, ok) /\ TriggerRollback(i)
        /\ i \in -1 .. N - 1 /\ pos = idx /\ cfn # "inProgress"
        /\ UNCHANGED <<pos, cfn, target, enter, enterSave>>
    BY <1>0, <1>27 DEF RollbackAdvanced, IndexInv, Steps, PositionInv, BusyInv, WaitingPCs,
       RestingPCs
  <2>2. /\ mainSave.cur = mem.cur /\ (i >= 0 => mem.cur \in {i, i + 1})
        /\ mem.cur - idx \in {-1, 0}
        /\ file.cur <= idx + 1 + saveFails /\ idx <= file.cur + saveFails + 1
        /\ enter # "idle" => i <= enterSave.cur /\ enterSave.cur <= i + 1
    BY <1>0, <1>00, <2>1 DEF BackwardLag, RollbackInv, Steps
  <2>3. Near(mainSave.cur) /\ NearNext(mainSave.cur)
    BY <1>00, <2>1, <2>2 DEF Near, NearNext
  <2>4. /\ FileNear' /\ saveFails <= saveFails'
        /\ \/ file' = mainSave
           \/ file' = file /\ saveFails' = saveFails + 1
    BY <1>0, <1>00, <2>1, <2>3, UploadNear
  <2>5. i >= 0 =>
          /\ file'.cur <= i + 1 + saveFails' /\ i <= file'.cur + saveFails'
          /\ pos - i <= 1 + saveFails' /\ i - pos <= 1 + saveFails'
          /\ pos - mem.cur <= 1 + saveFails' /\ mem.cur - pos <= 1 + saveFails'
    <3>1. i \in Int /\ pos \in Int /\ idx = i + 1 /\ pos = i + 1
      BY <1>00, <2>1
    <3> HIDE DEF i
    <3>2. i >= 0 => mem.cur \in {i, i + 1}
      BY <2>2
    <3>3. CASE file' = mainSave
      <4>1. file'.cur = mem.cur
        BY <2>2, <3>3
      <4>2. file'.cur \in Int /\ mem.cur \in Int /\ 0 <= saveFails'
            /\ saveFails' \in Int
        BY <1>00, <2>4
      <4>3. i >= 0 => /\ pos - i <= 1 + saveFails' /\ i - pos <= 1 + saveFails'
                      /\ pos - mem.cur <= 1 + saveFails' /\ mem.cur - pos <= 1 + saveFails'
        <5>1. pos - i <= 1 + saveFails' /\ i - pos <= 1 + saveFails'
          BY <3>1, <4>2, Neighbours, Zenon
        <5>2. i >= 0 => pos = mem.cur \/ pos = mem.cur + 1
          BY <3>1, <3>2
        <5>3. i >= 0 => pos - mem.cur <= 1 + saveFails' /\ mem.cur - pos <= 1 + saveFails'
          BY <3>1, <4>2, <5>2, Neighbours, Zenon
        <5> QED BY <5>1, <5>3
      <4>4. i >= 0 => file'.cur <= i + 1 + saveFails' /\ i <= file'.cur + saveFails'
        <5>1. i >= 0 => mem.cur = i \/ mem.cur = i + 1
          BY <3>2
        <5>2. i >= 0 => mem.cur <= i + 1 + saveFails' /\ i <= mem.cur + saveFails'
          BY <3>1, <4>2, <5>1, Neighbours, Zenon
        <5> QED BY <4>1, <5>2
      <4> QED BY <4>3, <4>4
    <3>4. CASE file' = file /\ saveFails' = saveFails + 1
      BY <1>00, <2>2, <3>1, <3>2, <3>4
    <3> QED BY <2>4, <3>3, <3>4
  <2> HIDE DEF i
  <2> QED BY <1>0, <1>25, <2>1, <2>2, <2>4, <2>5 DEF EnterNear
<1>28. ASSUME RollbackTablesReady PROVE Kept
  <2>1. /\ pc = "rollbackTables" /\ pos = idx /\ cfn # "inProgress" /\ dir = -1
        /\ mem \in State /\ mem.cur \in {idx, idx + 1} /\ WaitsForRollback(mem)
        /\ mem.cur \in Steps /\ idx \in Steps
        /\ UNCHANGED <<file, pos, cfn, target, enter, enterSave, saveFails>>
    BY <1>0, <1>28 DEF RollbackTablesReady, RollbackInv, PositionInv, BusyInv, WaitingPCs,
       RestingPCs, TypeOK, State
  <2>2. CASE MayAdvance(mem, dir)
    <3>1. mem' = AdvanceBackward(mem) /\ mainSave' = mem' /\ pc' = "rollbackAdvancing"
          /\ idx' = idx
      BY <2>1, <2>2, <1>28 DEF RollbackTablesReady, Advance
    <3>2. /\ mem.cur = 0 => mem'.cur = 0
          /\ mem.cur > 0 => mem'.cur = mem.cur - 1
      BY <2>1, <3>1, AdvanceBackwardFacts
    <3>3. EnterNear'
      <4>1. mem'.cur \in {idx - 1, idx}
        BY <1>00, <2>1, <3>2 DEF Steps
      <4> QED BY <1>0, <1>00, <2>1, <4>1 DEF EnterNear, Near, NearNext
    <3> QED
      BY <1>0, <1>00, <1>2, <2>1, <3>1, <3>3 DEF ForwardLag, ResumeLag, BackwardLag
  <2>3. CASE ~MayAdvance(mem, dir)
    <3> DEFINE i == idx - 1
    <3>1. TriggerRollback(i) /\ i \in -1 .. N - 1
      BY <1>28, <2>1, <2>3 DEF RollbackTablesReady, Steps
    <3>2. CurrentStep(mem) = "WAITING_FOR_ROLLBACK"
      BY <2>1, <2>3 DEF MayAdvance, WaitsForRollback, IsInProgress
    <3>3. mem.cur = idx /\ file.cur <= idx + saveFails /\ idx <= file.cur + saveFails
          /\ (enter # "idle" => idx <= enterSave.cur /\ enterSave.cur <= idx)
      BY <1>0, <2>1, <3>2 DEF RollbackInv, BackwardLag
    <3>4. /\ file'.cur <= i + 1 + saveFails' /\ i <= file'.cur + saveFails'
          /\ pos - i <= 1 + saveFails' /\ i - pos <= 1 + saveFails'
          /\ pos - mem.cur <= 1 + saveFails' /\ mem.cur - pos <= 1 + saveFails'
          /\ enter # "idle" => i <= enterSave.cur /\ enterSave.cur <= i + 1
      BY <1>00, <2>1, <3>3
    <3> HIDE DEF i
    <3> QED BY <1>0, <1>00, <1>2, <1>25, <2>1, <3>1, <3>4 DEF EnterNear
  <2> QED BY <2>2, <2>3
<1>29. Kept
  <2> HIDE DEF Kept
  <2> QED
    BY <1>3, <1>4, <1>5, <1>6, <1>7, <1>8, <1>9, <1>10, <1>11, <1>12, <1>13, <1>14, <1>15,
       <1>16, <1>17, <1>18, <1>20, <1>21, <1>22, <1>23, <1>24, <1>26, <1>27, <1>28
       DEF Next, Main, Enter, Stack
<1>30. QED
  BY <1>29 DEF DistanceInv

\* The record, the uploads under way and the file stay near the stack, if waiters
\* see updates to their end.
THEOREM DistanceCorrect ==
  ASSUME "wait" \notin Faults
  PROVE  Spec => []DistanceInv
<1>1. Init => DistanceInv
  BY DEF Init, IdleState, IsInProgress, DistanceInv, FileNear, EnterNear, ForwardLag, ResumeLag,
         BackwardLag, DeployPCs, PreRollPCs, RollbackPCs
<1>2. Typed /\ RecordInv /\ StackInv /\ Typed' /\ RecordInv' /\ StackInv' /\ DistanceInv
      /\ [Next]_vars => DistanceInv'
  BY DistanceStep
<1>3. Spec => [](Typed /\ RecordInv) /\ []StackInv
  BY RecordCorrect, StackCorrect
<1> QED BY <1>1, <1>2, <1>3, PTL DEF Spec

\* However processes are killed and resumed, doDeploy (on the way forward and on
\* the way back) asks for a template at most one away from the one the
\* stack has, plus one for each upload of the state file that was lost.
THEOREM UpdatesClose ==
  ASSUME "wait" \notin Faults
  PROVE  Spec => UpdatesStayClose
<1>1. Typed /\ RecordInv /\ StackInv /\ DistanceInv /\ [Next]_vars =>
        [UpdateStack => target' - pos <= 1 + saveFails /\ pos - target' <= 1 + saveFails]_vars
  <2> SUFFICES ASSUME Typed, StackInv, DistanceInv, UpdateStack
               PROVE  target' - pos <= 1 + saveFails /\ pos - target' <= 1 + saveFails
    OBVIOUS
  <2>1. /\ pos \in Int /\ idx \in Int /\ saveFails \in Int /\ 0 <= saveFails
        /\ pc \in {"updating", "updatingBack"}
        /\ target' = IF pc = "updating" THEN idx + 1 ELSE idx
    BY IterativeAssumption, NAssumption
       DEF Typed, TypeOK, UpdateStack, Destination
  <2>2. CASE pc = "updating"
    <3>1. pos = idx
      BY <2>2 DEF StackInv, PositionInv
    <3> QED BY <2>1, <2>2, <3>1
  <2>3. CASE pc = "updatingBack"
    BY <2>1, <2>3 DEF DistanceInv, BackwardLag, RollbackPCs, Near
  <2> QED BY <2>1, <2>2, <2>3
<1>2. Spec => [](Typed /\ RecordInv) /\ []StackInv /\ []DistanceInv
  BY RecordCorrect, StackCorrect, DistanceCorrect
<1> QED BY <1>1, <1>2, PTL DEF Spec, UpdatesStayClose

-----------------------------------------------------------------------------
(* The walk of the stack, when nothing is killed and nothing is lost *)

LEMMA UploadsSucceed ==
  ASSUME TypeOK, MaxSaveFailures = 0, NEW body, NEW ok, Upload(body, ok)
  PROVE  file' = body
BY DEF Upload, TypeOK

\* A machine's promise settles without moving the record; the deploy machine's
\* makes run() fail the deployment unless it has its outcome.
LEMMA EndRests ==
  ASSUME TypeOK, NEW final, MachineEnds(final), machine \in {"deploy", "rollback"}
  PROVE  /\ mem'.cur = mem.cur /\ pc' \in {"failing", "done", "planning"}
         /\ machine = "deploy" =>
              pc' = IF mem.status \in {"ROLLED_BACK", "DEPLOYED"} THEN "done" ELSE "failing"
         /\ machine = "rollback" => pc' \in {"done", "planning"}
<1>1. mem \in State
  BY DEF TypeOK
<1>2. CASE machine = "deploy"
  BY <1>1, <1>2, FailKeepsPlace DEF MachineEnds, RunFails, MayFail
<1>3. CASE machine = "rollback"
  BY <1>3 DEF MachineEnds
<1> QED BY <1>2, <1>3

\* Every step keeps the walk's invariant.
LEMMA WalkStep ==
  ASSUME Unharmed, Typed, RecordInv, StackInv, DistanceInv, WalkInv, [Next]_vars,
         Typed', RecordInv', StackInv', DistanceInv'
  PROVE  WalkInv'
<1> DEFINE Kept == UpdateAwaited' /\ RestInv' /\ CopyInv' /\ DescentInv'
<1>0. /\ TypeOK /\ IndexInv /\ TypeOK' /\ IndexInv'
      /\ EnterInv /\ StartInv /\ DeployInv /\ PreRollbackInv /\ RollbackInv
      /\ EnterInv' /\ StartInv' /\ DeployInv' /\ PreRollbackInv' /\ RollbackInv'
      /\ BusyInv /\ FileInv /\ UploadInv /\ PositionInv
      /\ BusyInv' /\ FileInv' /\ UploadInv' /\ PositionInv'
      /\ FileNear /\ EnterNear /\ ForwardLag /\ ResumeLag /\ BackwardLag
      /\ UpdateAwaited /\ RestInv /\ CopyInv /\ DescentInv
  BY DEF Typed, RecordInv, StackInv, DistanceInv, WalkInv
<1>00. /\ pos \in Int /\ idx \in Int /\ pos' \in Int /\ idx' \in Int
       /\ file \in State /\ mem \in State /\ mainSave \in State /\ enterSave \in State
       /\ file.cur \in Steps /\ mem.cur \in Steps /\ mainSave.cur \in Steps
       /\ enterSave.cur \in Steps /\ MaxSaveFailures = 0
       /\ "crash" \notin Faults /\ "wait" \notin Faults
  BY <1>0, IterativeAssumption, NAssumption DEF TypeOK, State, Steps, Unharmed
<1> USE NAssumption, IterativeAssumption
    DEF DeployPCs, PreRollPCs, RollbackPCs, RunPCs, cloudVars, sessionVars, enterVars
<1>1. ASSUME pc' \in PreRollPCs \cup RunPCs, cfn' # "inProgress",
             pc' # "failing" => Resumable(file)',
             enter' # "idle" => CopyInv /\ pc' # "rollbackTables"
                                /\ mem'.cur = mem.cur
                                /\ UNCHANGED <<pos, machine, enter, enterSave>>
      PROVE  Kept
  BY <1>1 DEF UpdateAwaited, RestInv, CopyInv, DescentInv
<1>2. ASSUME \/ \E c \in {"push", "force", "rollback"} : StartCommand(c)
             \/ RollbackRefused \/ RollbackMachineStarts \/ Plan \/ PushRefused
             \/ PlanThrows \/ StartsDeployment \/ StateFileDeleted \/ Exit \/ PreviousDone
      PROVE  Kept
  <2>1. /\ enter' = "idle" /\ UNCHANGED <<pos, cfn>> /\ file' \in {file, IdleState}
        /\ pc \in (RunPCs \ {"failing"}) \cup PreRollPCs
        /\ pc' \in (RunPCs \ {"failing"}) \cup PreRollPCs
    BY <1>0, <1>2 DEF EnterInv, StartCommand, RollbackRefused, RollbackMachineStarts, Plan,
       PushRefused, PlanThrows, StartsDeployment, StateFileDeleted, Exit, PreviousDone
  <2>2. cfn' # "inProgress"
    BY <1>0, <2>1 DEF UpdateAwaited
  <2>3. Resumable(file')
    BY <1>0, <2>1, InitialStates DEF RestInv, Resumable, IsInProgress
  <2>4. Resumable(file)'
    BY <2>1, <2>3 DEF Resumable
  <2> QED BY <1>1, <2>1, <2>2, <2>4
<1>3. ASSUME NEW ok \in BOOLEAN, StartSaved(ok) PROVE Kept
  <2>1. /\ file' = mainSave /\ mainSave.cur = 0 /\ pos = 0 /\ cfn # "inProgress"
        /\ enter = "idle" /\ UNCHANGED <<pos, cfn, enter>> /\ pc' \in {"preparing", "failing", "done"}
    BY <1>0, <1>00, <1>3, UploadsSucceed
       DEF StartSaved, ForwardLag, PositionInv, EnterInv, UpdateAwaited, RunFails
  <2>2. Resumable(file)'
    BY <2>1 DEF Resumable
  <2> QED BY <1>1, <2>1, <2>2
<1>4. ASSUME RunThrows PROVE Kept
  <2>1. /\ enter = "idle" /\ cfn # "inProgress" /\ UNCHANGED <<file, pos, cfn, enter>>
        /\ pc' \in {"failing", "done"} /\ Resumable(file)
    BY <1>0, <1>4 DEF RunThrows, RunFails, EnterInv, UpdateAwaited, RestInv
  <2>2. Resumable(file)'
    BY <2>1 DEF Resumable
  <2> QED BY <1>1, <2>1, <2>2
<1>5. ASSUME NEW ok \in BOOLEAN, FailSaved(ok) PROVE Kept
  <2>1. /\ file' = mainSave /\ mainSave.status = "FAILED" /\ pc' = "done" /\ cfn # "inProgress"
        /\ UNCHANGED <<pos, cfn, mem, machine, enter, enterSave>>
    BY <1>0, <1>00, <1>5, UploadsSucceed DEF FailSaved, UploadInv, UpdateAwaited
  <2>2. Resumable(file)'
    BY <2>1 DEF Resumable, IsInProgress
  <2> QED BY <1>0, <1>1, <2>1, <2>2
<1>6. ASSUME DeployMachineStarts PROVE Kept
  <2>1. /\ TriggerDeploy(0) /\ 0 \in 0 .. N /\ 0 < N /\ enter = "idle" /\ enter' = "idle"
        /\ cfn # "inProgress" /\ cfn' = cfn
    BY <1>0, <1>6 DEF DeployMachineStarts, EnterInv, UpdateAwaited
  <2>2. pc' \in {"deploying", "updating"}
    BY <1>0, <2>1, TriggerDeployFacts
  <2> QED BY <2>1, <2>2 DEF UpdateAwaited, RestInv, CopyInv, DescentInv
<1>7. ASSUME TablesReady PROVE Kept
  <2>1. /\ dir = 1 /\ enter = "idle" /\ enter' = "idle" /\ mem.status = "DEPLOYING"
        /\ CurrentStep(mem) = "DEPLOYING" /\ cfn # "inProgress" /\ cfn' = cfn
    BY <1>0, <1>7 DEF TablesReady, DeployInv, EnterInv, CurrentStep, UpdateAwaited
  <2>2. pc' = "advancing"
    BY <2>1, <1>7 DEF TablesReady, MayAdvance, IsInProgress
  <2> QED BY <2>1, <2>2 DEF UpdateAwaited, RestInv, CopyInv, DescentInv
<1>8. ASSUME NEW ok \in BOOLEAN, Advanced(ok) PROVE Kept
  <2> DEFINE i == idx + 1
  <2>1. /\ file' = mainSave /\ TriggerDeploy(i) /\ i \in 0 .. N
        /\ enter = "idle" /\ enter' = "idle" /\ cfn # "inProgress" /\ cfn' = cfn
        /\ i = N => mem.status = "DEPLOYED"
        /\ mainSave.status = mem.status
    BY <1>0, <1>00, <1>8, UploadsSucceed
       DEF Advanced, DeployInv, EnterInv, UpdateAwaited, UploadInv, IndexInv, Steps
  <2> HIDE DEF i
  <2>2. CASE i = N
    <3>1. pc' = "cleaning"
      BY <1>0, <2>1, <2>2, TriggerDeployFacts
    <3>2. Resumable(file)'
      BY <2>1, <2>2 DEF Resumable, IsInProgress
    <3> QED BY <1>1, <2>1, <3>1, <3>2
  <2>3. CASE i < N
    <3>1. pc' \in {"deploying", "updating"}
      BY <1>0, <2>1, <2>3, TriggerDeployFacts
    <3> QED BY <2>1, <3>1 DEF UpdateAwaited, RestInv, CopyInv, DescentInv
  <2>4. i = N \/ i < N
    BY <2>1
  <2> QED BY <2>2, <2>3, <2>4
<1>9. ASSUME NEW ok \in BOOLEAN, StepSaved(ok) PROVE Kept
  <2>1. /\ pc \in {"deploying", "rollingBack"} /\ file' = mainSave /\ cfn # "inProgress"
        /\ pc' = IF pc = "deploying" THEN "updating" ELSE "updatingBack"
        /\ UNCHANGED <<pos, cfn, idx, mem, machine, enter, enterSave>>
        /\ pc = "deploying" => enter = "idle"
        /\ pc = "rollingBack" => mainSave.cur = mem.cur
    BY <1>0, <1>00, <1>9, UploadsSucceed DEF StepSaved, UpdateAwaited, EnterInv, BackwardLag
  <2>2. CopyInv'
    BY <1>0, <2>1 DEF CopyInv
  <2>3. DescentInv'
    BY <1>0, <2>1 DEF DescentInv
  <2> QED BY <2>1, <2>2, <2>3 DEF UpdateAwaited, RestInv
<1>10. ASSUME UpdateStack PROVE Kept
  <2>1. /\ pc \in {"updating", "updatingBack"}
        /\ pc' = IF pc = "updating" THEN "waitingForDeployment" ELSE "waitingForRollback"
        /\ UNCHANGED <<file, pos, idx, mem, machine, enter, enterSave>>
    BY <1>10 DEF UpdateStack
  <2>2. CopyInv'
    BY <1>0, <2>1 DEF CopyInv
  <2>3. DescentInv'
    BY <1>0, <2>1 DEF DescentInv
  <2> QED BY <2>1, <2>2, <2>3 DEF UpdateAwaited, RestInv
<1>11. ASSUME DeploymentDone PROVE Kept
  BY <1>0, <1>11 DEF DeploymentDone, WaitSucceeds, EnterInv, UpdateAwaited, RestInv, CopyInv, DescentInv
<1>12. ASSUME RollbackDone PROVE Kept
  <2>1. /\ pc = "waitingForRollback" /\ pc' = "rollbackTables" /\ cfn = "complete"
        /\ enter = "idle" /\ CurrentStep(mem) = "ROLLING_BACK"
        /\ UNCHANGED <<file, pos, cfn, idx, mem, machine, enter, enterSave>>
    BY <1>0, <1>12 DEF RollbackDone, WaitSucceeds, BackwardLag, RollbackInv
  <2>2. DescentInv'
    BY <1>0, <2>1 DEF DescentInv, CurrentStep
  <2> QED BY <2>1, <2>2 DEF UpdateAwaited, RestInv, CopyInv
<1>13. ASSUME DeployRejected \/ DeploymentFails PROVE Kept
  <2>1. /\ StartRollBackFn /\ pc' = "rollbackTables" /\ dir = 1 /\ IsInProgress(mem)
        /\ mem.cur = idx /\ pos = idx /\ idx \in Steps /\ cfn # "inProgress"
        /\ machine = "deploy" /\ UNCHANGED <<pos, cfn, idx, machine>>
    BY <1>0, <1>00, <1>13 DEF DeployRejected, DeploymentFails, EnterRollback, DeployInv,
       IsInProgress, PositionInv, UpdateAwaited, WaitFails
  <2>2. /\ enter' = "starting" /\ enterSave' = mem' /\ mem'.cur = idx
        /\ mem'.step[idx] = "WAITING_FOR_ROLLBACK"
    BY <1>0, <2>1, StartRollBackFnFacts DEF MayStartRollback, Steps
  <2>3. CopyInv'
    BY <2>1, <2>2 DEF CopyInv, CurrentStep, Steps
  <2>4. DescentInv'
    BY <2>1 DEF DescentInv, Steps
  <2> QED BY <2>1, <2>3, <2>4 DEF UpdateAwaited, RestInv
<1>14. ASSUME PreviousTablesReady PROVE Kept
  <2>1. /\ pc = "previousTables" /\ pc' = "enteringRollback" /\ machine = "rollback"
        /\ Resumable(file) /\ cfn # "inProgress" /\ UNCHANGED <<file, pos, cfn, machine>>
    BY <1>0, <1>14 DEF PreviousTablesReady, PreRollbackInv, RestInv, UpdateAwaited
  <2> QED BY <2>1 DEF UpdateAwaited, RestInv, CopyInv, DescentInv, Resumable
<1>15. ASSUME RollbackEntered PROVE Kept
  <2> DEFINE i == idx - 1
  <2>0. /\ pc = "enteringRollback" /\ TriggerRollback(i) /\ enter = "idle" /\ cfn # "inProgress"
        /\ UNCHANGED <<pos, cfn, machine, enter, file>>
    BY <1>0, <1>15 DEF RollbackEntered, UpdateAwaited
  <2>00. i = mem.cur /\ file.cur = mem.cur /\ pos < N /\ pos \in {file.cur, file.cur + 1}
    <3>1. idx = mem.cur + 1 /\ file.cur = mem.cur /\ IsInProgress(file)
      BY <1>0, <2>0 DEF PreRollbackInv, ResumeLag, FileInv
    <3>2. Resumable(file)
      BY <1>0, <2>0 DEF RestInv
    <3> QED BY <1>00, <3>1, <3>2 DEF Resumable, Steps
  <2>1. /\ TriggerRollback(i) /\ i \in -1 .. N - 1 /\ i >= 0 /\ mem.cur = i /\ file.cur = i
        /\ pos < N /\ pos \in {i, i + 1} /\ cfn # "inProgress"
        /\ enter = "idle" /\ UNCHANGED <<pos, cfn, machine, enter, file>>
    <3> HIDE DEF i
    <3>1. i \in Steps
      BY <1>00, <2>00
    <3> QED BY <2>0, <2>00, <3>1 DEF Steps
  <2> HIDE DEF i
  <2>2. pc' \in {"rollingBack", "updatingBack"} /\ mem'.cur = i /\ idx' = i
    BY <1>0, <2>1, TriggerRollbackFacts
  <2>3. DescentInv'
    BY <2>1, <2>2 DEF DescentInv
  <2> QED BY <2>1, <2>2, <2>3 DEF UpdateAwaited, RestInv, CopyInv
<1>16. ASSUME RollbackTablesReady PROVE Kept
  <2>1. /\ pc = "rollbackTables" /\ pos = idx /\ cfn # "inProgress" /\ dir = -1 /\ pos < N
        /\ machine \in {"deploy", "rollback"} /\ mem.status = "ROLLING_BACK" /\ idx \in Steps
        /\ machine = "rollback" => CurrentStep(mem) = "ROLLING_BACK" /\ mem.cur = idx
                                   /\ file.cur = idx /\ enter = "idle"
        /\ UNCHANGED <<file, pos, cfn, machine, enter, enterSave>>
    BY <1>0, <1>16 DEF RollbackTablesReady, RollbackInv, WaitsForRollback, PositionInv,
       UpdateAwaited, DescentInv, EnterInv
  <2>2. CASE MayAdvance(mem, dir)
    <3>1. mem' = AdvanceBackward(mem) /\ pc' = "rollbackAdvancing" /\ idx' = idx
      BY <2>1, <2>2, <1>16 DEF RollbackTablesReady, Advance
    <3>2. /\ mem.cur = 0 => mem'.cur = 0
          /\ mem.cur > 0 => mem'.cur = mem.cur - 1
      BY <1>00, <3>1, AdvanceBackwardFacts
    <3>3. CurrentStep(mem) = "ROLLING_BACK"
      BY <2>1, <2>2 DEF MayAdvance
    <3>4. CopyInv'
      BY <1>0, <2>1, <3>1, <3>3 DEF CopyInv
    <3>5. DescentInv'
      BY <2>1, <3>1, <3>2 DEF DescentInv, Steps
    <3> QED BY <2>1, <3>1, <3>4, <3>5 DEF UpdateAwaited, RestInv
  <2>3. CASE ~MayAdvance(mem, dir)
    <3> DEFINE i == idx - 1
    <3>1. TriggerRollback(i) /\ i \in -1 .. N - 1 /\ idx = i + 1 /\ i \in Int
      BY <1>16, <2>1, <2>3 DEF RollbackTablesReady, Steps
    <3>2. machine = "deploy"
      BY <2>1, <2>3 DEF MayAdvance, IsInProgress
    <3> HIDE DEF i
    <3>3. CASE i = -1
      <4>1. MachineEnds("rolledBack")
        BY <1>0, <3>1, <3>3, TriggerRollbackFacts
      <4>2. pc' = "failing" /\ mem'.cur = mem.cur
        BY <1>0, <2>1, <3>2, <4>1, EndRests
      <4> QED BY <1>0, <1>1, <2>1, <4>2
    <3>4. CASE i >= 0
      <4>1. pc' \in {"rollingBack", "updatingBack"} /\ mem'.cur = mem.cur /\ idx' = i
        BY <1>0, <3>1, <3>4, TriggerRollbackFacts
      <4>2. CopyInv'
        BY <1>0, <2>1, <4>1 DEF CopyInv
      <4>3. DescentInv'
        BY <2>1, <3>1, <3>2, <4>1 DEF DescentInv
      <4> QED BY <2>1, <4>1, <4>2, <4>3 DEF UpdateAwaited, RestInv
    <3> QED BY <3>1, <3>3, <3>4
  <2> QED BY <2>2, <2>3
<1>17. ASSUME NEW ok \in BOOLEAN, RollbackAdvanced(ok) PROVE Kept
  <2> DEFINE i == idx - 1
  <2>1. /\ pc = "rollbackAdvancing" /\ file' = mainSave /\ TriggerRollback(i)
        /\ i \in -1 .. N - 1 /\ idx = i + 1 /\ i \in Int /\ pos = idx /\ cfn # "inProgress"
        /\ machine \in {"deploy", "rollback"} /\ pos < N
        /\ mainSave.cur = mem.cur /\ mainSave.status = mem.status
        /\ machine = "rollback" =>
             mem.cur = (IF i >= 0 THEN i ELSE 0) /\ enter = "idle"
        /\ mem.status \in {"ROLLED_BACK", "ROLLING_BACK"}
        /\ UNCHANGED <<pos, cfn, machine, enter, enterSave>>
    BY <1>0, <1>00, <1>17, UploadsSucceed
       DEF RollbackAdvanced, IndexInv, Steps, PositionInv, UpdateAwaited, RollbackInv,
           WaitsForRollback, BackwardLag, UploadInv, DescentInv, EnterInv
  <2> HIDE DEF i
  <2>2. CASE i = -1
    <3>1. MachineEnds("rolledBack")
      BY <1>0, <2>1, <2>2, TriggerRollbackFacts
    <3>2. /\ mem'.cur = mem.cur /\ pc' \in {"failing", "done", "planning"}
          /\ machine = "deploy" /\ pc' # "failing" => mem.status = "ROLLED_BACK"
      BY <1>0, <2>1, <3>1, EndRests
    <3>3. pc' # "failing" => Resumable(file)'
      BY <2>1, <2>2, <3>2 DEF Resumable, IsInProgress
    <3> QED BY <1>0, <1>1, <2>1, <3>2, <3>3
  <2>3. CASE i >= 0
    <3>1. pc' \in {"rollingBack", "updatingBack"} /\ mem'.cur = mem.cur /\ idx' = i
      BY <1>0, <2>1, <2>3, TriggerRollbackFacts
    <3>2. CopyInv'
      BY <1>0, <2>1, <3>1 DEF CopyInv
    <3>3. DescentInv'
      BY <2>1, <2>3, <3>1 DEF DescentInv
    <3> QED BY <2>1, <3>1, <3>2, <3>3 DEF UpdateAwaited, RestInv
  <2> QED BY <2>1, <2>2, <2>3
<1>18. ASSUME RollbackFails PROVE Kept
  <2>1. /\ MachineEnds("failed") /\ cfn # "inProgress" /\ machine \in {"deploy", "rollback"}
        /\ pc \in {"waitingForPrevious", "waitingForRollback", "updatingBack"}
        /\ UNCHANGED <<file, pos, cfn, machine, enter, enterSave>>
        /\ machine = "deploy" => mem.status = "ROLLING_BACK"
        /\ machine = "rollback" => Resumable(file)
    BY <1>0, <1>00, <1>18 DEF RollbackFails, WaitFails, UpdateAwaited, PreRollbackInv,
       RollbackInv, WaitsForRollback, RestInv, DescentInv, Resumable
  <2>2. /\ mem'.cur = mem.cur /\ pc' \in {"failing", "done", "planning"}
        /\ machine = "deploy" => pc' = "failing"
    BY <1>0, <2>1, EndRests
  <2>3. pc' # "failing" => Resumable(file)'
    BY <2>1, <2>2 DEF Resumable
  <2> QED BY <1>0, <1>1, <2>1, <2>2, <2>3
<1>19. ASSUME NEW ok \in BOOLEAN, EnterSaved(ok) \/ EnterStepSaved(ok) PROVE Kept
  <2>1. /\ enter # "idle" /\ file' = enterSave
        /\ UNCHANGED <<pc, pos, cfn, idx, machine>>
        /\ pc \in RollbackPCs \cup {"enteringRollback", "failing", "done"}
        /\ \/ pc = "enteringRollback" /\ machine = "rollback"
           \/ pc # "enteringRollback" /\ machine = "deploy"
    BY <1>0, <1>00, <1>19, UploadsSucceed DEF EnterSaved, EnterStepSaved, EnterInv, PreRollbackInv
  <2>2. /\ mem'.cur = mem.cur
        /\ \/ enter' = "idle"
           \/ enter = "starting" /\ enter' = "stepping" /\ enterSave' = mem'
    <3>1. \/ mem' = mem /\ enter' = "idle"
          \/ mem' = StartStep(mem, dir, FALSE) /\ enterSave' = mem'
             /\ enter = "starting" /\ enter' = "stepping"
      BY <1>19, Zenon DEF EnterSaved, EnterStepSaved
    <3>2. StartStep(mem, dir, FALSE).cur = mem.cur
      <4> DEFINE t == StartStep(mem, dir, FALSE)
      <4>1. mem \in State /\ dir \in Directions
        BY <1>0 DEF TypeOK
      <4>2. t.cur = mem.cur
        BY <4>1, StartStepFacts
      <4> QED BY <4>2
    <3> QED BY <3>1, <3>2
  <2>3. CopyInv'
    BY <1>0, <2>1, <2>2 DEF CopyInv
  <2>4. UpdateAwaited'
    BY <1>0, <2>1 DEF UpdateAwaited
  <2>5. CASE pc = "enteringRollback"
    <3>1. pos < N /\ pos \in {enterSave.cur, enterSave.cur + 1}
      BY <1>0, <2>1, <2>5 DEF RestInv, Resumable, FileInv, ResumeLag
    <3>2. Resumable(file)'
      BY <2>1, <3>1 DEF Resumable
    <3> QED BY <2>1, <2>3, <2>4, <2>5, <3>2 DEF RestInv, DescentInv
  <2>6. CASE pc # "enteringRollback"
    <3>1. Resumable(file)'
      BY <1>0, <2>1, <2>6 DEF Resumable, CopyInv
    <3>2. DescentInv'
      BY <1>0, <2>1, <2>6 DEF DescentInv
    <3> QED BY <2>1, <2>3, <2>4, <3>1, <3>2 DEF RestInv
  <2> QED BY <2>5, <2>6
<1>20. ASSUME StackUpdated \/ StackRolledBack \/ StackStuck PROVE Kept
  <2>1. /\ cfn = "inProgress" /\ cfn' # "inProgress" /\ enter = "idle" /\ enter' = "idle"
        /\ pos' \in {pos, target} /\ UNCHANGED <<file, pc, idx, mem, machine>>
    BY <1>20 DEF StackUpdated, StackRolledBack, StackStuck, UpdateEnds
  <2>2. pc \in {"waitingForDeployment", "waitingForRollback"}
    BY <1>0, <2>1 DEF UpdateAwaited
  <2>3. pc = "waitingForRollback" => target = idx /\ idx \in Steps
    BY <1>0, <2>1 DEF PositionInv, IndexInv
  <2>4. DescentInv'
    BY <1>0, <2>1, <2>2, <2>3 DEF DescentInv, Steps
  <2> QED BY <2>1, <2>2, <2>4 DEF UpdateAwaited, RestInv, CopyInv
<1>21. ASSUME UNCHANGED vars PROVE Kept
  BY <1>0, <1>21 DEF vars, UpdateAwaited, RestInv, CopyInv, DescentInv, Resumable, CurrentStep
<1>22. Kept
  <2>1. ~Crash
    BY <1>00 DEF Crash
  <2> HIDE DEF Kept
  <2> QED
    BY <1>2, <1>3, <1>4, <1>5, <1>6, <1>7, <1>8, <1>9, <1>10, <1>11, <1>12, <1>13, <1>14,
       <1>15, <1>16, <1>17, <1>18, <1>19, <1>20, <1>21, <2>1
       DEF Next, Main, Enter, Stack
<1>23. QED
  BY <1>22 DEF WalkInv

\* The walk's invariant, from the specification.
THEOREM WalkCorrect ==
  ASSUME Unharmed
  PROVE  Spec => []WalkInv
<1>1. Init => WalkInv
  BY NAssumption DEF Init, IdleState, IsInProgress, WalkInv, UpdateAwaited, RestInv, CopyInv,
         DescentInv, Resumable, PreRollPCs, RollbackPCs, RunPCs
<1>2. Typed /\ RecordInv /\ StackInv /\ DistanceInv /\ Typed' /\ RecordInv' /\ StackInv'
      /\ DistanceInv' /\ WalkInv /\ [Next]_vars => WalkInv'
  BY WalkStep
<1>3. Spec => [](Typed /\ RecordInv) /\ []StackInv /\ []DistanceInv
  BY RecordCorrect, StackCorrect, DistanceCorrect DEF Unharmed
<1> QED BY <1>1, <1>2, <1>3, PTL DEF Spec

-----------------------------------------------------------------------------
(* Refinement: a step of the deployment is a step of the promise, or none *)

RestPCs == RunPCs \cup PreRollPCs

\* What Phase is where main stands.
LEMMA PhaseFacts ==
  /\ pc \in DeployPCs => Phase = "forward"
  /\ pc \in RollbackPCs => Phase = "backward"
  /\ pc \in RestPCs => Phase = IF pos \in {0, N} THEN "idle" ELSE "broken"
  /\ pc' \in DeployPCs => Phase' = "forward"
  /\ pc' \in RollbackPCs => Phase' = "backward"
  /\ pc' \in RestPCs => Phase' = IF pos' \in {0, N} THEN "idle" ELSE "broken"
BY DEF Phase, DeployPCs, RollbackPCs, RestPCs, RunPCs, PreRollPCs

\* A step that leaves the stack where it is takes main from one part of the
\* machines to another only at the position the promise asks for.
LEMMA MainKeepsPath ==
  ASSUME TypeOK, pos' = pos,
         \/ pc \in DeployPCs /\ pc' \in DeployPCs
         \/ pc \in DeployPCs /\ pc' \in RollbackPCs /\ pos < N
         \/ pc \in DeployPCs /\ pc' \in RestPCs /\ pos = N
         \/ pc \in RollbackPCs /\ pc' \in RollbackPCs
         \/ pc \in RollbackPCs /\ pc' \in RestPCs /\ pos < N
         \/ pc \in RestPCs /\ pc' \in RestPCs \cup RollbackPCs
         \/ pc \in RestPCs /\ pc' \in DeployPCs /\ pos = 0
  PROVE  [Promise!Next]_(Promise!walk)
<1>1. pos \in 0 .. N
  BY DEF TypeOK
<1> USE NAssumption, PhaseFacts DEF Promise!Next, Promise!walk
<1>2. CASE \/ pc \in DeployPCs /\ pc' \in DeployPCs
           \/ pc \in RollbackPCs /\ pc' \in RollbackPCs
           \/ pc \in RestPCs /\ pc' \in RestPCs
  BY <1>2
<1>3. CASE pc \in DeployPCs /\ pc' \in RollbackPCs /\ pos < N
  <2>1. Promise!TurnBack
    BY <1>3 DEF Promise!TurnBack
  <2> QED BY <2>1 DEF Promise!Walk
<1>4. CASE pc \in DeployPCs /\ pc' \in RestPCs /\ pos = N
  <2>1. Promise!Finish
    BY <1>4 DEF Promise!Finish
  <2> QED BY <2>1 DEF Promise!Walk
<1>5. CASE pc \in RollbackPCs /\ pc' \in RestPCs /\ pos < N
  <2>1. Promise!Finish \/ Promise!BreakOff
    BY <1>1, <1>5 DEF Promise!Finish, Promise!BreakOff
  <2> QED BY <2>1 DEF Promise!Walk
<1>6. CASE pc \in RestPCs /\ pc' \in RollbackPCs
  <2>1. Promise!Resume
    BY <1>6 DEF Promise!Resume
  <2> QED BY <2>1
<1>7. CASE pc \in RestPCs /\ pc' \in DeployPCs /\ pos = 0
  <2>1. Promise!Begin
    BY <1>7 DEF Promise!Begin
  <2> QED BY <2>1
<1> QED BY <1>2, <1>3, <1>4, <1>5, <1>6, <1>7

\* Every step of the deployment is a step of the promise, or none.
LEMMA StepOnPath ==
  ASSUME Unharmed, Typed, RecordInv, StackInv, WalkInv, [Next]_vars
  PROVE  [Promise!Next]_(Promise!walk)
<1> DEFINE Kept == [Promise!Next]_(Promise!walk)
<1>0. /\ TypeOK /\ IndexInv /\ DeployInv /\ PreRollbackInv /\ RollbackInv
      /\ PositionInv /\ UpdateAwaited /\ DescentInv
  BY DEF Typed, RecordInv, StackInv, WalkInv
<1>00. /\ pos \in 0 .. N /\ target \in 0 .. N /\ idx \in Int
       /\ "crash" \notin Faults /\ "wait" \notin Faults
  BY <1>0, NAssumption DEF TypeOK, Unharmed
<1> USE NAssumption, IterativeAssumption
    DEF DeployPCs, PreRollPCs, RollbackPCs, RunPCs, RestPCs, cloudVars, sessionVars, enterVars
<1>1. ASSUME \/ \E c \in {"push", "force", "rollback"} : StartCommand(c)
             \/ RollbackRefused \/ RollbackMachineStarts \/ Plan \/ PushRefused
             \/ PlanThrows \/ StartsDeployment \/ RunThrows \/ StateFileDeleted \/ Exit
             \/ PreviousDone \/ PreviousTablesReady
      PROVE  Kept
  <2>1. pos' = pos /\ pc \in RestPCs /\ pc' \in RestPCs
    BY <1>1 DEF StartCommand, RollbackRefused, RollbackMachineStarts, Plan, PushRefused,
       PlanThrows, StartsDeployment, RunThrows, RunFails, StateFileDeleted, Exit,
       PreviousDone, PreviousTablesReady
  <2> QED BY <1>0, <2>1, MainKeepsPath
<1>2. ASSUME NEW ok \in BOOLEAN, StartSaved(ok) \/ FailSaved(ok) PROVE Kept
  <2>1. pos' = pos /\ pc \in RestPCs /\ pc' \in RestPCs
    BY <1>2 DEF StartSaved, FailSaved, RunFails
  <2> QED BY <1>0, <2>1, MainKeepsPath
<1>3. ASSUME DeployMachineStarts PROVE Kept
  <2>1. TriggerDeploy(0) /\ 0 \in 0 .. N /\ 0 < N /\ pc = "preparing" /\ pos = 0 /\ pos' = pos
    BY <1>0, <1>3 DEF DeployMachineStarts, PositionInv
  <2>2. pc' \in {"deploying", "updating"}
    BY <1>0, <2>1, TriggerDeployFacts
  <2> QED BY <1>0, <2>1, <2>2, MainKeepsPath
<1>4. ASSUME \/ TablesReady
             \/ \E ok \in BOOLEAN : Advanced(ok)
      PROVE  Kept
  <2>1. /\ pc \in {"waitForTables", "advancing"} /\ pos = idx + 1 /\ pos' = pos
        /\ idx + 1 \in 0 .. N /\ (TriggerDeploy(idx + 1) \/ pc' = "advancing")
    BY <1>0, <1>4 DEF TablesReady, Advanced, PositionInv, IndexInv, Steps
  <2>2. CASE pc' = "advancing"
    BY <1>0, <2>1, <2>2, MainKeepsPath
  <2>3. CASE TriggerDeploy(idx + 1)
    <3> DEFINE i == idx + 1
    <3>1. i \in 0 .. N /\ TriggerDeploy(i) /\ pos = i
      BY <2>1, <2>3
    <3> HIDE DEF i
    <3>2. (i = N /\ pc' = "cleaning") \/ pc' \in {"deploying", "updating"}
      <4>1. i = N \/ i < N
        BY <3>1
      <4> QED BY <1>0, <3>1, <4>1, TriggerDeployFacts
    <3> QED BY <1>0, <2>1, <3>1, <3>2, MainKeepsPath
  <2> QED BY <2>1, <2>2, <2>3
<1>5. ASSUME \/ UpdateStack \/ DeploymentDone \/ RollbackDone
             \/ \E ok \in BOOLEAN : StepSaved(ok)
      PROVE  Kept
  <2>1. /\ pos' = pos
        /\ \/ pc \in DeployPCs /\ pc' \in DeployPCs
           \/ pc \in RollbackPCs /\ pc' \in RollbackPCs
    BY <1>5 DEF UpdateStack, DeploymentDone, RollbackDone, StepSaved
  <2> QED BY <1>0, <2>1, MainKeepsPath
<1>6. ASSUME DeployRejected \/ DeploymentFails PROVE Kept
  <2>1. pos' = pos /\ pc \in DeployPCs /\ pc' \in RollbackPCs /\ pos = idx /\ idx \in Steps
    BY <1>0, <1>00, <1>6 DEF DeployRejected, DeploymentFails, EnterRollback, PositionInv,
       IndexInv, WaitFails
  <2> QED BY <1>0, <2>1, MainKeepsPath DEF Steps
<1>7. ASSUME RollbackEntered \/ RollbackTablesReady
             \/ \E ok \in BOOLEAN : RollbackAdvanced(ok)
      PROVE  Kept
  <2>1. /\ pc \in {"enteringRollback", "rollbackTables", "rollbackAdvancing"} /\ pos' = pos
        /\ idx - 1 \in -1 .. N - 1 /\ (TriggerRollback(idx - 1) \/ pc' = "rollbackAdvancing")
        /\ pc' = "rollbackAdvancing" => pc = "rollbackTables"
        /\ pc # "enteringRollback" => pos < N
    <3>1. idx - 1 \in -1 .. N - 1
      BY <1>0, <1>7 DEF RollbackEntered, RollbackTablesReady, RollbackAdvanced, IndexInv, Steps
    <3>2. pc' = "rollbackAdvancing" => pc = "rollbackTables"
      <4>1. CASE TriggerRollback(idx - 1)
        BY <1>0, <3>1, <4>1, TriggerRollbackFacts
      <4> QED BY <1>7, <4>1 DEF RollbackEntered, RollbackTablesReady, RollbackAdvanced
    <3> QED
      BY <1>0, <1>7, <3>1, <3>2 DEF RollbackEntered, RollbackTablesReady, RollbackAdvanced,
         DescentInv
  <2>2. CASE pc' = "rollbackAdvancing"
    BY <1>0, <2>1, <2>2, MainKeepsPath
  <2>3. CASE TriggerRollback(idx - 1)
    <3>1. pc' \in {"done", "failing", "planning", "rollingBack", "updatingBack"}
      BY <1>0, <2>1, <2>3, TriggerRollbackFacts
    <3> QED BY <1>0, <2>1, <3>1, MainKeepsPath
  <2> QED BY <2>1, <2>2, <2>3
<1>8. ASSUME RollbackFails PROVE Kept
  <2>1. /\ pos' = pos /\ pc \in {"waitingForPrevious", "waitingForRollback", "updatingBack"}
        /\ MachineEnds("failed") /\ machine \in {"deploy", "rollback"}
        /\ pc # "waitingForPrevious" => pos < N
    BY <1>0, <1>8 DEF RollbackFails, PreRollbackInv, RollbackInv, DescentInv
  <2>2. pc' \in {"failing", "done", "planning"}
    BY <1>0, <2>1, EndRests
  <2> QED BY <1>0, <2>1, <2>2, MainKeepsPath
<1>9. ASSUME NEW ok \in BOOLEAN, EnterSaved(ok) \/ EnterStepSaved(ok) PROVE Kept
  <2>1. pos' = pos /\ pc' = pc /\ pc \in DeployPCs \cup RollbackPCs \cup RestPCs
    BY <1>0, <1>9 DEF EnterSaved, EnterStepSaved, TypeOK
  <2> QED BY <1>0, <2>1, MainKeepsPath
<1>10. ASSUME StackUpdated \/ StackRolledBack \/ StackStuck PROVE Kept
  <2>1. pc' = pc /\ cfn = "inProgress" /\ pos' \in {pos, target}
    BY <1>10 DEF StackUpdated, StackRolledBack, StackStuck, UpdateEnds
  <2>2. pc \in {"waitingForDeployment", "waitingForRollback"}
    BY <1>0, <2>1 DEF UpdateAwaited
  <2>3. CASE pos' = pos
    BY <1>0, <2>1, <2>2, <2>3, MainKeepsPath
  <2>4. CASE pos' = target /\ pc = "waitingForDeployment"
    <3>1. pos = idx /\ target = pos + 1 /\ pos < N
      BY <1>0, <1>00, <2>1, <2>4 DEF PositionInv
    <3>2. Promise!Forward
      BY <2>1, <2>4, <3>1, PhaseFacts DEF Promise!Forward
    <3> QED BY <3>2 DEF Promise!Next, Promise!Walk
  <2>5. CASE pos' = target /\ pc = "waitingForRollback"
    <3>1. target = idx /\ pos \in {idx, idx + 1}
      BY <1>0, <2>1, <2>5 DEF PositionInv, DescentInv
    <3>2. CASE pos = idx
      BY <1>0, <2>1, <2>5, <3>1, <3>2, MainKeepsPath
    <3>3. CASE pos = idx + 1
      <4>1. pos > 0 /\ pos' = pos - 1
        BY <1>00, <2>5, <3>1, <3>3
      <4>2. Promise!Backward
        BY <2>1, <2>5, <4>1, PhaseFacts DEF Promise!Backward
      <4> QED BY <4>2 DEF Promise!Next, Promise!Walk
    <3> QED BY <3>1, <3>2, <3>3
  <2> QED BY <2>1, <2>2, <2>3, <2>4, <2>5
<1>11. ASSUME UNCHANGED vars PROVE Kept
  BY <1>11 DEF vars, Promise!walk, Phase
<1>12. Kept
  <2>1. ~Crash
    BY <1>00 DEF Crash
  <2> HIDE DEF Kept
  <2> QED
    BY <1>1, <1>2, <1>3, <1>4, <1>5, <1>6, <1>7, <1>8, <1>9, <1>10, <1>11, <2>1
       DEF Next, Main, Enter, Stack
<1> QED BY <1>12

\* The stack is led from one template to the next and back as DeploymentPromise
\* says (the deploy and the rollback machine of state-machine.ts, driven by run()),
\* as long as no process is killed, no upload is lost and waiters see updates to
\* their end.  That no walk stops on the way is left to TLC.
THEOREM StaysOnPath ==
  ASSUME Unharmed
  PROVE  Spec => Promise!OnPath
<1>1. Init => Promise!Init
  BY NAssumption DEF Init, Promise!Init, Phase, DeployPCs, RollbackPCs, RunPCs, PreRollPCs
<1>2. Typed /\ RecordInv /\ StackInv /\ WalkInv /\ [Next]_vars => [Promise!Next]_(Promise!walk)
  BY StepOnPath
<1>3. Spec => [](Typed /\ RecordInv) /\ []StackInv /\ []WalkInv
  BY RecordCorrect, StackCorrect, WalkCorrect DEF Unharmed
<1> QED BY <1>1, <1>2, <1>3, PTL DEF Spec, Promise!OnPath
=============================================================================
