------------------------ MODULE DeploymentStateProofs ------------------------
(***************************************************************************)
(* What the methods of DeploymentStateManager do to its record, for every  *)
(* number of steps.                                                        *)
(***************************************************************************)
EXTENDS DeploymentState, TLAPS

\* The record before the first deployment, and the record startDeployment
\* writes, are well formed.
LEMMA InitialStates ==
  /\ IdleState \in State /\ IdleState.status = "IDLE"
  /\ StartDeployment \in State /\ StartDeployment.status = "DEPLOYING"
  /\ StartDeployment.cur = 0
  /\ \A j \in Steps : StartDeployment.step[j] = "WAITING_FOR_DEPLOYMENT"
<1>1. 0 \in Steps
  BY NAssumption DEF Steps
<1>2. /\ IdleState \in State /\ IdleState.status = "IDLE" /\ IdleState.cur = 0
      /\ \A j \in Steps : IdleState.step[j] = "WAITING_FOR_DEPLOYMENT"
  BY <1>1 DEF IdleState, State, DeploymentStatus, DeploymentStepStatus
<1>3. QED
  BY <1>2 DEF StartDeployment, State, DeploymentStatus

\* failDeployment changes the status and nothing else.
LEMMA FailDeploymentFacts ==
  ASSUME NEW s \in State
  PROVE  /\ FailDeployment(s) \in State
         /\ FailDeployment(s).status = "FAILED"
BY DEF FailDeployment, State, DeploymentStatus

\* startCurrentStep changes the status of the current step and nothing else
\* but its key.
LEMMA StartStepFacts ==
  ASSUME NEW s \in State, NEW dir \in Directions, NEW hasKey \in BOOLEAN
  PROVE  LET t == StartStep(s, dir, hasKey)
         IN  /\ t \in State /\ t.status = s.status /\ t.cur = s.cur
             /\ t.step[s.cur] = IF dir = 1 THEN "DEPLOYING" ELSE "ROLLING_BACK"
             /\ \A j \in Steps : j # s.cur => t.step[j] = s.step[j]
<1>1. CASE dir = 1
  BY <1>1 DEF StartStep, State, DeploymentStepStatus
<1>2. CASE dir = -1
  BY <1>2 DEF StartStep, State, DeploymentStepStatus
<1>3. QED
  BY <1>1, <1>2 DEF Directions

\* advanceStep going forward: the last step ends the deployment, any other
\* hands over to the next one.
LEMMA AdvanceForwardFacts ==
  ASSUME NEW s \in State
  PROVE  LET t == AdvanceForward(s)
         IN  /\ t \in State
             /\ \A j \in Steps : j # s.cur => t.step[j] = s.step[j]
             /\ s.cur = N - 1 => t.status = "DEPLOYED" /\ t.cur = 0
             /\ s.cur < N - 1 => t.status = s.status /\ t.cur = s.cur + 1
<1> DEFINE done == [s EXCEPT !.step = [@ EXCEPT ![s.cur] = "DEPLOYED"]]
<1>1. /\ done \in State /\ done.cur = s.cur /\ done.status = s.status
      /\ \A j \in Steps : j # s.cur => done.step[j] = s.step[j]
  BY DEF State, DeploymentStepStatus
<1>2. s.cur \in Steps /\ AdvanceForward(s) =
        IF s.cur = N - 1 THEN [done EXCEPT !.cur = 0, !.status = "DEPLOYED"]
                         ELSE [done EXCEPT !.cur = @ + 1]
  BY DEF AdvanceForward, State
<1> HIDE DEF done
<1>3. /\ 0 \in Steps
      /\ s.cur < N - 1 <=> s.cur # N - 1
      /\ s.cur < N - 1 => s.cur + 1 \in Steps
  BY <1>2, NAssumption DEF Steps
<1>4. CASE s.cur = N - 1
  BY <1>1, <1>2, <1>3, <1>4 DEF State, DeploymentStatus
<1>5. CASE s.cur # N - 1
  BY <1>1, <1>2, <1>3, <1>5 DEF State
<1>6. QED
  BY <1>4, <1>5

\* advanceStep going back: step 0 ends the rollback, any other hands over to
\* the one before it.
LEMMA AdvanceBackwardFacts ==
  ASSUME NEW s \in State
  PROVE  LET t == AdvanceBackward(s)
         IN  /\ t \in State
             /\ t.step[s.cur] = "ROLLED_BACK"
             /\ \A j \in Steps : j # s.cur => t.step[j] = s.step[j]
             /\ s.cur = 0 => t.status = "ROLLED_BACK" /\ t.cur = 0
             /\ s.cur > 0 => t.status = s.status /\ t.cur = s.cur - 1
<1> DEFINE undone == [s EXCEPT !.step = [@ EXCEPT ![s.cur] = "ROLLED_BACK"],
                                !.key  = [@ EXCEPT ![s.cur] = FALSE]]
<1>1. /\ undone \in State /\ undone.cur = s.cur /\ undone.status = s.status
      /\ undone.step[s.cur] = "ROLLED_BACK"
      /\ \A j \in Steps : j # s.cur => undone.step[j] = s.step[j]
  BY DEF State, DeploymentStepStatus
<1>2. s.cur \in Steps /\ AdvanceBackward(s) =
        IF s.cur = 0 THEN [undone EXCEPT !.status = "ROLLED_BACK"]
                     ELSE [undone EXCEPT !.cur = @ - 1]
  BY DEF AdvanceBackward, State
<1> HIDE DEF undone
<1>3. /\ s.cur > 0 <=> s.cur # 0
      /\ s.cur > 0 => s.cur - 1 \in Steps
  BY <1>2, NAssumption DEF Steps
<1>4. CASE s.cur = 0
  BY <1>1, <1>2, <1>3, <1>4 DEF State, DeploymentStatus
<1>5. CASE s.cur # 0
  BY <1>1, <1>2, <1>3, <1>5 DEF State
<1>6. QED
  BY <1>4, <1>5

\* startRollback turns every step up to the current one.
LEMMA StartRollbackFacts ==
  ASSUME NEW s \in State
  PROVE  LET t == StartRollback(s)
         IN  /\ t \in State /\ t.status = "ROLLING_BACK" /\ t.cur = s.cur
             /\ \A j \in Steps : j <= s.cur => t.step[j] = "WAITING_FOR_ROLLBACK"
BY DEF StartRollback, State, DeploymentStatus, DeploymentStepStatus, Steps
=============================================================================
