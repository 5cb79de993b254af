--------------------------- MODULE DeploymentState ---------------------------
(***************************************************************************)
(* The record that DeploymentStateManager keeps in memory and uploads as   *)
(* deployment-state.json, and the transitions its methods make on it       *)
(* (packages/amplify-provider-awscloudformation/src/iterative-deployment/  *)
(* deployment-state-manager.ts).  Every method changes the record in one   *)
(* synchronous block and then awaits an upload of it: the operators below  *)
(* are the synchronous blocks, the uploads belong to the modules that call *)
(* them.  A method that throws changes nothing: its guard is the operator  *)
(* whose name starts with May.                                             *)
(*                                                                         *)
(* finishedAt is not kept: it is set exactly when the status becomes       *)
(* DEPLOYED, ROLLED_BACK or FAILED and cleared when it becomes DEPLOYING.  *)
(* Of previousMetaKey only its presence is kept.                           *)
(***************************************************************************)
EXTENDS Integers

CONSTANT N      \* number of steps of the deployment

ASSUME NAssumption == N \in Nat /\ N >= 1

Steps == 0 .. N - 1

DeploymentStatus ==
  {"IDLE", "DEPLOYING", "ROLLING_BACK", "DEPLOYED", "ROLLED_BACK", "FAILED"}

DeploymentStepStatus ==
  {"WAITING_FOR_DEPLOYMENT", "DEPLOYING", "DEPLOYED",
   "WAITING_FOR_ROLLBACK", "ROLLING_BACK", "ROLLED_BACK"}

Directions == {1, -1}

\* key[i]: step i has a previousMetaKey, the location of the deployment
\* record that a later process needs to roll the step back.
State == [status : DeploymentStatus,
          cur    : Steps,
          step   : [Steps -> DeploymentStepStatus],
          key    : [Steps -> BOOLEAN]]

\* loadOrCreateState when the bucket has no file; it stands for the absent
\* file as well (its steps, an empty array in the code, are never read).
IdleState ==
  [status |-> "IDLE", cur |-> 0,
   step |-> [i \in Steps |-> "WAITING_FOR_DEPLOYMENT"],
   key  |-> [i \in Steps |-> FALSE]]

IsInProgress(s) == s.status \in {"DEPLOYING", "ROLLING_BACK"}

CurrentStep(s) == s.step[s.cur]

StartDeployment == [IdleState EXCEPT !.status = "DEPLOYING"]

\* failDeployment leaves the outcomes ROLLED_BACK and DEPLOYED alone.
MayFail(s) == s.status \notin {"ROLLED_BACK", "DEPLOYED"}

FailDeployment(s) == [s EXCEPT !.status = "FAILED"]

MayStartStep(s, dir) ==
  CurrentStep(s) =
    (IF dir = 1 THEN "WAITING_FOR_DEPLOYMENT" ELSE "WAITING_FOR_ROLLBACK")

\* startCurrentStep({previousMetaKey}): the key is stored only on the way
\* forward, and only when the operation has one.
StartStep(s, dir, hasKey) ==
  [s EXCEPT !.step = [@ EXCEPT ![s.cur] = IF dir = 1 THEN "DEPLOYING" ELSE "ROLLING_BACK"],
            !.key  = [@ EXCEPT ![s.cur] = s.key[s.cur] \/ (dir = 1 /\ hasKey)]]

MayAdvance(s, dir) ==
  /\ IsInProgress(s)
  /\ CurrentStep(s) = (IF dir = 1 THEN "DEPLOYING" ELSE "ROLLING_BACK")

\* Mutant of AdvanceForward: the last step is not the last.
AdvanceForwardPastTheEnd(s) ==
  [s EXCEPT !.step = [@ EXCEPT ![s.cur] = "DEPLOYED"], !.cur = @ + 1]

AdvanceForward(s) ==
  LET done == [s EXCEPT !.step = [@ EXCEPT ![s.cur] = "DEPLOYED"]]
  IN  IF s.cur = N - 1 THEN [done EXCEPT !.cur = 0, !.status = "DEPLOYED"]
                       ELSE [done EXCEPT !.cur = @ + 1]

\* Mutant of AdvanceBackward: the rollback is over one step early.
AdvanceBackwardTooFar(s) ==
  LET undone == [s EXCEPT !.step = [@ EXCEPT ![s.cur] = "ROLLED_BACK"],
                          !.key  = [@ EXCEPT ![s.cur] = FALSE]]
  IN  IF s.cur <= 1 THEN [undone EXCEPT !.status = "ROLLED_BACK"]
                    ELSE [undone EXCEPT !.cur = @ - 1]

AdvanceBackward(s) ==
  LET undone == [s EXCEPT !.step = [@ EXCEPT ![s.cur] = "ROLLED_BACK"],
                          !.key  = [@ EXCEPT ![s.cur] = FALSE]]
  IN  IF s.cur = 0 THEN [undone EXCEPT !.status = "ROLLED_BACK"]
                   ELSE [undone EXCEPT !.cur = @ - 1]

Advance(s, dir) == IF dir = 1 THEN AdvanceForward(s) ELSE AdvanceBackward(s)

MayStartRollback(s, dir) == IsInProgress(s) /\ dir = 1

\* Mutants of StartRollback: the current step, or every step but the current
\* one, is left as it is.
StartRollbackBelowCurrent(s) ==
  [s EXCEPT !.status = "ROLLING_BACK",
            !.step = [i \in Steps |-> IF i < s.cur THEN "WAITING_FOR_ROLLBACK"
                                                   ELSE s.step[i]]]

StartRollbackOfCurrent(s) ==
  [s EXCEPT !.status = "ROLLING_BACK",
            !.step = [@ EXCEPT ![s.cur] = "WAITING_FOR_ROLLBACK"]]

StartRollback(s) ==
  [s EXCEPT !.status = "ROLLING_BACK",
            !.step = [i \in Steps |-> IF i <= s.cur THEN "WAITING_FOR_ROLLBACK"
                                                    ELSE s.step[i]]]
=============================================================================
