------------------------- MODULE IterativeInvariants -------------------------
(***************************************************************************)
(* Inductive invariants of IterativeDeployment.  RecordInv relates the     *)
(* record in memory to the machine, StackInv the stack and the state file  *)
(* to both; each part speaks of one region of the machines.                *)
(***************************************************************************)
EXTENDS IterativeDeployment

\* Where currentIndex may point: at a stack while one is deployed or rolled
\* back, past the interrupted one in preRollback.
IndexInv ==
  /\ pc \in DeployPCs \cup RollbackPCs => idx \in Steps
  /\ pc \in PreRollPCs => idx \in 1 .. N

Typed == TypeOK /\ IndexInv

\* Steps after i have not been touched; steps before the current one wait
\* for their rollback, and the current one waits for it or is being undone.
Untouched(s, i) == \A j \in Steps : j > i => s.step[j] = "WAITING_FOR_DEPLOYMENT"

WaitsForRollback(s) ==
  /\ s.status = "ROLLING_BACK"
  /\ \A j \in Steps : j < s.cur => s.step[j] = "WAITING_FOR_ROLLBACK"
  /\ CurrentStep(s) \in {"WAITING_FOR_ROLLBACK", "ROLLING_BACK"}

\* startRollBackFn outlives no machine but the deploy machine.
EnterInv ==
  enter # "idle" =>
    \/ pc = "enteringRollback"
    \/ machine = "deploy" /\ pc \in RollbackPCs \cup {"failing", "done"}

StartInv ==
  /\ pc = "started" => dir = 1
  /\ pc \in {"starting", "preparing"} =>
       dir = 1 /\ mem.status = "DEPLOYING" /\ mem.cur = 0 /\ Untouched(mem, -1)

DeployInv ==
  pc \in DeployPCs =>
    /\ machine = "deploy" /\ dir = 1 /\ idx \in Steps /\ Untouched(mem, idx)
    /\ IF pc # "advancing"
       THEN mem.status = "DEPLOYING" /\ mem.cur = idx /\ mem.step[idx] = "DEPLOYING"
       ELSE \/ idx = N - 1 /\ mem.status = "DEPLOYED"
            \/ idx < N - 1 /\ mem.status = "DEPLOYING" /\ mem.cur = idx + 1

PreRollbackInv ==
  pc \in PreRollPCs =>
    /\ machine = "rollback" /\ idx = mem.cur + 1
    /\ IF pc = "enteringRollback" THEN dir = -1 /\ WaitsForRollback(mem)
                                  ELSE dir = 1 /\ IsInProgress(mem)

\* The record lags at most one behind, and when it does the step it stands on
\* has been started, so that the next advanceStep succeeds.
RollbackInv ==
  pc \in RollbackPCs =>
    /\ machine \in {"deploy", "rollback"} /\ dir = -1 /\ idx \in Steps
    /\ IF pc # "rollbackAdvancing"
       THEN /\ WaitsForRollback(mem) /\ mem.cur \in {idx, idx + 1}
            /\ pc # "rollbackTables" \/ mem.cur = idx + 1 =>
                 CurrentStep(mem) = "ROLLING_BACK"
       ELSE \/ idx = 0 /\ mem.cur = 0
               /\ mem.status = "ROLLED_BACK" /\ mem.step[0] = "ROLLED_BACK"
            \/ WaitsForRollback(mem) /\ mem.cur \in {idx - 1, idx}

RecordInv ==
  EnterInv /\ StartInv /\ DeployInv /\ PreRollbackInv /\ RollbackInv

-----------------------------------------------------------------------------

Matches(s) == /\ s.status = "DEPLOYED"    => pos = N
              /\ s.status = "ROLLED_BACK" => pos = 0

SavePCs == {"starting", "deploying", "advancing", "rollingBack",
            "rollbackAdvancing", "failing"}

\* Where main stands while an update is in progress: waiting for it, or not
\* allowed to start anything.
RestingPCs == {"off", "started", "planning", "done"}
WaitingPCs == {"waitingForDeployment", "waitingForRollback", "waitingForPrevious"}

BusyInv ==
  cfn = "inProgress" =>
    /\ pc \in WaitingPCs \cup RestingPCs /\ IsInProgress(file)
    /\ pc \in {"planning", "done"} => enter = "idle"
    /\ pc = "planning" => IsInProgress(mem)

\* While a machine runs, the file says that a deployment is in progress.
FileInv ==
  /\ Matches(file)
  /\ pc \in {"preparing"} \cup DeployPCs \cup PreRollPCs \cup RollbackPCs =>
       IsInProgress(file)
  /\ pc = "started" => mem = file

\* Uploads that are under way.
UploadInv ==
  /\ pc \in {"starting", "deploying", "rollingBack"} => IsInProgress(mainSave)
  /\ pc \in {"advancing", "rollbackAdvancing"} => mainSave.status = mem.status
  /\ pc = "failing" => mainSave.status = "FAILED"
  /\ enter # "idle" =>
       /\ Matches(mem) /\ Matches(enterSave)
       /\ pc \in RollbackPCs \cup {"enteringRollback"} => IsInProgress(enterSave)

PositionInv ==
  /\ pc = "started" => IsInProgress(file) \/ pos = 0
  /\ pc = "planning" => IsInProgress(mem) \/ pos = 0
  /\ pc \in {"starting", "preparing"} => pos = 0
  /\ pc \in {"deploying", "updating"} => pos = idx
  /\ pc \in {"waitForTables", "advancing"} => pos = idx + 1
  /\ pc \in {"rollbackTables", "rollbackAdvancing"} => pos = idx
  /\ pc = "waitingForDeployment" =>
       IF cfn = "complete" THEN pos = idx + 1
       ELSE pos = idx /\ (cfn = "inProgress" => target = idx + 1)
  /\ pc = "waitingForRollback" =>
       /\ cfn = "complete" => pos = idx
       /\ cfn = "inProgress" => target = idx

StackInv == BusyInv /\ FileInv /\ UploadInv /\ PositionInv

-----------------------------------------------------------------------------

\* What RecordIsAProfile says of the state file, of any record.
Profile(s) ==
  IsInProgress(s) =>
    \A i \in Steps :
      /\ i < s.cur =>
           /\ s.key[i]
           /\ s.step[i] = IF s.status = "DEPLOYING" THEN "DEPLOYED"
                                                    ELSE "WAITING_FOR_ROLLBACK"
      /\ i > s.cur =>
           s.step[i] \in {"WAITING_FOR_DEPLOYMENT"}
             \cup (IF s.status = "DEPLOYING" THEN {} ELSE {"ROLLED_BACK"})

\* A step that is not begun, or is undone, has no key.
KeysOfBegun(s) ==
  \A i \in Steps :
    s.step[i] \in {"WAITING_FOR_DEPLOYMENT", "ROLLED_BACK"} => ~s.key[i]

WellKept(s) == Profile(s) /\ KeysOfBegun(s)

\* The record in memory, the ones being uploaded and the file all keep the
\* shape, and the step under way has the key that its successor will need.
ProfileInv ==
  /\ WellKept(file) /\ WellKept(mem) /\ WellKept(mainSave) /\ WellKept(enterSave)
  /\ pc \in DeployPCs \ {"advancing"} /\ idx < N - 1 => mem.key[idx]

-----------------------------------------------------------------------------

\* How far a recorded position x may be from the stack: one template, and one
\* more for each upload of the state file that was lost.
Near(x)   == pos - x <= 1 + saveFails /\ x - pos <= 1 + saveFails
NearNext(x) ==
  cfn = "inProgress" => target - x <= 1 + saveFails /\ x - target <= 1 + saveFails

\* The record that another process may read, now or once startRollBackFn's
\* uploads have ended, is near.
FileNear == IsInProgress(file) => Near(file.cur) /\ NearNext(file.cur)

EnterNear ==
  enter # "idle" =>
    /\ Near(enterSave.cur) /\ NearNext(enterSave.cur)
    /\ Near(mem.cur) /\ NearNext(mem.cur)

\* On the way forward the file stands on the machine's stack or, after lost
\* uploads, below it.
ForwardLag ==
  /\ pc = "starting" => mainSave.cur = 0
  /\ pc = "preparing" => file.cur = 0
  /\ pc \in DeployPCs => file.cur <= idx /\ idx <= file.cur + saveFails
  /\ pc = "deploying" => mainSave.cur = idx
  /\ pc = "advancing" /\ idx < N - 1 => mainSave.cur = idx + 1

\* A rollback machine starts from the record it read.
ResumeLag ==
  pc \in PreRollPCs =>
    /\ file.cur = mem.cur
    /\ enter # "idle" => enterSave.cur = mem.cur

\* On the way back the file may still be on the step above, or further up
\* after lost uploads; startRollBackFn's copy lags behind by one at most, and
\* only if its upload outlasts the one of advanceStep.
BackwardLag ==
  pc \in RollbackPCs =>
    /\ file.cur <= idx + 1 + saveFails /\ idx <= file.cur + saveFails + 1
    /\ pc # "rollbackAdvancing" => idx <= file.cur + saveFails
    /\ pc = "rollbackTables" /\ CurrentStep(mem) = "WAITING_FOR_ROLLBACK" =>
         file.cur <= idx + saveFails
    /\ pc \in {"rollingBack", "rollbackAdvancing"} => mainSave.cur = mem.cur
    /\ pc \in {"rollingBack", "updatingBack"} => Near(idx) /\ Near(mem.cur)
    /\ pc = "waitingForRollback" /\ enter # "idle" => cfn = "inProgress"
    /\ enter # "idle" =>
         /\ idx <= enterSave.cur + 1 /\ enterSave.cur <= idx + 1
         /\ pc # "rollbackAdvancing" => idx <= enterSave.cur
         /\ pc \in {"rollbackTables", "rollbackAdvancing"} => enterSave.cur <= idx

DistanceInv ==
  FileNear /\ EnterNear /\ ForwardLag /\ ResumeLag /\ BackwardLag

-----------------------------------------------------------------------------

\* No process is killed, no upload is lost and waiters see updates to their end.
Unharmed ==
  "crash" \notin Faults /\ "wait" \notin Faults /\ MaxSaveFailures = 0

\* A file in progress stands on the stack that is to be rolled back next or on
\* the one below, so that the rollback machine goes down from where the stack is.
Resumable(s) == IsInProgress(s) => pos < N /\ pos \in {s.cur, s.cur + 1}

\* An update has a machine that waits for it.
UpdateAwaited == cfn = "inProgress" => pc \in {"waitingForDeployment", "waitingForRollback"}

\* Nothing but a rollback under way leaves a file that is not.
RestInv ==
  pc \in (RunPCs \ {"failing"}) \cup PreRollPCs => Resumable(file)

\* startRollBackFn's copy, in the deploy machine, is of the step that failed,
\* and the stack stays there until it is saved.
CopyInv ==
  enter # "idle" /\ machine = "deploy" =>
    /\ pos < N /\ enterSave.cur = pos
    /\ enter = "starting" =>
         /\ mem.cur = pos
         /\ pc = "rollbackTables" => CurrentStep(mem) = "WAITING_FOR_ROLLBACK"

\* The rollback machine's record keeps up with it: every advanceStep succeeds.
DescentInv ==
  pc \in RollbackPCs =>
    /\ pos < N /\ pos \in {idx, idx + 1}
    /\ machine = "rollback" =>
         /\ file.cur = idx
         /\ mem.cur = IF pc = "rollbackAdvancing" /\ idx > 0 THEN idx - 1 ELSE idx
         /\ pc = "rollbackTables" => CurrentStep(mem) = "ROLLING_BACK"

WalkInv == UpdateAwaited /\ RestInv /\ CopyInv /\ DescentInv
=============================================================================
