-------------------------- MODULE DeploymentSessions --------------------------
(***************************************************************************)
(* Several `amplify push` processes on one environment, as far as they keep*)
(* out of each other's way: each loads deployment-state.json when it starts*)
(* and decides by it, minutes later, whether to go on; one that deploys    *)
(* iteratively reads it again in startDeployment before it uploads its own *)
(* (push-resources.ts, deployment-state-manager.ts).  What a process then  *)
(* does to the stack is IterativeDeployment; here only the status of the   *)
(* records and whose update the stack is in are kept.                      *)
(***************************************************************************)
CONSTANTS
  Process,   \* the processes that may be started
  FaultSets  \* sets of the following that may happen in one behaviour

FaultKinds ==
  {"race",   \* a reload falls between another's reload and its upload
   "cleanup",\* ... or between another's outcome and the file's deletion
   "read",   \* startDeployment's reload fails
   "mixed",  \* a push that needs no iterative deployment runs beside one
   "beside", \* a rollback is asked for while a process is at work on the deployment
   "lost",   \* an upload fails
   "undo",   \* a rollback command fails
   "crash"}  \* a process is killed

ASSUME SessionsAssumption == FaultSets \subseteq SUBSET FaultKinds

VARIABLES
  faults,    \* those of this behaviour
  file,      \* status in deployment-state.json, "none" if there is no file
  pc,        \* of each process
  cmd,       \* what each one does: "iterative", "rollback" or "plain"
  mem,       \* status in each one's currentState
  updater    \* kind of push the stack is being updated for, or "nobody"

vars == <<faults, file, pc, cmd, mem, updater>>

Status == {"IDLE", "DEPLOYING", "ROLLING_BACK", "DEPLOYED", "ROLLED_BACK", "FAILED"}

InProgress == {"DEPLOYING", "ROLLING_BACK"}

Commands == {"iterative", "rollback", "plain"}

TypeOK ==
  /\ faults \in FaultSets
  /\ file \in Status \cup {"none"}
  /\ pc \in [Process -> {"off", "loaded", "checked", "starting", "driving",
                         "driveWait", "updating", "failing", "cleaning"}]
  /\ cmd \in [Process -> Commands]
  /\ mem \in [Process -> Status]
  /\ updater \in {"nobody", "iterative", "plain"}

Init ==
  /\ faults \in FaultSets
  /\ file = "none" /\ updater = "nobody"
  /\ pc = [p \in Process |-> "off"]
  /\ cmd = [p \in Process |-> "plain"]
  /\ mem = [p \in Process |-> "IDLE"]

Goes(p, place) == pc' = [pc EXCEPT ![p] = place]
Holds(p, status) == mem' = [mem EXCEPT ![p] = status]

\* startDeployment has been called and the deployment has not come to an end.
Deploys(p) == pc[p] \in {"starting", "driving", "driveWait"}

\* Places where the file or the record of the deployment is about to change.
Writing == {"starting", "driving", "driveWait", "failing", "cleaning"}

-----------------------------------------------------------------------------
(* Every push *)

\* Mutant of StartCommand: no state is made up for an absent file.
StartCommandBare(p, c) ==
  /\ pc[p] = "off" /\ \A q \in Process : pc[q] = "off"
  /\ Goes(p, "loaded") /\ cmd' = [cmd EXCEPT ![p] = c] /\ Holds(p, file)
  /\ UNCHANGED <<faults, file, updater>>

\* loadOrCreateState.  Whether an iterative deployment is needed is found out
\* later; a push that needs none has the environment to itself unless "mixed".
StartCommand(p, c) ==
  /\ pc[p] = "off"
  /\ \/ "mixed" \in faults
     \/ \A q \in Process \ {p} :
          pc[q] = "off" \/ (c # "plain" /\ cmd[q] # "plain")
  /\ Goes(p, "loaded") /\ cmd' = [cmd EXCEPT ![p] = c]
  /\ Holds(p, IF file = "none" THEN "IDLE" ELSE file)
  /\ UNCHANGED <<faults, file, updater>>

\* The check of the loaded state, after the builds and transforms.
Refused(p) ==
  /\ pc[p] = "loaded" /\ mem[p] \in InProgress
  /\ Goes(p, "off")
  /\ UNCHANGED <<faults, file, cmd, mem, updater>>

GoesOn(p) ==
  /\ pc[p] = "loaded" /\ mem[p] \notin InProgress
  /\ Goes(p, "checked")
  /\ UNCHANGED <<faults, file, cmd, mem, updater>>

-----------------------------------------------------------------------------
(* A push that needs an iterative deployment *)

\* --iterative-rollback, and --force, take up a record in progress as soon as
\* they have loaded it, and wait for the stack; with nothing to roll back both
\* are pushes like any other.  Nothing asks whether the process that wrote the
\* record is still alive: if one is at work, the rollback runs "beside" it.
Resumes(p) ==
  /\ pc[p] = "off" /\ file \in InProgress
  /\ \A q \in Process \ {p} :
       /\ pc[q] \in Writing => "beside" \in faults
       /\ cmd[q] = "plain" /\ pc[q] # "off" => "mixed" \in faults
  /\ Goes(p, "driveWait") /\ Holds(p, "ROLLING_BACK")
  /\ cmd' = [cmd EXCEPT ![p] = "rollback"]
  /\ UNCHANGED <<faults, file, updater>>

\* startDeployment's reload finds a deployment in progress.
ReloadRefused(p) ==
  /\ pc[p] = "checked" /\ cmd[p] = "iterative" /\ file \in InProgress
  /\ Goes(p, "off")
  /\ UNCHANGED <<faults, file, cmd, mem, updater>>

\* The other processes have written what they were about to write.
Quiet(p) ==
  \A q \in Process \ {p} :
    /\ pc[q] \in {"starting", "failing"} => "race" \in faults
    /\ pc[q] = "cleaning" => "cleanup" \in faults

\* Mutant of Reload: the answer of the reload is not looked at.
ReloadBlindly(p) ==
  /\ pc[p] = "checked" /\ cmd[p] = "iterative"
  /\ Quiet(p)
  /\ Goes(p, "starting") /\ Holds(p, "DEPLOYING")
  /\ UNCHANGED <<faults, file, cmd, updater>>

\* It finds none, and the record in memory says DEPLOYING from here on; other
\* processes see it when its upload has ended.
Reload(p) ==
  /\ pc[p] = "checked" /\ cmd[p] = "iterative" /\ file \notin InProgress
  /\ Quiet(p)
  /\ Goes(p, "starting") /\ Holds(p, "DEPLOYING")
  /\ UNCHANGED <<faults, file, cmd, updater>>

\* Mutant of StartSaved: an upload that fails is not noticed.
StartSavedOrNot(p) ==
  /\ pc[p] = "starting"
  /\ file' = mem[p] \/ ("lost" \in faults /\ file' = file)
  /\ Goes(p, "driving")
  /\ UNCHANGED <<faults, cmd, mem, updater>>

StartSaved(p) ==
  /\ pc[p] = "starting"
  /\ file' = mem[p] /\ Goes(p, "driving")
  /\ UNCHANGED <<faults, cmd, mem, updater>>

\* The reload throws: failDeployment records the failure of a deployment
\* that was not started, unless the state loaded says DEPLOYED or ROLLED_BACK.
ReloadFails(p) ==
  /\ "read" \in faults /\ pc[p] = "checked" /\ cmd[p] = "iterative"
  /\ IF mem[p] \in {"DEPLOYED", "ROLLED_BACK"}
     THEN Goes(p, "off") /\ UNCHANGED mem
     ELSE Goes(p, "failing") /\ Holds(p, "FAILED")
  /\ UNCHANGED <<faults, file, cmd, updater>>

\* Mutant of Fails: run() does not call failDeployment.
FailsUnrecorded(p) ==
  /\ pc[p] = "driving" /\ cmd[p] = "iterative"
  /\ Goes(p, "off")
  /\ UNCHANGED <<faults, file, cmd, mem, updater>>

\* What run() awaits afterwards throws.
Fails(p) ==
  /\ \/ pc[p] = "starting" /\ "lost" \in faults
     \/ pc[p] = "driving" /\ cmd[p] = "iterative"
  /\ Goes(p, "failing") /\ Holds(p, "FAILED")
  /\ UNCHANGED <<faults, file, cmd, updater>>

\* ... but nothing is recorded of a rollback that fails, as one does whose
\* update comes while another's is under way.
RollbackFails(p) ==
  /\ pc[p] = "driving" /\ cmd[p] = "rollback"
  /\ "undo" \in faults \/ updater # "nobody"
  /\ Goes(p, "off")
  /\ UNCHANGED <<faults, file, cmd, mem, updater>>

FailSaved(p) ==
  /\ pc[p] = "failing"
  /\ file' = "FAILED" \/ ("lost" \in faults /\ file' = file)
  /\ Goes(p, "off")
  /\ UNCHANGED <<faults, cmd, mem, updater>>

\* A step: the record is uploaded, kept or lost, and the stack updated.
StepStarts(p) ==
  /\ pc[p] = "driving" /\ updater = "nobody"
  /\ file' = mem[p] \/ ("lost" \in faults /\ file' = file)
  /\ updater' = "iterative" /\ Goes(p, "driveWait")
  /\ UNCHANGED <<faults, cmd, mem>>

\* Its update has ended, or, the other way about, turns the machine back.
StepEnds(p) ==
  /\ pc[p] = "driveWait" /\ updater = "nobody"
  /\ \/ UNCHANGED mem
     \/ mem[p] = "DEPLOYING" /\ Holds(p, "ROLLING_BACK")
  /\ Goes(p, "driving")
  /\ UNCHANGED <<faults, file, cmd, updater>>

\* The last step: the outcome is uploaded; after DEPLOYED the file is deleted.
Ends(p) ==
  /\ pc[p] = "driving"
  /\ Holds(p, IF mem[p] = "DEPLOYING" THEN "DEPLOYED" ELSE "ROLLED_BACK")
  /\ file' = mem'[p] \/ ("lost" \in faults /\ file' = file)
  /\ Goes(p, IF mem[p] = "DEPLOYING" THEN "cleaning" ELSE "off")
  /\ UNCHANGED <<faults, cmd, updater>>

\* The rollback that --force asked for has succeeded: the process goes on as
\* the push it was started for, by the record it has in memory.
Repushes(p, c) ==
  /\ pc[p] = "driving" /\ cmd[p] = "rollback" /\ mem[p] = "ROLLING_BACK"
  /\ c = "plain" =>
       "mixed" \in faults \/ \A q \in Process \ {p} : pc[q] = "off"
  /\ Holds(p, "ROLLED_BACK")
  /\ file' = mem'[p] \/ ("lost" \in faults /\ file' = file)
  /\ Goes(p, "loaded") /\ cmd' = [cmd EXCEPT ![p] = c]
  /\ UNCHANGED <<faults, updater>>

-----------------------------------------------------------------------------
(* A push that needs none *)

\* The root stack is updated without another look at the state file.
PlainUpdate(p) ==
  /\ pc[p] = "checked" /\ cmd[p] = "plain"
  /\ \/ updater = "nobody" /\ updater' = "plain" /\ Goes(p, "updating")
     \/ updater = "nobody" /\ UNCHANGED updater /\ Goes(p, "cleaning")
     \/ updater # "nobody" /\ UNCHANGED updater /\ Goes(p, "off")
  /\ UNCHANGED <<faults, file, cmd, mem>>

PlainUpdated(p) ==
  /\ pc[p] = "updating" /\ updater # "plain"
  /\ \E place \in {"cleaning", "off"} : Goes(p, place)
  /\ UNCHANGED <<faults, file, cmd, mem, updater>>

-----------------------------------------------------------------------------

\* deleteDeploymentStateFile, at the end of every push that deployed.
StateFileDeleted(p) ==
  /\ pc[p] = "cleaning"
  /\ file' = "none" /\ Goes(p, "off")
  /\ UNCHANGED <<faults, cmd, mem, updater>>

Crash(p) ==
  /\ "crash" \in faults /\ pc[p] # "off"
  /\ Goes(p, "off")
  /\ UNCHANGED <<faults, file, cmd, mem, updater>>

StackUpdated ==
  /\ updater # "nobody" /\ updater' = "nobody"
  /\ UNCHANGED <<faults, file, pc, cmd, mem>>

Next ==
  \/ StackUpdated
  \/ \E p \in Process :
       \/ \E c \in {"iterative", "plain"} : StartCommand(p, c) \/ Repushes(p, c)
       \/ Refused(p) \/ GoesOn(p) \/ Resumes(p)
       \/ ReloadRefused(p) \/ Reload(p) \/ StartSaved(p)
       \/ ReloadFails(p) \/ Fails(p) \/ RollbackFails(p) \/ FailSaved(p)
       \/ StepStarts(p) \/ StepEnds(p) \/ Ends(p)
       \/ PlainUpdate(p) \/ PlainUpdated(p)
       \/ StateFileDeleted(p) \/ Crash(p)
Spec == Init /\ [][Next]_vars

-----------------------------------------------------------------------------
(* Properties *)

\* A second deployment does not begin while one is under way ...
OneDeployment ==
  \A p, q \in Process : Deploys(p) /\ Deploys(q) => p = q

\* ... unless a push falls into a window that the code leaves open.
NoWindow == faults \cap {"race", "read", "cleanup", "mixed", "beside"} = {}

DeploymentsExclude == NoWindow => OneDeployment

\* While the stack is updated for an iterative deployment, alive or killed,
\* the state file keeps other pushes out ...
UpdateIsGuarded == updater = "iterative" => file \in InProgress

\* ... through crashes, lost uploads and failed rollbacks, under the same
\* condition.
UpdatesAreGuarded == NoWindow => UpdateIsGuarded

NoLoss ==
  /\ faults \cap {"lost", "undo", "crash"} = {}
  /\ ~ {"mixed", "beside"} \subseteq faults

\* Whatever windows the processes use, one that is not killed, whose uploads
\* succeed and whose rollback is not refused for a plain push's update leaves
\* no record of a deployment in progress behind: a file that refuses pushes has
\* a process at work on it.
RefusalHasAReason ==
  NoLoss /\ file \in InProgress =>
    \E p \in Process : Deploys(p) \/ pc[p] = "failing"

-----------------------------------------------------------------------------
(* Why they hold without a window: at most one process is about to write   *)
(* the file, and it read no deployment in progress.                        *)

SessionsInv ==
  /\ TypeOK
  /\ \A p, q \in Process : pc[p] \in Writing /\ pc[q] \in Writing => p = q
  /\ \A p \in Process :
       /\ pc[p] \in {"driving", "driveWait"} => file \in InProgress
       /\ pc[p] \in {"starting", "driving", "driveWait"} => mem[p] \in InProgress
       /\ pc[p] \in Writing \ {"cleaning"} => cmd[p] # "plain"
       /\ pc[p] = "updating" => cmd[p] = "plain" /\ updater # "iterative"
       /\ cmd[p] = "plain" /\ pc[p] # "off" =>
            \A q \in Process \ {p} : pc[q] = "off"
  /\ updater = "iterative" =>
       /\ file \in InProgress
       /\ \A p \in Process : pc[p] \notin Writing \ {"driveWait"}

(* Why a refusal has a reason: only a rollback beside another process can   *)
(* be refused the stack, and then the process whose update it met stays.    *)

ReasonInv ==
  /\ TypeOK
  /\ RefusalHasAReason
  /\ NoLoss =>
       /\ \A p \in Process :
            /\ Deploys(p) /\ cmd[p] = "rollback" => "beside" \in faults
            /\ cmd[p] = "plain" /\ pc[p] # "off" /\ "mixed" \notin faults =>
                 \A q \in Process \ {p} : pc[q] = "off"
       /\ updater = "iterative" => \E p \in Process : pc[p] = "driveWait"
       /\ updater = "plain" =>
            \E p \in Process : pc[p] = "updating" /\ cmd[p] = "plain"
=============================================================================
