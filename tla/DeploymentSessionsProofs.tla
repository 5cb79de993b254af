----------------------- MODULE DeploymentSessionsProofs -----------------------
(***************************************************************************)
(* SessionsInv is an invariant of DeploymentSessions when none of its five *)
(* windows is used: at most one process is about to write the state file,  *)
(* and an update for an iterative deployment lies beside a record of it.   *)
(* ReasonInv is one through every window.                                  *)
(***************************************************************************)
EXTENDS DeploymentSessions, TLAPS

\* The initial state.
LEMMA InitSessions == ASSUME Init PROVE SessionsInv
  BY DEF Init, SessionsInv, TypeOK, Commands, Status, Writing, InProgress

\* A step keeps the types.
LEMMA TypeStep == ASSUME TypeOK, [Next]_vars PROVE TypeOK'
<1>1. ASSUME NEW p \in Process, NEW c \in {"iterative", "plain"}, StartCommand(p, c)
      PROVE  TypeOK'
  BY <1>1 DEF TypeOK, StartCommand, Goes, Holds, Commands, Status
<1>2. ASSUME NEW p \in Process, Refused(p) \/ GoesOn(p) \/ Resumes(p) \/ ReloadRefused(p)
      PROVE  TypeOK'
  BY <1>2 DEF TypeOK, Refused, GoesOn, Resumes, ReloadRefused, Goes, Holds, Commands, Status
<1>3. ASSUME NEW p \in Process, Reload(p) \/ StartSaved(p) \/ ReloadFails(p) \/ Fails(p)
      PROVE  TypeOK'
  BY <1>3 DEF TypeOK, Reload, StartSaved, ReloadFails, Fails, Goes, Holds, Commands, Status
<1>4. ASSUME NEW p \in Process, RollbackFails(p) \/ FailSaved(p) \/ StepStarts(p) \/ StepEnds(p)
      PROVE  TypeOK'
  BY <1>4 DEF TypeOK, RollbackFails, FailSaved, StepStarts, StepEnds, Goes, Holds, Commands, Status
<1>5. ASSUME NEW p \in Process, Ends(p)
      PROVE  TypeOK'
  BY <1>5 DEF TypeOK, Ends, Goes, Holds, Commands, Status
<1>6. ASSUME NEW p \in Process,
             PlainUpdate(p) \/ PlainUpdated(p) \/ StateFileDeleted(p) \/ Crash(p)
      PROVE  TypeOK'
  BY <1>6 DEF TypeOK, PlainUpdate, PlainUpdated, StateFileDeleted, Crash, Goes, Holds, Commands, Status
<1>7. ASSUME NEW p \in Process, NEW c \in {"iterative", "plain"}, Repushes(p, c)
      PROVE  TypeOK'
  BY <1>7 DEF TypeOK, Repushes, Goes, Holds, Commands, Status
<1>8. ASSUME StackUpdated \/ UNCHANGED vars
      PROVE  TypeOK'
  BY <1>8 DEF TypeOK, StackUpdated, vars
<1> QED
  BY <1>1, <1>2, <1>3, <1>4, <1>5, <1>6, <1>7, <1>8 DEF Next

\* What may happen in a behaviour is settled at its start.
LEMMA FaultsStay == ASSUME [Next]_vars PROVE UNCHANGED faults
<1>1. ASSUME Next PROVE UNCHANGED faults
  BY <1>1 DEF Next, StackUpdated, StartCommand, Refused, GoesOn, Resumes, ReloadRefused,
     Reload, StartSaved, ReloadFails, Fails, RollbackFails, FailSaved, StepStarts, StepEnds,
     Ends, Repushes, PlainUpdate, PlainUpdated, StateFileDeleted, Crash
<1> QED BY <1>1 DEF vars

\* A step keeps the rest of the invariant.
LEMMA SessionsStep ==
  ASSUME NoWindow, SessionsInv, [Next]_vars
  PROVE  SessionsInv'
<1> USE DEF InProgress, Writing
<1>t. TypeOK /\ TypeOK'
  BY TypeStep DEF SessionsInv
<1>1. ASSUME NEW p \in Process, NEW c \in {"iterative", "plain"}, StartCommand(p, c)
      PROVE  SessionsInv'
  BY <1>1, <1>t DEF SessionsInv, TypeOK, StartCommand, Goes, Holds, NoWindow
<1>2. ASSUME NEW p \in Process, Refused(p) \/ GoesOn(p) \/ ReloadRefused(p)
      PROVE  SessionsInv'
  BY <1>2, <1>t DEF SessionsInv, TypeOK, Refused, GoesOn, ReloadRefused, Goes, Holds
<1>3. ASSUME NEW p \in Process, Resumes(p)
      PROVE  SessionsInv'
  BY <1>3, <1>t DEF SessionsInv, TypeOK, Resumes, Goes, Holds, NoWindow
<1>4. ASSUME NEW p \in Process, Reload(p)
      PROVE  SessionsInv'
  BY <1>4, <1>t DEF SessionsInv, TypeOK, Reload, Quiet, Goes, Holds, NoWindow
<1>5. ASSUME NEW p \in Process, StartSaved(p)
      PROVE  SessionsInv'
  BY <1>5, <1>t DEF SessionsInv, TypeOK, StartSaved, Goes, Holds
<1>6. ASSUME NEW p \in Process, ReloadFails(p) \/ Fails(p) \/ RollbackFails(p)
      PROVE  SessionsInv'
  BY <1>6, <1>t DEF SessionsInv, TypeOK, ReloadFails, Fails, RollbackFails, Goes, Holds, NoWindow
<1>7. ASSUME NEW p \in Process, FailSaved(p)
      PROVE  SessionsInv'
  BY <1>7, <1>t DEF SessionsInv, TypeOK, FailSaved, Goes, Holds
<1>8. ASSUME NEW p \in Process, StepStarts(p)
      PROVE  SessionsInv'
  BY <1>8, <1>t DEF SessionsInv, TypeOK, StepStarts, Goes, Holds
<1>9. ASSUME NEW p \in Process, StepEnds(p)
      PROVE  SessionsInv'
  BY <1>9, <1>t DEF SessionsInv, TypeOK, StepEnds, Goes, Holds
<1>10. ASSUME NEW p \in Process, Ends(p)
       PROVE  SessionsInv'
  BY <1>10, <1>t DEF SessionsInv, TypeOK, Ends, Goes, Holds
<1>11. ASSUME NEW p \in Process, PlainUpdate(p) \/ PlainUpdated(p)
       PROVE  SessionsInv'
  BY <1>11, <1>t DEF SessionsInv, TypeOK, PlainUpdate, PlainUpdated, Goes, Holds
<1>12. ASSUME NEW p \in Process, StateFileDeleted(p)
       PROVE  SessionsInv'
  BY <1>12, <1>t DEF SessionsInv, TypeOK, StateFileDeleted, Goes, Holds
<1>13. ASSUME NEW p \in Process, Crash(p)
       PROVE  SessionsInv'
  BY <1>13, <1>t DEF SessionsInv, TypeOK, Crash, Goes, Holds
<1>14. ASSUME NEW p \in Process, NEW c \in {"iterative", "plain"}, Repushes(p, c)
       PROVE  SessionsInv'
  BY <1>14, <1>t DEF SessionsInv, TypeOK, Repushes, Goes, Holds, NoWindow
<1>15. ASSUME StackUpdated \/ UNCHANGED vars
       PROVE  SessionsInv'
  BY <1>15, <1>t DEF SessionsInv, TypeOK, StackUpdated, vars
<1> QED
  BY <1>1, <1>2, <1>3, <1>4, <1>5, <1>6, <1>7, <1>8, <1>9, <1>10, <1>11, <1>12,
     <1>13, <1>14, <1>15 DEF Next

\* The inductive invariant, under the assumption that no push falls into
\* another's window.
LEMMA SessionsInvariant == Spec => [](NoWindow => SessionsInv)
<1> DEFINE Inv == NoWindow => SessionsInv
<1>1. Init => Inv
  BY InitSessions
<1>2. Inv /\ [Next]_vars => Inv'
  BY SessionsStep, FaultsStay DEF NoWindow
<1> QED
  BY <1>1, <1>2, PTL DEF Spec

\* For any number of processes: when no push falls into another's window, none
\* runs beside an iterative one and no rollback is asked for while a process is
\* at work (the five that NoWindow names), two deployments never overlap,
\* through crashes, lost uploads, resumed rollbacks and what --force does next.
THEOREM SessionsExclude == Spec => []DeploymentsExclude
<1>1. (NoWindow => SessionsInv) => DeploymentsExclude
  BY DEF SessionsInv, DeploymentsExclude, OneDeployment, Deploys, Writing
<1> QED
  BY <1>1, SessionsInvariant, PTL

\* Under the same assumption, which a rollback beside a live deployment breaks
\* as the other four do, each update CloudFormation runs for an iterative
\* deployment, by a process alive or killed, lies beside a record in progress,
\* which refuses the run() of any other push.
THEOREM UpdatesGuarded == Spec => []UpdatesAreGuarded
<1>1. (NoWindow => SessionsInv) => UpdatesAreGuarded
  BY DEF SessionsInv, UpdatesAreGuarded, UpdateIsGuarded, Deploys, Writing
<1> QED
  BY <1>1, SessionsInvariant, PTL

-----------------------------------------------------------------------------

\* One process that deploys or records its failure is reason enough; only its
\* own step can end that, and then it has written the outcome, or was a
\* rollback refused the stack, which another process has.
LEMMA ReasonStep ==
  ASSUME ReasonInv, [Next]_vars
  PROVE  ReasonInv'
<1>t. TypeOK /\ TypeOK'
  BY TypeStep DEF ReasonInv
<1>0. SUFFICES ASSUME NoLoss PROVE ReasonInv'
  BY FaultsStay, <1>t DEF ReasonInv, RefusalHasAReason, NoLoss
<1> USE <1>0, <1>t DEF ReasonInv, InProgress, RefusalHasAReason, Deploys, TypeOK, Goes, Holds
<1>1. ASSUME NEW p \in Process, NEW c \in {"iterative", "plain"}, StartCommand(p, c)
      PROVE  ReasonInv'
  BY <1>1 DEF StartCommand
<1>2. ASSUME NEW p \in Process, Refused(p) \/ GoesOn(p) \/ ReloadRefused(p)
      PROVE  ReasonInv'
  BY <1>2 DEF Refused, GoesOn, ReloadRefused
<1>3. ASSUME NEW p \in Process, Resumes(p)
      PROVE  ReasonInv'
  BY <1>3 DEF Resumes, Writing
<1>4. ASSUME NEW p \in Process, Reload(p) \/ StartSaved(p)
      PROVE  ReasonInv'
  BY <1>4 DEF Reload, StartSaved
<1>5. ASSUME NEW p \in Process, ReloadFails(p) \/ Fails(p)
      PROVE  ReasonInv'
  BY <1>5 DEF ReloadFails, Fails
<1>6. ASSUME NEW p \in Process, RollbackFails(p)
      PROVE  ReasonInv'
  BY <1>6 DEF RollbackFails, NoLoss
<1>7. ASSUME NEW p \in Process, FailSaved(p) \/ Ends(p)
      PROVE  ReasonInv'
  BY <1>7 DEF FailSaved, Ends, NoLoss
<1>8. ASSUME NEW p \in Process, NEW c \in {"iterative", "plain"}, Repushes(p, c)
      PROVE  ReasonInv'
  BY <1>8 DEF Repushes, NoLoss
<1>9. ASSUME NEW p \in Process, StepStarts(p) \/ StepEnds(p)
      PROVE  ReasonInv'
  BY <1>9 DEF StepStarts, StepEnds
<1>10. ASSUME NEW p \in Process,
             PlainUpdate(p) \/ PlainUpdated(p) \/ StateFileDeleted(p) \/ Crash(p)
      PROVE  ReasonInv'
  BY <1>10 DEF PlainUpdate, PlainUpdated, StateFileDeleted, Crash, NoLoss
<1>11. ASSUME StackUpdated \/ UNCHANGED vars
      PROVE  ReasonInv'
  BY <1>11 DEF StackUpdated, vars
<1> QED
  BY <1>1, <1>2, <1>3, <1>4, <1>5, <1>6, <1>7, <1>8, <1>9, <1>10, <1>11 DEF Next

\* Every reachable state of the processes, the record and the stack is well
\* typed, whatever fails and however many processes there are.
THEOREM SessionsTyped == Spec => []TypeOK
<1>1. Init => TypeOK
  BY DEF Init, TypeOK, Status, Commands
<1>2. TypeOK /\ [Next]_vars => TypeOK'
  BY TypeStep
<1> QED
  BY <1>1, <1>2, PTL DEF Spec

\* For any number of processes, and through every window: when processes are
\* not killed, uploads not lost, rollbacks do not fail by themselves, and none
\* is asked for beside a live deployment in an environment where plain pushes
\* run beside iterative ones, a record that refuses pushes has a process at
\* work on it.
THEOREM RefusalsEnd == Spec => []RefusalHasAReason
<1>1. Init => ReasonInv
  BY DEF Init, ReasonInv, TypeOK, RefusalHasAReason, Deploys, InProgress, Status, Commands
<1>2. ReasonInv /\ [Next]_vars => ReasonInv'
  BY ReasonStep
<1>3. ReasonInv => RefusalHasAReason
  BY DEF ReasonInv
<1> QED
  BY <1>1, <1>2, <1>3, PTL DEF Spec
=============================================================================
