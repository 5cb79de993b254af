------------------------- MODULE FunctionSecretsProofs -------------------------
(***************************************************************************)
(* What the commands may do to the values of a function's secrets, for any *)
(* environments and secrets: DeployedHaveValues, NoOrphans, PushSparesNames *)
(* from the inductive SecretsInv, and that it holds.                       *)
(***************************************************************************)
EXTENDS FunctionSecrets, TLAPS

USE SecretsAssumption

\* Every command keeps the shape of the state.
LEMMA TypeStep == TypeOK /\ [Next]_vars => TypeOK'
<1> SUFFICES ASSUME TypeOK, [Next]_vars PROVE TypeOK'
  OBVIOUS
<1> USE DEF TypeOK, Functions, Function, Absent, Deltas, NoDeltas, Steps, Ends, StartsSync, process, project, cloud
<1>1. CASE SyncCloud
  BY <1>1 DEF SyncCloud, Deleted
<1>2. CASE SyncCloudFails
  BY <1>2 DEF SyncCloudFails, Deleted
<1>3. CASE SyncTemplate
  BY <1>3 DEF SyncTemplate
<1>4. CASE SyncNames
  BY <1>4 DEF SyncNames
<1>5. ASSUME NEW set \in SUBSET Secret, NEW remove \in SUBSET Secret, UpdateFunction(set, remove)
      PROVE  TypeOK'
  BY <1>5 DEF UpdateFunction
<1>6. CASE RemoveFunction
  BY <1>6 DEF RemoveFunction, RemovesSecrets, Gone
<1>7. CASE DeclineRemoval
  BY <1>7 DEF DeclineRemoval, RemovesSecrets
<1>8. CASE Push
  BY <1>8 DEF Push
<1>9. CASE StorePending
  BY <1>9 DEF StorePending, Removed
<1>10. CASE Publish \/ Fetch
  BY <1>10 DEF Publish, Fetch
<1>11. CASE NoChanges \/ Save
  BY <1>11 DEF NoChanges, Save, PushEnds
<1>12. CASE Deploy \/ Move
  BY <1>12 DEF Deploy, Move
<1>13. CASE PushFails \/ Dies
  BY <1>13 DEF PushFails, Dies
<1>14. CASE Clean
  BY <1>14 DEF Clean
<1>15. ASSUME NEW e \in Env, NEW restore \in BOOLEAN, Checkout(e, restore)
       PROVE  TypeOK'
  BY <1>15 DEF Checkout
<1>16. ASSUME NEW e \in Env, AddEnv(e) PROVE TypeOK'
  BY <1>16 DEF AddEnv
<1>17. CASE UNCHANGED vars
  BY <1>17 DEF vars
<1>18. ASSUME NEW e \in Env, RemoveEnv(e) PROVE TypeOK'
  BY <1>18 DEF RemoveEnv
<1>19. CASE ReturnsEarly
  BY <1>19 DEF ReturnsEarly, PushEnds
<1>20. ASSUME NEW e \in Env, Elsewhere(e) PROVE TypeOK'
  BY <1>20 DEF Elsewhere
<1> HIDE DEF TypeOK, Functions, Function, Absent, Deltas, NoDeltas, Steps, Ends, StartsSync
<1> QED
  BY <1>1, <1>2, <1>3, <1>4, <1>5, <1>6, <1>7, <1>8, <1>9, <1>10, <1>11, <1>12, <1>13, <1>14,
     <1>15, <1>16, <1>17, <1>18, <1>19, <1>20 DEF Next

\* What a push is going to delete is not among the function's names.
LEMMA PushStep == TypeOK /\ PushInv /\ [Next]_vars => PushInv'
<1> SUFFICES ASSUME TypeOK, PushInv, [Next]_vars PROVE PushInv'
  OBVIOUS
<1> USE DEF PushInv, TypeOK, Functions, Function, Absent, Deltas, NoDeltas, Steps, Ends, StartsSync, process, project, cloud
<1>1. CASE SyncCloud
  BY <1>1 DEF SyncCloud, Deleted
<1>2. CASE SyncCloudFails
  BY <1>2 DEF SyncCloudFails, Deleted
<1>3. CASE SyncTemplate
  BY <1>3 DEF SyncTemplate
<1>4. CASE SyncNames
  BY <1>4 DEF SyncNames
<1>5. ASSUME NEW set \in SUBSET Secret, NEW remove \in SUBSET Secret, UpdateFunction(set, remove)
      PROVE  PushInv'
  BY <1>5 DEF UpdateFunction
<1>6. CASE RemoveFunction
  BY <1>6 DEF RemoveFunction, RemovesSecrets, Gone
<1>7. CASE DeclineRemoval
  BY <1>7 DEF DeclineRemoval, RemovesSecrets
<1>8. CASE Push
  BY <1>8 DEF Push
<1>9. CASE StorePending
  BY <1>9 DEF StorePending, Removed
<1>10. CASE Publish
  BY <1>10 DEF Publish
<1>11. CASE Fetch
  BY <1>11 DEF Fetch
<1>12. CASE NoChanges
  BY <1>12 DEF NoChanges, PushEnds
<1>13. CASE Save
  BY <1>13 DEF Save, PushEnds
<1>14. CASE Deploy
  BY <1>14 DEF Deploy
<1>15. CASE Move
  BY <1>15 DEF Move
<1>16. CASE PushFails
  BY <1>16 DEF PushFails
<1>17. CASE Dies
  BY <1>17 DEF Dies
<1>18. CASE Clean
  BY <1>18 DEF Clean
<1>19. ASSUME NEW e \in Env, NEW restore \in BOOLEAN, Checkout(e, restore)
       PROVE  PushInv'
  BY <1>19 DEF Checkout
<1>20. ASSUME NEW e \in Env, AddEnv(e) PROVE PushInv'
  BY <1>20 DEF AddEnv
<1>21. CASE UNCHANGED vars
  BY <1>21 DEF vars
<1>22. ASSUME NEW e \in Env, RemoveEnv(e) PROVE PushInv'
  BY <1>22 DEF RemoveEnv
<1>23. CASE ReturnsEarly
  BY <1>23 DEF ReturnsEarly, PushEnds
<1>24. ASSUME NEW e \in Env, Elsewhere(e) PROVE PushInv'
  BY <1>24 DEF Elsewhere
<1> HIDE DEF PushInv, TypeOK, Functions, Function, Absent, Deltas, NoDeltas, Steps, Ends, StartsSync
<1> QED
  BY <1>1, <1>2, <1>3, <1>4, <1>5, <1>6, <1>7, <1>8, <1>9, <1>10, <1>11,
     <1>12, <1>13, <1>14, <1>15, <1>16, <1>17, <1>18, <1>19, <1>20, <1>21, <1>22,
     <1>23, <1>24 DEF Next

\* The template and the records read only what is named.
LEMMA NamedStep == TypeOK /\ PushInv /\ NamedInv /\ RecordedInv /\ ValuesInv /\ Calm /\ [Next]_vars => NamedInv'
<1> SUFFICES ASSUME TypeOK, PushInv, NamedInv, RecordedInv, ValuesInv, Calm, [Next]_vars PROVE NamedInv'
  OBVIOUS
<1> USE DEF PushInv, NamedInv, RecordedInv, ValuesInv, Calm, doRemoveSecretsInCloud, isFunctionPushed, TypeOK, Functions, Function, Absent, Deltas, NoDeltas, Steps, Ends, StartsSync, process, project, cloud
<1>1. CASE SyncCloud
  BY <1>1 DEF SyncCloud, Deleted
<1>2. CASE SyncCloudFails
  BY <1>2 DEF SyncCloudFails, Deleted
<1>3. CASE SyncTemplate
  BY <1>3 DEF SyncTemplate
<1>4. CASE SyncNames
  BY <1>4 DEF SyncNames
<1>5. ASSUME NEW set \in SUBSET Secret, NEW remove \in SUBSET Secret, UpdateFunction(set, remove)
      PROVE  NamedInv'
  BY <1>5 DEF UpdateFunction
<1>6. CASE RemoveFunction
  BY <1>6 DEF RemoveFunction, RemovesSecrets, Gone
<1>7. CASE DeclineRemoval
  BY <1>7 DEF DeclineRemoval, RemovesSecrets
<1>8. CASE Push
  BY <1>8 DEF Push
<1>9. CASE StorePending
  BY <1>9 DEF StorePending, Removed
<1>10. CASE Publish
  BY <1>10 DEF Publish
<1>11. CASE Fetch
  BY <1>11 DEF Fetch
<1>12. CASE NoChanges
  BY <1>12 DEF NoChanges, PushEnds
<1>13. CASE Save
  BY <1>13 DEF Save, PushEnds
<1>14. CASE Deploy
  BY <1>14 DEF Deploy
<1>15. CASE Move
  BY <1>15 DEF Move
<1>16. CASE PushFails
  BY <1>16 DEF PushFails
<1>17. CASE Dies
  BY <1>17 DEF Dies
<1>18. CASE Clean
  BY <1>18 DEF Clean
<1>19. ASSUME NEW e \in Env, NEW restore \in BOOLEAN, Checkout(e, restore)
       PROVE  NamedInv'
  BY <1>19 DEF Checkout
<1>20. ASSUME NEW e \in Env, AddEnv(e) PROVE NamedInv'
  BY <1>20 DEF AddEnv
<1>21. CASE UNCHANGED vars
  BY <1>21 DEF vars
<1>22. ASSUME NEW e \in Env, RemoveEnv(e) PROVE NamedInv'
  BY <1>22 DEF RemoveEnv
<1>23. CASE ReturnsEarly
  BY <1>23 DEF ReturnsEarly, PushEnds
<1>24. ASSUME NEW e \in Env, Elsewhere(e) PROVE NamedInv'
  BY <1>24 DEF Elsewhere
<1> HIDE DEF PushInv, NamedInv, RecordedInv, ValuesInv, TypeOK, Functions, Function, Absent, Deltas, NoDeltas, Steps, Ends, StartsSync
<1> QED
  BY <1>1, <1>2, <1>3, <1>4, <1>5, <1>6, <1>7, <1>8, <1>9, <1>10, <1>11,
     <1>12, <1>13, <1>14, <1>15, <1>16, <1>17, <1>18, <1>19, <1>20, <1>21, <1>22,
     <1>23, <1>24 DEF Next

\* The local copy and the record tell what is deployed.
LEMMA RecordedStep == TypeOK /\ RecordedInv /\ "unrecorded" \notin windows /\ [Next]_vars => RecordedInv'
<1> SUFFICES ASSUME TypeOK, RecordedInv, "unrecorded" \notin windows, [Next]_vars PROVE RecordedInv'
  OBVIOUS
<1> USE DEF RecordedInv, TypeOK, Functions, Function, Absent, Deltas, NoDeltas, Steps, Ends, StartsSync, process, project, cloud
<1>1. CASE SyncCloud
  BY <1>1 DEF SyncCloud, Deleted
<1>2. CASE SyncCloudFails
  BY <1>2 DEF SyncCloudFails, Deleted
<1>3. CASE SyncTemplate
  BY <1>3 DEF SyncTemplate
<1>4. CASE SyncNames
  BY <1>4 DEF SyncNames
<1>5. ASSUME NEW set \in SUBSET Secret, NEW remove \in SUBSET Secret, UpdateFunction(set, remove)
      PROVE  RecordedInv'
  BY <1>5 DEF UpdateFunction
<1>6. CASE RemoveFunction
  BY <1>6 DEF RemoveFunction, RemovesSecrets, Gone
<1>7. CASE DeclineRemoval
  BY <1>7 DEF DeclineRemoval, RemovesSecrets
<1>8. CASE Push
  BY <1>8 DEF Push
<1>9. CASE StorePending
  BY <1>9 DEF StorePending, Removed
<1>10. CASE Publish
  BY <1>10 DEF Publish
<1>11. CASE Fetch
  BY <1>11 DEF Fetch
<1>12. CASE NoChanges
  BY <1>12 DEF NoChanges, PushEnds
<1>13. CASE Save
  BY <1>13 DEF Save, PushEnds
<1>14. CASE Deploy
  BY <1>14 DEF Deploy
<1>15. CASE Move
  BY <1>15 DEF Move
<1>16. CASE PushFails
  BY <1>16 DEF PushFails
<1>17. CASE Dies
  BY <1>17 DEF Dies
<1>18. CASE Clean
  BY <1>18 DEF Clean
<1>19. ASSUME NEW e \in Env, NEW restore \in BOOLEAN, Checkout(e, restore)
       PROVE  RecordedInv'
  BY <1>19 DEF Checkout
<1>20. ASSUME NEW e \in Env, AddEnv(e) PROVE RecordedInv'
  BY <1>20 DEF AddEnv
<1>21. CASE UNCHANGED vars
  BY <1>21 DEF vars
<1>22. ASSUME NEW e \in Env, RemoveEnv(e) PROVE RecordedInv'
  BY <1>22 DEF RemoveEnv
<1>23. CASE ReturnsEarly
  BY <1>23 DEF ReturnsEarly, PushEnds
<1>24. ASSUME NEW e \in Env, Elsewhere(e) PROVE RecordedInv'
  BY <1>24 DEF Elsewhere
<1> HIDE DEF RecordedInv, TypeOK, Functions, Function, Absent, Deltas, NoDeltas, Steps, Ends, StartsSync
<1> QED
  BY <1>1, <1>2, <1>3, <1>4, <1>5, <1>6, <1>7, <1>8, <1>9, <1>10, <1>11,
     <1>12, <1>13, <1>14, <1>15, <1>16, <1>17, <1>18, <1>19, <1>20, <1>21, <1>22,
     <1>23, <1>24 DEF Next

\* What is recorded, and what is about to be deployed, has values.
LEMMA ValuesStep == TypeOK /\ PushInv /\ NamedInv /\ RecordedInv /\ ValuesInv /\ Calm /\ [Next]_vars => ValuesInv'
<1> SUFFICES ASSUME TypeOK, PushInv, NamedInv, RecordedInv, ValuesInv, Calm, [Next]_vars PROVE ValuesInv'
  OBVIOUS
<1> USE DEF PushInv, NamedInv, RecordedInv, ValuesInv, Calm, doRemoveSecretsInCloud, isFunctionPushed, TypeOK, Functions, Function, Absent, Deltas, NoDeltas, Steps, Ends, StartsSync, process, project, cloud
<1>1. CASE SyncCloud
  BY <1>1 DEF SyncCloud, Deleted
<1>2. CASE SyncCloudFails
  BY <1>2 DEF SyncCloudFails, Deleted
<1>3. CASE SyncTemplate
  BY <1>3 DEF SyncTemplate
<1>4. CASE SyncNames
  BY <1>4 DEF SyncNames
<1>5. ASSUME NEW set \in SUBSET Secret, NEW remove \in SUBSET Secret, UpdateFunction(set, remove)
      PROVE  ValuesInv'
  BY <1>5 DEF UpdateFunction
<1>6. CASE RemoveFunction
  BY <1>6 DEF RemoveFunction, RemovesSecrets, Gone
<1>7. CASE DeclineRemoval
  BY <1>7 DEF DeclineRemoval, RemovesSecrets
<1>8. CASE Push
  BY <1>8 DEF Push
<1>9. CASE StorePending
  BY <1>9 DEF StorePending, Removed
<1>10. CASE Publish
  BY <1>10 DEF Publish
<1>11. CASE Fetch
  BY <1>11 DEF Fetch
<1>12. CASE NoChanges
  BY <1>12 DEF NoChanges, PushEnds
<1>13. CASE Save
  BY <1>13 DEF Save, PushEnds
<1>14. CASE Deploy
  BY <1>14 DEF Deploy
<1>15. CASE Move
  BY <1>15 DEF Move
<1>16. CASE PushFails
  BY <1>16 DEF PushFails
<1>17. CASE Dies
  BY <1>17 DEF Dies
<1>18. CASE Clean
  BY <1>18 DEF Clean
<1>19. ASSUME NEW e \in Env, NEW restore \in BOOLEAN, Checkout(e, restore)
       PROVE  ValuesInv'
  BY <1>19 DEF Checkout
<1>20. ASSUME NEW e \in Env, AddEnv(e) PROVE ValuesInv'
  BY <1>20 DEF AddEnv
<1>21. CASE UNCHANGED vars
  BY <1>21 DEF vars
<1>22. ASSUME NEW e \in Env, RemoveEnv(e) PROVE ValuesInv'
  BY <1>22 DEF RemoveEnv
<1>23. CASE ReturnsEarly
  BY <1>23 DEF ReturnsEarly, PushEnds
<1>24. ASSUME NEW e \in Env, Elsewhere(e) PROVE ValuesInv'
  BY <1>24 DEF Elsewhere
<1> HIDE DEF PushInv, NamedInv, RecordedInv, ValuesInv, TypeOK, Functions, Function, Absent, Deltas, NoDeltas, Steps, Ends, StartsSync
<1> QED
  BY <1>1, <1>2, <1>3, <1>4, <1>5, <1>6, <1>7, <1>8, <1>9, <1>10, <1>11,
     <1>12, <1>13, <1>14, <1>15, <1>16, <1>17, <1>18, <1>19, <1>20, <1>21, <1>22,
     <1>23, <1>24 DEF Next
\* Every value is that of a name, or on its way.
LEMMA OwnedStep == TypeOK /\ PushInv /\ RecordedInv /\ OwnedInv /\ Undisturbed /\ [Next]_vars => OwnedInv'
<1> SUFFICES ASSUME TypeOK, PushInv, RecordedInv, OwnedInv, Undisturbed, [Next]_vars PROVE OwnedInv'
  OBVIOUS
<1> USE DEF PushInv, RecordedInv, OwnedInv, Undisturbed, Deleted, doRemoveSecretsInCloud, isFunctionPushed, TypeOK, Functions, Function, Absent, Deltas, NoDeltas, Steps, Ends, StartsSync, process, project, cloud
<1>1. CASE SyncCloud
  BY <1>1 DEF SyncCloud, Deleted
<1>2. CASE SyncCloudFails
  BY <1>2 DEF SyncCloudFails, Deleted
<1>3. CASE SyncTemplate
  BY <1>3 DEF SyncTemplate
<1>4. CASE SyncNames
  BY <1>4 DEF SyncNames
<1>5. ASSUME NEW set \in SUBSET Secret, NEW remove \in SUBSET Secret, UpdateFunction(set, remove)
      PROVE  OwnedInv'
  BY <1>5 DEF UpdateFunction
<1>6. CASE RemoveFunction
  BY <1>6 DEF RemoveFunction, RemovesSecrets, Gone
<1>7. CASE DeclineRemoval
  BY <1>7 DEF DeclineRemoval, RemovesSecrets
<1>8. CASE Push
  BY <1>8 DEF Push
<1>9. CASE StorePending
  BY <1>9 DEF StorePending, Removed
<1>10. CASE Publish
  BY <1>10 DEF Publish
<1>11. CASE Fetch
  BY <1>11 DEF Fetch
<1>12. CASE NoChanges
  BY <1>12 DEF NoChanges, PushEnds
<1>13. CASE Save
  BY <1>13 DEF Save, PushEnds
<1>14. CASE Deploy
  BY <1>14 DEF Deploy
<1>15. CASE Move
  BY <1>15 DEF Move
<1>16. CASE PushFails
  BY <1>16 DEF PushFails
<1>17. CASE Dies
  BY <1>17 DEF Dies
<1>18. CASE Clean
  BY <1>18 DEF Clean
<1>19. ASSUME NEW e \in Env, NEW restore \in BOOLEAN, Checkout(e, restore)
       PROVE  OwnedInv'
  BY <1>19 DEF Checkout, Unpushed
<1>20. ASSUME NEW e \in Env, AddEnv(e) PROVE OwnedInv'
  BY <1>20 DEF AddEnv, Unpushed
<1>21. CASE UNCHANGED vars
  BY <1>21 DEF vars
<1>22. ASSUME NEW e \in Env, RemoveEnv(e) PROVE OwnedInv'
  BY <1>22 DEF RemoveEnv
<1>23. CASE ReturnsEarly
  BY <1>23 DEF ReturnsEarly, PushEnds
<1>24. ASSUME NEW e \in Env, Elsewhere(e) PROVE OwnedInv'
  BY <1>24 DEF Elsewhere
<1> HIDE DEF PushInv, RecordedInv, OwnedInv, TypeOK, Functions, Function, Absent, Deltas, NoDeltas, Steps, Ends, StartsSync
<1> QED
  BY <1>1, <1>2, <1>3, <1>4, <1>5, <1>6, <1>7, <1>8, <1>9, <1>10, <1>11,
     <1>12, <1>13, <1>14, <1>15, <1>16, <1>17, <1>18, <1>19, <1>20, <1>21, <1>22,
     <1>23, <1>24 DEF Next
-----------------------------------------------------------------------------

LEMMA InitSecrets == Init => SecretsInv
BY DEF Init, SecretsInv, TypeOK, PushInv, NamedInv, RecordedInv, ValuesInv, OwnedInv,
       Functions, Function, Absent, Deltas, NoDeltas, Steps

\* Which windows a behaviour has is settled at its start.
LEMMA WindowsStay == [Next]_vars => windows' = windows
BY DEF Next, vars, SyncCloud, SyncCloudFails, SyncTemplate, SyncNames, UpdateFunction,
       RemoveFunction, DeclineRemoval, RemovesSecrets, Push, StorePending, Publish, Fetch,
       NoChanges, Deploy, Move, Save, PushFails, ReturnsEarly, PushEnds,
       Elsewhere, Clean, Dies, Checkout, AddEnv, RemoveEnv

LEMMA SecretsInvariant == Spec => []SecretsInv
<1>1. SecretsInv /\ [Next]_vars => SecretsInv'
  <2> SUFFICES ASSUME SecretsInv, [Next]_vars PROVE SecretsInv'
    OBVIOUS
  <2>1. TypeOK' /\ PushInv'
    BY TypeStep, PushStep DEF SecretsInv
  <2>2. windows' = windows
    BY WindowsStay
  <2>3. "unrecorded" \notin windows' => RecordedInv'
    BY <2>2, RecordedStep DEF SecretsInv
  <2>4. Calm' => NamedInv' /\ ValuesInv'
    <3> SUFFICES ASSUME Calm' PROVE NamedInv' /\ ValuesInv'
      OBVIOUS
    <3>1. Calm
      BY <2>2 DEF Calm
    <3>2. "unrecorded" \notin windows
      BY <3>1 DEF Calm
    <3> QED
      BY <3>1, <3>2, NamedStep, ValuesStep DEF SecretsInv
  <2>5. Undisturbed' => OwnedInv'
    <3> SUFFICES ASSUME Undisturbed' PROVE OwnedInv'
      OBVIOUS
    <3>1. Undisturbed
      BY <2>2 DEF Undisturbed
    <3>2. "unrecorded" \notin windows
      BY <3>1 DEF Undisturbed
    <3> QED
      BY <3>1, <3>2, OwnedStep DEF SecretsInv
  <2> QED
    BY <2>1, <2>3, <2>4, <2>5 DEF SecretsInv
<1> QED
  BY InitSecrets, <1>1, PTL DEF Spec

\* Every reachable state of the project, the cloud and the command is well
\* typed, in every environment and through every window.
THEOREM SecretsTyped == Spec => []TypeOK
<1>1. SecretsInv => TypeOK
  BY DEF SecretsInv
<1> QED
  BY SecretsInvariant, <1>1, PTL

\* What a deployed function reads has a value, in every environment and at every
\* step of every command (syncSecretDeltas with the commands that call it, and
\* the push that deletes values in its postPush event), if no process dies in
\* the two places "torn" and "unrecorded" name, no push is "refused" or goes
\* "elsewhere", and none of the windows "partial", "publish" and "declined"
\* opens: in each of these seven the code leaves a value out or deletes one.
THEOREM DeployedRead == Spec => []DeployedHaveValues
<1>1. SecretsInv => DeployedHaveValues
  <2> SUFFICES ASSUME SecretsInv, Calm, NEW e \in Env PROVE stack[e] \subseteq values[e]
    BY DEF DeployedHaveValues, ReadsExist
  <2>1. NamedInv /\ RecordedInv /\ ValuesInv
    BY DEF SecretsInv, Calm
  <2>2. CASE pc \in {"move", "save"} /\ e = env
    BY <2>1, <2>2 DEF NamedInv, RecordedInv, ValuesInv
  <2>3. CASE ~(pc \in {"move", "save"} /\ e = env)
    BY <2>1, <2>3 DEF RecordedInv, ValuesInv
  <2> QED
    BY <2>2, <2>3
<1> QED
  BY SecretsInvariant, <1>1, PTL

\* With no command under way, a value is that of a secret of the function or of
\* its last push (storeSecretsPendingRemoval finds what a push has to delete,
\* isFunctionPushed what has to be deleted at once), if commands run to their
\* ends, or are refused or declined, no push goes "elsewhere" and only secrets
\* that have been pushed are removed.
THEOREM NothingOrphaned == Spec => []NoOrphans
<1>1. SecretsInv => NoOrphans
  BY DEF SecretsInv, OwnedInv, NoOrphans, NoneOrphaned, Named, Undisturbed
<1> QED
  BY SecretsInvariant, <1>1, PTL

\* Whatever fails, dies or is pushed in between: no push deletes the value of a
\* secret that the function still names (storeSecretsPendingRemoval).
THEOREM PushSpares == Spec => PushSparesNames
<1>1. SecretsInv /\ [Next]_vars =>
        [command = "push" => (values[env] \ values'[env]) \cap local.names = {}]_vars
  <2> SUFFICES ASSUME SecretsInv, Next, command = "push"
      PROVE  (values[env] \ values'[env]) \cap local.names = {}
    BY DEF vars, project, cloud, process
  <2>1. env \in Env /\ values \in [Env -> SUBSET Secret]
    BY DEF SecretsInv, TypeOK
  <2>2. pc = "cloud" => deltas.remove \cap local.names = {}
    BY DEF SecretsInv, PushInv
  <2>3. CASE SyncCloud
    BY <2>1, <2>2, <2>3 DEF SyncCloud, Deleted
  <2>4. CASE SyncCloudFails
    BY <2>1, <2>2, <2>4 DEF SyncCloudFails, Deleted
  <2>5. CASE UNCHANGED values
    BY <2>5
  <2>6. ASSUME NEW e \in Env, RemoveEnv(e)
        PROVE  (values[env] \ values'[env]) \cap local.names = {}
    BY <2>1, <2>6 DEF RemoveEnv
  <2>7. SyncCloud \/ SyncCloudFails \/ UNCHANGED values \/ \E e \in Env : RemoveEnv(e)
    BY DEF Next, SyncTemplate, SyncNames, UpdateFunction, cloud,
           RemoveFunction, DeclineRemoval, RemovesSecrets, Push, StorePending, Publish, Fetch,
           NoChanges, Deploy, Move, Save, PushFails, ReturnsEarly, PushEnds,
       Elsewhere, Clean, Dies, Checkout, AddEnv
  <2> QED
    BY <2>3, <2>4, <2>5, <2>6, <2>7
<1> QED
  BY SecretsInvariant, <1>1, PTL DEF Spec, PushSparesNames
=============================================================================
