---------------------------- MODULE FunctionSecrets ----------------------------
(***************************************************************************)
(* The secrets of a Lambda function, over the commands of one developer:   *)
(* their values live in the SSM Parameter Store of each environment, their *)
(* names in a parameters file and a template in the project, in the local  *)
(* copy of the current cloud backend and in its archive in S3, and what the*)
(* function reads in the deployed stack.  Names go first, values after the *)
(* push (functionSecretsStateManager.ts and the commands that call it).    *)
(***************************************************************************)
EXTENDS TLC

CONSTANTS
  Env,        \* environments of the project
  FirstEnv,   \* the one it starts with
  Secret,     \* names of secrets
  WindowSets  \* sets of the following that may happen in one behaviour

Windows ==
  {"dies",       \* a process ends, killed or by a failing call, between two steps
   "torn",       \* ... between the writing of the template and of the names
   "unrecorded", \* ... between the deployment and its record
   "partial",    \* a push finds some of the function's values missing
   "publish",    \* amplify publish pushes
   "refused",    \* a push returns before it deploys, as if it had done so
   "elsewhere",  \* push --env: the environment is switched after the prePush event
   "declined",   \* amplify remove function is called and not confirmed, or fails
   "undone",     \* a secret is removed that was added since the last push
   "leaving"}    \* another environment or backend is checked out with such a secret

ASSUME SecretsAssumption ==
  FirstEnv \in Env /\ WindowSets \subseteq SUBSET Windows

VARIABLES
  windows,  \* those of this behaviour
  env,      \* the environment checked out
  made,     \* the environments there are
  local,    \* the function in amplify/backend
  current,  \* in amplify/#current-cloud-backend
  record,   \* in the #current-cloud-backend.zip of each environment
  stack,    \* the secrets that the deployed function of each environment reads
  values,   \* the secrets that have a value in each environment
  pc, command, \* the process: its next step, and "function", "push", "publish" or "none"
  deltas,   \* secretDeltas of syncSecretDeltas, by operation
  after,    \* where it returns
  pending   \* secretsPendingRemoval

project == <<env, made>>
cloud   == <<record, stack, values>>
process == <<pc, command, deltas, after, pending>>
vars    == <<windows, project, local, current, cloud, process>>

\* A function: whether it is there, its secretNames and its template's variables.
Function == [has : BOOLEAN, names : SUBSET Secret, reads : SUBSET Secret]
Absent   == [has |-> FALSE, names |-> {}, reads |-> {}]
Functions == {f \in Function : f.has \/ f = Absent}

Deltas   == [set : SUBSET Secret, retain : SUBSET Secret, remove : SUBSET Secret]
NoDeltas == [set |-> {}, retain |-> {}, remove |-> {}]

Steps == {"idle", "cloud", "template", "names", "store", "fetch", "deploy", "move", "save", "clean"}

TypeOK ==
  /\ windows \in WindowSets /\ env \in made /\ made \subseteq Env
  /\ local \in Functions /\ current \in Functions /\ record \in [Env -> Functions]
  /\ stack \in [Env -> SUBSET Secret] /\ values \in [Env -> SUBSET Secret]
  /\ pc \in Steps /\ command \in {"none", "function", "push", "publish"}
  /\ deltas \in Deltas /\ after \in {"idle", "store"} /\ pending \subseteq Secret

Init ==
  /\ windows \in WindowSets
  /\ env = FirstEnv /\ made = {FirstEnv}
  /\ local = Absent /\ current = Absent /\ record = [e \in Env |-> Absent]
  /\ stack = [e \in Env |-> {}] /\ values = [e \in Env |-> {}]
  /\ pc = "idle" /\ command = "none" /\ deltas = NoDeltas /\ after = "idle"
  /\ pending = {}

\* Values that no deployment has recorded.
Unpushed(e) == values[e] \ record[e].names

\* A process ends, and its memory with it.
Ends ==
  /\ pc' = "idle" /\ command' = "none"
  /\ deltas' = NoDeltas /\ after' = "idle" /\ pending' = {}

-----------------------------------------------------------------------------
(* syncSecretDeltas *)

StartsSync(d, return) == pc' = "cloud" /\ deltas' = d /\ after' = return

isFunctionPushed == current.has

\* Mutant of doRemoveSecretsInCloud: it is not asked.
doRemoveSecretsInCloudAlways == TRUE

doRemoveSecretsInCloud == ~isFunctionPushed \/ command = "push"

Deleted == IF doRemoveSecretsInCloud THEN deltas.remove ELSE {}

\* The calls of the Parameter Store all succeed.
SyncCloud ==
  /\ pc = "cloud"
  /\ values' = [values EXCEPT ![env] = (@ \cup deltas.set) \ Deleted]
  /\ pc' = "template"
  /\ UNCHANGED <<windows, project, local, current, record, stack, command, deltas, after, pending>>

\* One of them fails, or the process dies, when some have been answered.
SyncCloudFails ==
  /\ pc = "cloud" /\ "dies" \in windows
  /\ \E set \in SUBSET deltas.set, delete \in SUBSET Deleted :
       values' = [values EXCEPT ![env] = (@ \cup set) \ delete]
  /\ Ends
  /\ UNCHANGED <<windows, project, local, current, record, stack>>

SyncTemplate ==
  /\ pc = "template"
  /\ local' = IF local.has
              THEN [local EXCEPT !.reads = (@ \ deltas.remove) \cup deltas.set \cup deltas.retain]
              ELSE local
  /\ pc' = "names"
  /\ UNCHANGED <<windows, project, current, cloud, command, deltas, after, pending>>

\* setLocalFunctionSecretState knows no names but those of the deltas.
SyncNames ==
  /\ pc = "names"
  /\ local' = IF local.has THEN [local EXCEPT !.names = deltas.set \cup deltas.retain] ELSE local
  /\ IF after = "idle"
     THEN Ends
     ELSE pc' = after /\ deltas' = NoDeltas /\ after' = "idle" /\ UNCHANGED <<command, pending>>
  /\ UNCHANGED <<windows, project, current, cloud>>

-----------------------------------------------------------------------------
(* amplify add, update and remove function *)

\* The walkthrough starts from the local names and may set and remove any.
UpdateFunction(set, remove) ==
  /\ pc = "idle"
  /\ remove \subseteq local.names \ set
  /\ local.has => set \cup remove # {}
  /\ isFunctionPushed /\ ~(remove \subseteq current.names) => "undone" \in windows
  /\ local' = [local EXCEPT !.has = TRUE]
  /\ command' = "function"
  /\ StartsSync([set |-> set, retain |-> local.names \ (set \cup remove), remove |-> remove], "idle")
  /\ UNCHANGED <<windows, project, current, cloud, pending>>

\* Mutant of Gone: only the metadata is deleted.
GoneFromMeta == [local EXCEPT !.has = FALSE]

Gone == Absent

\* What follows removeResource, whatever has become of it.
RemovesSecrets ==
  /\ IF ~isFunctionPushed /\ local.names # {}
     THEN StartsSync([NoDeltas EXCEPT !.remove = values[env]], "idle") /\ command' = "function"
     ELSE UNCHANGED <<pc, deltas, after, command>>
  /\ UNCHANGED <<windows, project, current, cloud, pending>>

RemoveFunction ==
  /\ pc = "idle" /\ local.has
  /\ isFunctionPushed /\ ~(local.names \subseteq current.names) => "undone" \in windows
  /\ local' = Gone
  /\ RemovesSecrets

DeclineRemoval ==
  /\ pc = "idle" /\ local.has /\ "declined" \in windows
  /\ RemovesSecrets
  /\ UNCHANGED local

-----------------------------------------------------------------------------
(* amplify push and publish *)

\* The prePush event: ensureNewLocalSecretsSyncedToCloud asks for missing
\* values (or throws, when nobody can be asked).
Push ==
  LET added == local.names \ values[env]
  IN /\ pc = "idle"
     /\ added \in {{}, local.names} \/ "partial" \in windows
     /\ command' = "push" /\ pending' = {}
     /\ IF added = {}
        THEN pc' = "store" /\ UNCHANGED <<deltas, after>>
        ELSE StartsSync([NoDeltas EXCEPT !.set = added], "store")
     /\ UNCHANGED <<windows, project, local, current, cloud>>

\* Mutants of Removed: the names still in use are not left out; nothing is kept.
RemovedOrNot == current.names
RemovedNone == {}

Removed == current.names \ local.names

\* storeSecretsPendingRemoval looks at the local copy, before it is renewed.
StorePending ==
  /\ pc = "store"
  /\ pending' = Removed
  /\ pc' = "fetch"
  /\ UNCHANGED <<windows, project, local, current, cloud, command, deltas, after>>

\* publish calls the same command, but its name raises no events.
Publish ==
  /\ pc = "idle" /\ "publish" \in windows
  /\ command' = "publish" /\ pending' = {} /\ pc' = "fetch"
  /\ UNCHANGED <<windows, project, local, current, cloud, deltas, after>>

\* syncCurrentCloudBackend
Fetch ==
  /\ pc = "fetch"
  /\ current' = record[env]
  /\ pc' = "deploy"
  /\ UNCHANGED <<windows, project, local, cloud, command, deltas, after, pending>>

PushEnds ==
  IF command = "push"
  THEN pc' = "clean" /\ UNCHANGED <<command, deltas, after, pending>>
  ELSE Ends

NoChanges ==
  /\ pc = "deploy" /\ local = current
  /\ PushEnds
  /\ UNCHANGED <<windows, project, local, current, cloud>>

\* The provider's run() returns without a deployment, when it refuses the push
\* for one in progress or has done an --iterative-rollback; nothing tells the
\* postPush event that nothing was deployed.
ReturnsEarly ==
  /\ pc = "deploy" /\ "refused" \in windows
  /\ PushEnds
  /\ UNCHANGED <<windows, project, local, current, cloud>>

\* pushResources checks out the environment of --env, and fetches its record,
\* when the prePush event has looked at the one before.
Elsewhere(e) ==
  /\ pc = "deploy" /\ "elsewhere" \in windows /\ e \in made \ {env}
  /\ env' = e /\ current' = record[e]
  /\ UNCHANGED <<windows, made, local, cloud, process>>

Deploy ==
  /\ pc = "deploy"
  /\ stack' = [stack EXCEPT ![env] = local.reads]
  /\ pc' = "move"
  /\ UNCHANGED <<windows, project, local, current, record, values, command, deltas, after, pending>>

\* updateamplifyMetaAfterPush, and storeCurrentCloudBackend.
Move ==
  /\ pc = "move"
  /\ current' = local
  /\ pc' = "save"
  /\ UNCHANGED <<windows, project, local, cloud, command, deltas, after, pending>>

Save ==
  /\ pc = "save"
  /\ record' = [record EXCEPT ![env] = current]
  /\ PushEnds
  /\ UNCHANGED <<windows, project, local, current, stack, values>>

\* The deployment, or what comes before it, throws, or the push is declined:
\* the process ends without the postPush event.
PushFails ==
  /\ pc \in {"store", "fetch", "deploy"}
  /\ Ends
  /\ UNCHANGED <<windows, project, local, current, cloud>>

\* The postPush event: syncSecretsPendingRemoval.
Clean ==
  /\ pc = "clean"
  /\ IF pending = {}
     THEN Ends
     ELSE /\ StartsSync([set |-> {}, retain |-> local.names \ pending, remove |-> pending], "idle")
          /\ UNCHANGED <<command, pending>>
  /\ UNCHANGED <<windows, project, local, current, cloud>>

Dies ==
  /\ pc \notin {"idle", "cloud"} /\ "dies" \in windows
  /\ pc = "names" => "torn" \in windows
  /\ pc \in {"move", "save"} => "unrecorded" \in windows
  /\ Ends
  /\ UNCHANGED <<windows, project, local, current, cloud>>

-----------------------------------------------------------------------------
(* Environments *)

\* env checkout and pull, which may restore the backend.
Checkout(e, restore) ==
  /\ pc = "idle" /\ e \in made
  /\ Unpushed(env) # {} => "leaving" \in windows
  /\ env' = e
  /\ current' = record[e]
  /\ local' = IF restore THEN record[e] ELSE local
  /\ UNCHANGED <<windows, made, cloud, process>>

\* env add, with the values of the present environment carried over.
AddEnv(e) ==
  /\ pc = "idle" /\ e \notin made
  /\ Unpushed(env) # {} => "leaving" \in windows
  /\ env' = e /\ made' = made \cup {e}
  /\ current' = Absent
  /\ IF local.names = {}
     THEN UNCHANGED <<pc, deltas, after, command>>
     ELSE /\ StartsSync([set |-> values[env], retain |-> local.names \ values[env], remove |-> {}], "idle")
          /\ command' = "function"
  /\ UNCHANGED <<windows, local, cloud, pending>>

\* env remove: the stack goes first, then the values under the environment's
\* prefix.  One that ends in between is left out.
RemoveEnv(e) ==
  /\ pc = "idle" /\ e \in made \ {env}
  /\ made' = made \ {e}
  /\ record' = [record EXCEPT ![e] = Absent]
  /\ stack' = [stack EXCEPT ![e] = {}]
  /\ values' = [values EXCEPT ![e] = {}]
  /\ UNCHANGED <<windows, env, local, current, process>>

Next ==
  \/ SyncCloud \/ SyncCloudFails \/ SyncTemplate \/ SyncNames
  \/ \E set, remove \in SUBSET Secret : UpdateFunction(set, remove)
  \/ RemoveFunction \/ DeclineRemoval
  \/ Push \/ StorePending \/ Publish \/ Fetch \/ NoChanges \/ Deploy \/ Move \/ Save
  \/ ReturnsEarly \/ PushFails \/ Clean \/ Dies
  \/ \E e \in Env, restore \in BOOLEAN : Checkout(e, restore)
  \/ \E e \in Env : AddEnv(e) \/ RemoveEnv(e) \/ Elsewhere(e)

Spec == Init /\ [][Next]_vars

Symmetry == Permutations(Secret)

-----------------------------------------------------------------------------
(* Properties *)

Calm ==
  windows \cap
    {"torn", "unrecorded", "partial", "publish", "refused", "elsewhere", "declined"} = {}

ReadsExist == \A e \in Env : stack[e] \subseteq values[e]

\* What a deployed function reads has a value, in every environment and at every
\* step of every command, even if processes die in most places, and if a push
\* that deploys nothing says so and goes where its prePush event looked.
DeployedHaveValues == Calm => ReadsExist

\* With no command under way a value is that of a secret that the function has,
\* or that the last push has recorded, so that the next one may delete it.
Named(e) == record[e].names \cup (IF e = env THEN local.names ELSE {})
NoneOrphaned == pc = "idle" => \A e \in Env : values[e] \subseteq Named(e)

Undisturbed == windows \subseteq {"refused", "declined"}

\* Values do not outlive their names, if processes run to their ends, pushes
\* stay in their environment and only secrets that have been pushed are removed.
NoOrphans == Undisturbed => NoneOrphaned

\* A push deletes no value of a secret that the function still names.
PushSparesNames ==
  [][command = "push" => (values[env] \ values'[env]) \cap local.names = {}]_vars

-----------------------------------------------------------------------------
(* Why they hold: what a push may delete is what the function does not name,*)
(* the template reads what is named, and the local copy tells what is       *)
(* deployed.                                                                *)

\* Whatever happens: what a push is going to delete.
PushInv ==
  /\ pc = "store" => command = "push"
  /\ pc \in {"fetch", "deploy", "move", "save", "clean"} => pending \cap local.names = {}
  /\ command = "push" /\ pc = "cloud" => deltas.remove \cap local.names = {}
  /\ after = "store" => command = "push" /\ pc \in {"cloud", "template", "names"}
\* In a calm behaviour.
NamedInv ==
  /\ pc # "names" => local.reads \subseteq local.names
  /\ pc \in {"cloud", "template"} =>
       local.names \subseteq deltas.set \cup deltas.retain \cup deltas.remove
  /\ pc = "names" => local.reads \subseteq deltas.set \cup deltas.retain
  /\ \A e \in Env : record[e].reads \subseteq record[e].names
  /\ pc = "clean" => local = record[env]

\* Where every deployment gets recorded: where the record, the local copy and
\* the stack may differ.
RecordedInv ==
  /\ IF pc = "save" THEN current = local ELSE current = record[env]
  /\ \A e \in Env \ made : record[e] = Absent
  /\ \A e \in Env :
       stack[e] = IF pc \in {"move", "save"} /\ e = env THEN local.reads ELSE record[e].reads

ValuesInv ==
  /\ \A e \in Env : record[e].reads \subseteq values[e]
  /\ pc \in {"store", "fetch", "deploy", "move", "save"} => local.names \subseteq values[env]
  /\ after = "store" => deltas.retain \cup deltas.remove = {}
  /\ after = "store" /\ pc \in {"template", "names"} => deltas.set \subseteq values[env]
  /\ command = "push" /\ pc = "cloud" => deltas.remove \cap record[env].reads = {}

\* In an undisturbed behaviour, where a value is that of a known name, one that
\* the command is about to write, or one that it is about to delete.
OwnedInv ==
  /\ \A e \in Env \ {env} : values[e] \subseteq record[e].names
  /\ pc \in {"idle", "store", "fetch", "deploy", "move", "save"} =>
       values[env] \subseteq record[env].names \cup local.names
  /\ pc \in {"fetch", "deploy", "move", "save", "clean"} => command = "push"
  /\ pc \in {"fetch", "deploy", "move", "save"} => record[env].names \ local.names \subseteq pending
  /\ pc = "clean" => values[env] \subseteq local.names \cup pending
  /\ pc = "cloud" =>
       values[env] \ Deleted \subseteq record[env].names \cup deltas.set \cup deltas.retain
  /\ pc \in {"template", "names"} =>
       values[env] \subseteq record[env].names \cup deltas.set \cup deltas.retain
  /\ pc \in {"cloud", "template", "names"} /\ ~local.has => deltas.set \cup deltas.retain = {}

SecretsInv ==
  /\ TypeOK /\ PushInv
  /\ "unrecorded" \notin windows => RecordedInv
  /\ Calm => NamedInv /\ ValuesInv
  /\ Undisturbed => OwnedInv
=============================================================================
