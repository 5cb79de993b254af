---------------------------- MODULE DeploymentPlan ----------------------------
(***************************************************************************)
(* The plan of an iterative deployment, and what comes of it: index changes*)
(* of the tables of a GraphQL API become a queue of templates for each     *)
(* nested stack (GraphQLResourceManager), the queues become steps, steps   *)
(* that disconnect functions from replaced tables are put in front         *)
(* (disconnect-dependent-resources), and the stacks are led through the    *)
(* steps and back.  A plan's positions are those of IterativeDeployment.   *)
(***************************************************************************)
EXTENDS Naturals, Sequences, FiniteSets, TLC

CONSTANTS
  Model,      \* models in both the deployed and the new API, a stack and a table each
  Index,      \* names of global secondary indexes
  Attr,       \* attributes
  TableKeys,  \* key schemas a table may have, as sets of attributes
  SortKeys,   \* sets of attributes its local secondary indexes may sort by
  IndexKeys,  \* key schemas that each global index may have
  Function,   \* functions of the project
  MAX_GSI_PER_TABLE

Absent == {}

ASSUME PlanAssumption ==
  /\ TableKeys \subseteq (SUBSET Attr) \ {{}} /\ SortKeys \subseteq SUBSET Attr
  /\ IndexKeys \in [Index -> SUBSET ((SUBSET Attr) \ {Absent})]
  /\ MAX_GSI_PER_TABLE \in Nat /\ IsFiniteSet(Index)
  /\ IsFiniteSet(Function) /\ "api" \notin Function

\* The global indexes of a table, with the keys of those there are.
Gsis == {g \in [Index -> SUBSET Attr] : \A i \in Index : g[i] \in IndexKeys[i] \cup {Absent}}

\* A table in a template: key attributes, those of local indexes, the global
\* indexes that there are, and AttributeDefinitions.
Table == [key : SUBSET Attr, lsi : SUBSET Attr, gsis : Gsis, defs : SUBSET Attr]

Dropped == [key |-> {}, lsi |-> {}, gsis |-> [i \in Index |-> Absent], defs |-> {}]

existingIndices(t) == {i \in Index : t.gsis[i] # Absent}
Used(t) == t.key \cup t.lsi \cup UNION {t.gsis[i] : i \in Index}

\* What the transformer generates.
Generated ==
  {[key |-> k, lsi |-> l, gsis |-> g, defs |-> k \cup l \cup UNION {g[i] : i \in Index}] :
     k \in TableKeys, l \in SortKeys, g \in Gsis}

VARIABLES
  current, next, \* the tables of the deployed templates and of the new ones
  rebuild,       \* rebuildAllTables
  dependent,     \* the functions that depend on replaced tables
  pc,            \* "gsi", "steps", "none", "deploying", "back" or "failed"
  todo,          \* index changes not planned yet, of each model
  templateState, \* the queue of templates of each stack
  steps,         \* deployments with their rollbacks
  at,            \* steps deployed
  api,           \* the tables of the API's stack
  connected      \* functions whose stack imports the tables

project  == <<current, next, rebuild, dependent>>
deployed == <<at, api, connected>>
vars     == <<project, pc, todo, templateState, steps, deployed>>

Replaced ==
  {m \in Model : rebuild \/ current[m].key # next[m].key \/ current[m].lsi # next[m].lsi}

\* Some of the functions, in the order of amplify-meta.json.
Orders ==
  {s \in UNION {[1..n -> Function] : n \in 0..Cardinality(Function)} :
     \A j, k \in DOMAIN s : s[j] = s[k] => j = k}

TypeOK ==
  /\ current \in [Model -> Table] /\ next \in [Model -> Table]
  /\ rebuild \in BOOLEAN /\ dependent \in Orders
  /\ pc \in {"gsi", "steps", "none", "deploying", "back", "failed"}
  /\ todo \in [Model -> SUBSET Index]
  /\ templateState \in [Model -> Seq(Table)]
  /\ at \in 0..Len(steps)
  /\ api \in [Model -> Table] /\ connected \subseteq Function

getGSIDiffs(m) ==
  IF rebuild THEN {} ELSE {i \in Index : current[m].gsis[i] # next[m].gsis[i]}

Init ==
  /\ current \in [Model -> {t \in Generated : Cardinality(existingIndices(t)) <= MAX_GSI_PER_TABLE}]
  /\ next \in [Model -> Generated]
  /\ rebuild \in BOOLEAN
  /\ dependent \in Orders /\ (Replaced = {} => dependent = <<>>)
  /\ pc = "gsi"
  /\ todo = [m \in Model |-> getGSIDiffs(m)]
  /\ templateState = [m \in Model |-> <<>>]
  /\ steps = <<>> /\ at = 0 /\ api = current /\ connected = Function

-----------------------------------------------------------------------------
(* dynamodb-gsi-helpers.ts *)

canAdd(i, t) == i \notin existingIndices(t) /\ Cardinality(existingIndices(t)) < MAX_GSI_PER_TABLE

addGSI(i, keys, t) == [t EXCEPT !.gsis[i] = keys, !.defs = @ \cup keys]

\* Mutant of removeGSI: attributes of other keys go, too.
removeGSIWithAttributes(i, t) == [t EXCEPT !.gsis[i] = Absent, !.defs = @ \ t.gsis[i]]

\* Attributes stay that the table's key or another global index uses.
removeGSI(i, t) ==
  LET kept == t.key \cup UNION {t.gsis[j] : j \in Index \ {i}}
  IN [t EXCEPT !.gsis[i] = Absent, !.defs = @ \ (t.gsis[i] \ kept)]

-----------------------------------------------------------------------------
(* gsiManagement: deletes, then adds, then updates *)

latest(m) ==
  LET queue == templateState[m] IN IF queue = <<>> THEN current[m] ELSE queue[Len(queue)]

ToRemove(m) == {i \in todo[m] : next[m].gsis[i] = Absent}
ToAdd(m)    == {i \in todo[m] : current[m].gsis[i] = Absent}

\* One table after the other.
InTurn(m) == pc = "gsi" /\ \A n \in Model \ {m} : todo[n] \in {getGSIDiffs(n), {}}

Plans(m, i, templates) ==
  /\ templateState' = [templateState EXCEPT ![m] = @ \o templates]
  /\ todo' = [todo EXCEPT ![m] = @ \ {i}]
  /\ UNCHANGED <<project, pc, steps, deployed>>

Delete(m, i) ==
  /\ InTurn(m) /\ i \in ToRemove(m)
  /\ Plans(m, i, <<removeGSI(i, latest(m))>>)

\* Mutant of AddComesNext: deletes come last.
AddComesFirst(m) == TRUE

AddComesNext(m) == ToRemove(m) = {}

Throws == pc' = "failed" /\ UNCHANGED <<project, todo, templateState, steps, deployed>>

Add(m, i) ==
  /\ InTurn(m) /\ i \in ToAdd(m) /\ AddComesNext(m)
  /\ IF canAdd(i, latest(m))
     THEN Plans(m, i, <<addGSI(i, next[m].gsis[i], latest(m))>>)
     ELSE Throws

\* Mutant of UpdatePlanned: one template for both.
UpdatePlannedAtOnce(m, i) ==
  <<addGSI(i, next[m].gsis[i], removeGSI(i, latest(m)))>>

UpdatePlanned(m, i) ==
  LET removed == removeGSI(i, latest(m))
  IN <<removed, addGSI(i, next[m].gsis[i], removed)>>

Update(m, i) ==
  /\ InTurn(m) /\ i \in todo[m] /\ ToRemove(m) = {} /\ ToAdd(m) = {}
  /\ IF canAdd(i, removeGSI(i, latest(m))) THEN Plans(m, i, UpdatePlanned(m, i)) ELSE Throws

\* tableRecreationManagement: a replaced table is dropped, whatever was planned.
Recreate ==
  /\ pc = "gsi" /\ \A m \in Model : todo[m] = {}
  /\ templateState' = [m \in Model |-> IF m \in Replaced THEN <<Dropped>> ELSE templateState[m]]
  /\ pc' = "steps"
  /\ UNCHANGED <<project, todo, steps, deployed>>

-----------------------------------------------------------------------------
(* getDeploymentSteps *)

None    == <<"none">>
Initial == <<"initial">>
Key(n)  == <<"states", n>>
FunctionKey(f) == <<"function", f>>

\* A deployment: where its meta file is, the key of the one before, its
\* template, and the tables to wait for.
ApiOp(key, previous, tables, waits) ==
  [key |-> key, previous |-> previous, stack |-> "api", tables |-> tables, tableNames |-> waits]

getCurrentlyDeployedStackStep == ApiOp(Initial, Initial, current, {})

Queued == {m \in Model : templateState[m] # <<>>}

\* Mutant of LastOp: every step starts from what was deployed at first.
LastOpInitial == getCurrentlyDeployedStackStep

LastOp == IF steps = <<>> THEN getCurrentlyDeployedStackStep ELSE steps[Len(steps)].deployment

\* Mutant of WaitedFor: the keys after the templates were popped.
WaitedForAfterwards == {m \in Model : Len(templateState[m]) > 1}

WaitedFor == Queued

BuildStep ==
  LET tables == [m \in Model |-> IF m \in Queued THEN Head(templateState[m]) ELSE LastOp.tables[m]]
  IN /\ pc = "steps" /\ Queued # {}
     /\ steps' = Append(steps,
          [deployment |-> ApiOp(Key(Len(steps) + 1), LastOp.key, tables, WaitedFor),
           rollback   |-> LastOp])
     /\ templateState' =
          [m \in Model |-> IF m \in Queued THEN Tail(templateState[m]) ELSE <<>>]
     /\ UNCHANGED <<project, pc, todo, deployed>>

-----------------------------------------------------------------------------
(* disconnect-dependent-resources, and the end of the plan in run() *)

FunctionOp(f, previous) ==
  [key |-> FunctionKey(f), previous |-> previous, stack |-> f, tables |-> <<>>, tableNames |-> {}]

\* generateIterativeFuncDeploymentSteps with the pointers that
\* prependDeploymentSteps moves: the first step gets those of the first of after.
DisconnectSteps(functions, after) ==
  [k \in 1..Len(functions) |->
     LET op(n) == FunctionOp(functions[n],
                    IF n = 1 THEN after[1].deployment.previous ELSE FunctionKey(functions[n - 1]))
     IN [deployment |-> op(k), rollback |-> IF k = 1 THEN after[1].rollback ELSE op(k - 1)]]

\* Mutant of Moved: previousMetaKey is left alone.
MovedRollbackOnly(before, after) ==
  [after EXCEPT ![1].rollback = before[Len(before)].deployment]

\* ... and the first of after gets those of the last one before it.
Moved(before, after) ==
  LET last  == before[Len(before)].deployment
      first == [deployment |-> [after[1].deployment EXCEPT !.previous = last.key],
                    rollback |-> last]
  IN [k \in 1..Len(after) |->
        IF k = 1 THEN first
        ELSE IF k = 2 THEN [after[2] EXCEPT !.rollback = first.deployment]
        ELSE after[k]]

prependDeploymentSteps(functions, after) ==
  IF functions = <<>>
  THEN after
  ELSE LET before == DisconnectSteps(functions, after) IN before \o Moved(before, after)

\* The last step deploys the whole project, and run() gives it no key.
FinalStep(before) ==
  [deployment |-> ApiOp(None, None, next, {}), rollback |-> before[Len(before)].deployment]

Start ==
  /\ pc = "steps" /\ Queued = {}
  /\ IF steps = <<>>
     THEN pc' = "none" /\ UNCHANGED steps
     ELSE LET planned == prependDeploymentSteps(dependent, steps)
          IN pc' = "deploying" /\ steps' = Append(planned, FinalStep(planned))
  /\ UNCHANGED <<project, todo, templateState, deployed>>

-----------------------------------------------------------------------------
(* The stacks, led through the steps and back *)

Applied(op) ==
  /\ api' = IF op.stack = "api" THEN op.tables ELSE api
  /\ connected' = connected \ {op.stack}

\* The S3DeploymentRootKey that the API's stack has as a parameter: the last
\* push's until a step of the API is deployed.
deployedKey == IF at <= Len(dependent) THEN <<"deployed">> ELSE steps[at].deployment.key

\* An operation of the API carries its own key besides its templates, the one
\* back to the initial templates too; a function's temporary template has one
\* place and the same parameters each time.
Changes(op) ==
  IF op.stack = "api" THEN op.key # deployedKey \/ op.tables # api ELSE op.stack \in connected

\* Mutant of Deploy: the index advances twice.
DeployOneOfTwo ==
  /\ pc = "deploying" /\ at < Len(steps)
  /\ Applied(steps[at + 1].deployment)
  /\ at' = at + 2
  /\ UNCHANGED <<project, pc, todo, templateState, steps>>

Deploy ==
  /\ pc = "deploying" /\ at < Len(steps)
  /\ Applied(steps[at + 1].deployment)
  /\ at' = at + 1
  /\ UNCHANGED <<project, pc, todo, templateState, steps>>

\* A step fails, and CloudFormation undoes it.
Fail ==
  /\ pc = "deploying" /\ at < Len(steps)
  /\ pc' = "back"
  /\ UNCHANGED <<project, todo, templateState, steps, deployed>>

\* An update that changes nothing is refused, which fails the rollback.
RollBack ==
  /\ pc = "back" /\ at > 0
  /\ IF Changes(steps[at].rollback)
     THEN Applied(steps[at].rollback) /\ at' = at - 1 /\ UNCHANGED pc
     ELSE pc' = "failed" /\ UNCHANGED deployed
  /\ UNCHANGED <<project, todo, templateState, steps>>

Next ==
  \/ \E m \in Model, i \in Index : Delete(m, i) \/ Add(m, i) \/ Update(m, i)
  \/ Recreate \/ BuildStep \/ Start \/ Deploy \/ Fail \/ RollBack

Spec == Init /\ [][Next]_vars

Symmetry == Permutations(Model)

-----------------------------------------------------------------------------
(* Properties *)

IndexChanges(t, u) == {i \in Index : t.gsis[i] # u.gsis[i]}

\* No update, forward or back, creates or deletes more than one index of a table
\* that stays, nor replaces one.
OneIndexChange(t, u) ==
  t # Dropped /\ u # Dropped =>
    /\ t.key = u.key /\ t.lsi = u.lsi
    /\ \A i, j \in IndexChanges(t, u) : i = j
    /\ \A i \in IndexChanges(t, u) : Absent \in {t.gsis[i], u.gsis[i]}

OneIndexAtATime == [][\A m \in Model : OneIndexChange(api[m], api'[m])]_vars

\* A template defines the attributes that it uses as keys, and no others.
AttributesMatch == \A m \in Model : api[m].defs = Used(api[m])

\* ... unless a key of a local index is also one of a global index.
LsiApart(t) == t.lsi \cap UNION {t.gsis[i] : i \in Index} \subseteq t.key
AttributesDefined == (\A m \in Model : LsiApart(current[m])) => AttributesMatch

\* The planner finds an index missing or one too many only when the new API has
\* more of them than a table may have.
ThrowsForTooMany ==
  pc = "failed" /\ at = 0 /\ steps = <<>> =>
    \E m \in Model : Cardinality(existingIndices(next[m])) > MAX_GSI_PER_TABLE

\* What a process that takes over loads, by the key recorded for a step, is what
\* the process that planned it would have gone back to.
KeysNameRollbacks ==
  pc \in {"deploying", "back"} =>
    \A k \in 1..Len(steps) - 1 : steps[k].deployment.previous = steps[k].rollback.key

\* What has been deployed when so many steps have.
ApiAt(k) ==
  LET last[n \in 0..Len(steps)] ==
        IF n = 0 THEN current
        ELSE IF steps[n].deployment.stack = "api" THEN steps[n].deployment.tables ELSE last[n - 1]
  IN last[k]

\* A rollback leads from each position to the one before it, and is not refused.
RollbackUndoes ==
  pc = "back" /\ at > 0 => Changes(steps[at].rollback) /\ steps[at].rollback.tables = ApiAt(at - 1)

\* ... if no function had to be disconnected.
RollbackUndoesTables == dependent = <<>> => RollbackUndoes

\* An update of the API that another update follows, forward or back, waits for
\* every table that it changes.  The plan's last step waits for none, and neither
\* does the rollback of the first: nothing of the plan follows them.
ChangesAwaited ==
  pc \in {"deploying", "back"} =>
    \A k \in {n \in 1..Len(steps) - 1 : steps[n].deployment.stack = "api"} :
      LET changed == {m \in Model : steps[k].deployment.tables[m] # ApiAt(k - 1)[m]}
      IN /\ changed \subseteq steps[k].deployment.tableNames
         /\ k > 1 /\ steps[k].rollback.stack = "api" =>
              changed \subseteq steps[k].rollback.tableNames
=============================================================================
