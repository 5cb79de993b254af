------------------------- MODULE DeploymentPlanProofs -------------------------
(***************************************************************************)
(* PlanInv is an invariant of DeploymentPlan: each template of a table's   *)
(* queue is one index change away from the one before it, what is left to  *)
(* plan is what still differs from the new API, and the steps, before and  *)
(* after those of the functions are put in front, are a chain of such      *)
(* templates that the rollbacks lead back along.                           *)
(***************************************************************************)
EXTENDS DeploymentPlan, SequenceTheorems, FiniteSetTheorems, WellFoundedInduction, TLAPS

Keys == {None, Initial} \cup {Key(n) : n \in Nat} \cup {FunctionKey(f) : f \in Function}

ApiOps ==
  [key : Keys, previous : Keys, stack : {"api"}, tables : [Model -> Table],
   tableNames : SUBSET Model]

FunctionOps ==
  [key : Keys, previous : Keys, stack : Function, tables : {<<>>}, tableNames : {{}}]

Step == [deployment : ApiOps \cup FunctionOps, rollback : ApiOps \cup FunctionOps]

\* In the following, c are the templates deployed at first.
\* What the templates of a plan owe to the condition of AttributesDefined.
Defines(c, t) == (\A m \in Model : LsiApart(c[m])) => t.defs = Used(t)

\* Template u may come after t in the queue of a table.
MayFollow(c, t, u) == t # u /\ OneIndexChange(t, u) /\ Defines(c, u)

\* The last template of a queue that begins after t.
LastOf(q, t) == IF q = <<>> THEN t ELSE q[Len(q)]

Queue(c, q, t) ==
  \A k \in 1..Len(q) : MayFollow(c, IF k = 1 THEN t ELSE q[k - 1], q[k])

\* While index changes are planned: what is not left to do is done.
Planning(m) ==
  /\ todo[m] \subseteq getGSIDiffs(m)
  /\ latest(m).key = current[m].key /\ latest(m).lsi = current[m].lsi
  /\ rebuild => templateState[m] = <<>>
  /\ ~rebuild => \A i \in Index :
       latest(m).gsis[i] = IF i \in todo[m] THEN current[m].gsis[i] ELSE next[m].gsis[i]
  /\ Queue(current, templateState[m], current[m])

\* The templates before step k of a plan s that has d steps of functions.
TablesBefore(c, s, d, k) == IF k = d + 1 THEN c ELSE s[k - 1].deployment.tables

\* Step k is a step of the API: it changes a table, each by one index, and it and
\* the step before it wait for those it changes.
ApiStep(c, s, d, k) ==
  LET op == s[k].deployment
      before == TablesBefore(c, s, d, k)
  IN /\ op \in ApiOps /\ op.tables # before
     /\ \A m \in Model :
          /\ OneIndexChange(before[m], op.tables[m]) /\ Defines(c, op.tables[m])
          /\ op.tables[m] # before[m] =>
               /\ m \in op.tableNames
               /\ k # d + 1 => m \in s[k - 1].deployment.tableNames

\* A step is rolled back to the one before it, whose key it carries if k <= n.
Linked(c, s, n) ==
  \A k \in 1..Len(s) :
    /\ s[k].rollback = IF k = 1 THEN ApiOp(Initial, Initial, c, {}) ELSE s[k - 1].deployment
    /\ k <= n => s[k].deployment.previous = s[k].rollback.key

AtRest == at = 0 /\ api = current /\ connected = Function

\* While the queues are popped: what is left of each goes on from the last step
\* to the new API.
Popping ==
  /\ Linked(current, steps, Len(steps))
  /\ \A k \in 1..Len(steps) : ApiStep(current, steps, 0, k)
  /\ steps # <<>> => Queued \subseteq LastOp.tableNames
  /\ \A m \in Model :
       /\ Queue(current, templateState[m], LastOp.tables[m])
       /\ OneIndexChange(LastOf(templateState[m], LastOp.tables[m]), next[m])

\* While the stacks are led through the steps, of which d are the functions'.
Leading ==
  LET d == Len(dependent)
      n == Len(steps)
  IN /\ d + 2 <= n /\ Linked(current, steps, n - 1)
     /\ \A k \in 1..d : steps[k].deployment.stack = dependent[k]
     /\ \A k \in d + 1..n - 1 : ApiStep(current, steps, d, k)
     /\ steps[n].deployment.stack = "api" /\ steps[n].deployment.tables = next
     /\ \A m \in Model : OneIndexChange(steps[n - 1].deployment.tables[m], next[m])
     /\ api = IF at <= d THEN current ELSE steps[at].deployment.tables
     /\ \A k \in 1..d : k <= at => dependent[k] \notin connected
     /\ pc = "back" => at < n

TooMany == \E m \in Model : Cardinality(existingIndices(next[m])) > MAX_GSI_PER_TABLE

PlanInv ==
  /\ TypeOK /\ steps \in Seq(Step)
  /\ \A m \in Model : current[m] \in Generated /\ next[m] \in Generated /\ Defines(current, api[m])
  /\ pc = "gsi" => AtRest /\ steps = <<>> /\ \A m \in Model : Planning(m)
  /\ pc = "steps" => AtRest /\ Popping
  /\ pc \in {"deploying", "back"} => Leading
  /\ pc = "failed" => steps # <<>> \/ TooMany

-----------------------------------------------------------------------------
(* Tables *)

\* What the transformer generates is a table with a key that defines what it uses.
LEMMA GeneratedFacts ==
  ASSUME NEW t \in Generated
  PROVE  t \in Table /\ t.key # {} /\ t.defs = Used(t)
<1>1. PICK k \in TableKeys, l \in SortKeys, g \in Gsis :
        t = [key |-> k, lsi |-> l, gsis |-> g, defs |-> k \cup l \cup UNION {g[i] : i \in Index}]
  BY DEF Generated
<1>2. \A i \in Index : g[i] \subseteq Attr
  BY PlanAssumption DEF Gsis, Absent
<1>3. UNION {g[i] : i \in Index} \subseteq Attr
  BY <1>2
<1>4. k \subseteq Attr /\ l \subseteq Attr /\ k # {}
  BY PlanAssumption
<1>5. t \in Table /\ t.key # {}
  BY <1>1, <1>3, <1>4 DEF Table
<1>6. t.key = k /\ t.lsi = l /\ t.gsis = g
      /\ t.defs = k \cup l \cup UNION {g[i] : i \in Index}
  BY <1>1
<1>7. t.defs = Used(t)
  BY <1>6, Zenon DEF Used
<1> QED BY <1>5, <1>7

\* addGSI gives the table the index and defines its keys; removeGSI takes the
\* index away.  Neither touches anything else but the definitions.
LEMMA AddFacts ==
  ASSUME NEW t \in Table, NEW i \in Index, NEW keys \in IndexKeys[i]
  PROVE  LET u == addGSI(i, keys, t)
         IN /\ u \in Table /\ u.key = t.key /\ u.lsi = t.lsi
            /\ \A j \in Index : u.gsis[j] = IF j = i THEN keys ELSE t.gsis[j]
            /\ u.defs = t.defs \cup keys
<1>1. t.gsis \in [Index -> SUBSET Attr] /\ \A j \in Index : t.gsis[j] \in IndexKeys[j] \cup {Absent}
  BY DEF Table, Gsis
<1>2. keys \subseteq Attr
  BY PlanAssumption
<1>3. [t.gsis EXCEPT ![i] = keys] \in Gsis
  BY <1>1, <1>2 DEF Gsis
<1> QED BY <1>1, <1>2, <1>3 DEF addGSI, Table

LEMMA RemoveFacts ==
  ASSUME NEW t \in Table, NEW i \in Index
  PROVE  LET u == removeGSI(i, t)
         IN /\ u \in Table /\ u.key = t.key /\ u.lsi = t.lsi
            /\ \A j \in Index : u.gsis[j] = IF j = i THEN Absent ELSE t.gsis[j]
            /\ u.defs = t.defs \ (t.gsis[i] \ (t.key \cup UNION {t.gsis[j] : j \in Index \ {i}}))
<1>1. t.gsis \in [Index -> SUBSET Attr] /\ \A j \in Index : t.gsis[j] \in IndexKeys[j] \cup {Absent}
  BY DEF Table, Gsis
<1>3. [t.gsis EXCEPT ![i] = Absent] \in Gsis
  BY <1>1 DEF Gsis, Absent
<1> DEFINE gone == t.gsis[i] \ (t.key \cup UNION {t.gsis[j] : j \in Index \ {i}})
           u == [t EXCEPT !.gsis[i] = Absent, !.defs = @ \ gone]
<1>4. removeGSI(i, t) = u
  BY DEF removeGSI
<1> HIDE DEF gone
<1>5. /\ u \in Table /\ u.key = t.key /\ u.lsi = t.lsi
      /\ \A j \in Index : u.gsis[j] = IF j = i THEN Absent ELSE t.gsis[j]
      /\ u.defs = t.defs \ gone
  BY <1>1, <1>3 DEF Table
<1> QED BY <1>4, <1>5 DEF gone

-----------------------------------------------------------------------------
(* Queues *)

\* A template that may follow the last one makes a queue longer.
LEMMA QueueGrows ==
  ASSUME NEW c, NEW t \in Table, NEW q \in Seq(Table), NEW u \in Table,
         Queue(c, q, t), MayFollow(c, LastOf(q, t), u)
  PROVE  /\ q \o <<u>> \in Seq(Table) /\ q \o <<u>> # <<>>
         /\ LastOf(q \o <<u>>, t) = u
         /\ Queue(c, q \o <<u>>, t)
<1> DEFINE r == q \o <<u>>
<1>1. /\ r \in Seq(Table) /\ Len(r) = Len(q) + 1 /\ r[Len(q) + 1] = u
      /\ \A k \in 1..Len(q) : r[k] = q[k]
  OBVIOUS
<1>2. Len(q) \in Nat /\ (q = <<>> <=> Len(q) = 0)
  OBVIOUS
<1> HIDE DEF r
<1>3. r # <<>> /\ LastOf(r, t) = u
  BY <1>1, <1>2 DEF LastOf
<1>4. ASSUME NEW k \in 1..Len(r)
      PROVE  MayFollow(c, IF k = 1 THEN t ELSE r[k - 1], r[k])
  <2>1. CASE k \in 1..Len(q)
    <3>1. MayFollow(c, IF k = 1 THEN t ELSE q[k - 1], q[k])
      BY <2>1 DEF Queue
    <3>2. k # 1 => r[k - 1] = q[k - 1]
      BY <2>1, <1>1, <1>2
    <3> QED BY <3>1, <3>2, <2>1, <1>1
  <2>2. CASE k = Len(q) + 1
    <3>1. (IF k = 1 THEN t ELSE r[k - 1]) = LastOf(q, t)
      BY <2>2, <1>1, <1>2 DEF LastOf
    <3> QED BY <3>1, <2>2, <1>1
  <2> QED BY <2>1, <2>2, <1>1, <1>2
<1>5. Queue(c, r, t)
  BY <1>4 DEF Queue
<1> QED BY <1>1, <1>3, <1>5 DEF r

\* The last template of a queue defines what it owes, if the one before it does.
LEMMA LastDefines ==
  ASSUME NEW c, NEW t \in Table, NEW q \in Seq(Table), Queue(c, q, t), Defines(c, t)
  PROVE  LastOf(q, t) \in Table /\ Defines(c, LastOf(q, t))
<1>1. CASE q = <<>>
  BY <1>1 DEF LastOf
<1>2. CASE q # <<>>
  <2>1. Len(q) \in 1..Len(q) /\ q[Len(q)] \in Table
    BY <1>2
  <2>2. MayFollow(c, IF Len(q) = 1 THEN t ELSE q[Len(q) - 1], q[Len(q)])
    BY <2>1 DEF Queue
  <2> QED BY <1>2, <2>1, <2>2 DEF LastOf, MayFollow
<1> QED BY <1>1, <1>2

\* The index of a table that was deployed with it may be taken away: what local
\* indexes sort by is among the table's key, or is not this index's.
LEMMA RemovedFollows ==
  ASSUME NEW c, NEW m \in Model, NEW t \in Table, NEW i \in Index, Defines(c, t),
         t.gsis[i] # Absent, t.gsis[i] = c[m].gsis[i], t.key = c[m].key, t.lsi = c[m].lsi
  PROVE  MayFollow(c, t, removeGSI(i, t))
<1> DEFINE u == removeGSI(i, t)
           others == UNION {t.gsis[j] : j \in Index \ {i}}
<1>1. /\ u \in Table /\ u.key = t.key /\ u.lsi = t.lsi
      /\ \A j \in Index : u.gsis[j] = IF j = i THEN Absent ELSE t.gsis[j]
      /\ u.defs = t.defs \ (t.gsis[i] \ (t.key \cup others))
  BY RemoveFacts
<1> HIDE DEF u
<1>2. t # u
  BY <1>1
<1>3. OneIndexChange(t, u)
  BY <1>1 DEF OneIndexChange, IndexChanges
<1>4. UNION {u.gsis[j] : j \in Index} = others
  <2>1. \A j \in Index : u.gsis[j] = IF j = i THEN Absent ELSE t.gsis[j]
    BY <1>1
  <2> QED BY <2>1 DEF Absent
<1>5. UNION {t.gsis[j] : j \in Index} = others \cup t.gsis[i]
  OBVIOUS
<1>6. Used(u) = t.key \cup t.lsi \cup others /\ Used(t) = t.key \cup t.lsi \cup others \cup t.gsis[i]
  <2> HIDE DEF others
  <2> QED BY <1>1, <1>4, <1>5 DEF Used
<1>7. ASSUME \A n \in Model : LsiApart(c[n])
      PROVE  u.defs = Used(u)
  <2>1. t.lsi \cap t.gsis[i] \subseteq t.key
    BY <1>7 DEF LsiApart
  <2>2. t.defs = Used(t)
    BY <1>7 DEF Defines
  <2> HIDE DEF others
  <2> QED BY <2>1, <2>2, <1>1, <1>6
<1>8. Defines(c, u)
  BY <1>7, Zenon DEF Defines
<1> QED BY <1>2, <1>3, <1>8 DEF MayFollow, u

\* An index that a table has not may be given to it.
LEMMA AddedFollows ==
  ASSUME NEW c, NEW t \in Table, NEW i \in Index, NEW keys \in IndexKeys[i], Defines(c, t),
         t.gsis[i] = Absent
  PROVE  MayFollow(c, t, addGSI(i, keys, t))
<1> DEFINE u == addGSI(i, keys, t)
<1>1. /\ u \in Table /\ u.key = t.key /\ u.lsi = t.lsi
      /\ \A j \in Index : u.gsis[j] = IF j = i THEN keys ELSE t.gsis[j]
      /\ u.defs = t.defs \cup keys
  BY AddFacts
<1> HIDE DEF u
<1>2. keys # Absent
  BY PlanAssumption
<1>3. t # u
  BY <1>1, <1>2
<1>4. OneIndexChange(t, u)
  BY <1>1 DEF OneIndexChange, IndexChanges
<1>5. UNION {u.gsis[j] : j \in Index} = (UNION {t.gsis[j] : j \in Index}) \cup keys
  <2>1. \A j \in Index : u.gsis[j] = IF j = i THEN keys ELSE t.gsis[j]
    BY <1>1
  <2> QED BY <2>1 DEF Absent
<1>6. Used(u) = Used(t) \cup keys
  BY <1>1, <1>5 DEF Used
<1>7. Defines(c, u)
  BY <1>1, <1>6 DEF Defines
<1> QED BY <1>3, <1>4, <1>7 DEF MayFollow, u

-----------------------------------------------------------------------------
(* gsiManagement *)

\* The templates deployed and the new ones are tables.
LEMMA Tables ==
  ASSUME PlanInv, NEW m \in Model
  PROVE  /\ current[m] \in Table /\ next[m] \in Table
         /\ Defines(current, current[m]) /\ templateState[m] \in Seq(Table)
<1>1. current[m] \in Generated /\ next[m] \in Generated
  BY DEF PlanInv
<1>2. templateState[m] \in Seq(Table)
  BY DEF PlanInv, TypeOK
<1> QED BY <1>1, <1>2, GeneratedFacts DEF Defines

\* What gsiManagement starts from in planning a change: the index is as it was
\* deployed, and is not yet as it shall be.
LEMMA ChangeFacts ==
  ASSUME PlanInv, NEW m \in Model, NEW i \in todo[m], pc = "gsi"
  PROVE  /\ i \in Index /\ ~rebuild
         /\ latest(m) = LastOf(templateState[m], current[m])
         /\ latest(m) \in Table /\ Defines(current, latest(m))
         /\ latest(m).key = current[m].key /\ latest(m).lsi = current[m].lsi
         /\ latest(m).gsis[i] = current[m].gsis[i] /\ current[m].gsis[i] # next[m].gsis[i]
         /\ next[m].gsis[i] # Absent => next[m].gsis[i] \in IndexKeys[i]
<1>1. Planning(m)
  BY DEF PlanInv
<1>2. i \in Index /\ ~rebuild /\ current[m].gsis[i] # next[m].gsis[i]
  BY <1>1 DEF Planning, getGSIDiffs
<1>3. latest(m) = LastOf(templateState[m], current[m])
  BY DEF latest, LastOf
<1>4. latest(m) \in Table /\ Defines(current, latest(m))
  BY <1>1, <1>3, Tables, LastDefines DEF Planning
<1>5. next[m].gsis[i] # Absent => next[m].gsis[i] \in IndexKeys[i]
  <2>1. next[m].gsis \in Gsis
    BY Tables DEF Table
  <2> QED BY <2>1, <1>2 DEF Gsis
<1> QED BY <1>1, <1>2, <1>3, <1>4, <1>5 DEF Planning

\* Table w is the last one planned of model m, with index i as it shall be.
Changed(m, i, w) ==
  /\ w.key = latest(m).key /\ w.lsi = latest(m).lsi
  /\ \A j \in Index : w.gsis[j] = IF j = i THEN next[m].gsis[i] ELSE latest(m).gsis[j]

\* Templates that end in the table with the change made are what Planning asks for.
LEMMA PlansStep ==
  ASSUME PlanInv, NEW m \in Model, NEW i \in todo[m], pc = "gsi",
         NEW q \in Seq(Table), q # <<>>, Queue(current, q, current[m]),
         Changed(m, i, LastOf(q, current[m])),
         templateState' = [templateState EXCEPT ![m] = q],
         todo' = [todo EXCEPT ![m] = @ \ {i}], UNCHANGED <<project, pc, steps, deployed>>
  PROVE  PlanInv'
<1>1. /\ i \in Index /\ ~rebuild
      /\ latest(m).key = current[m].key /\ latest(m).lsi = current[m].lsi
  BY ChangeFacts
<1>2. UNCHANGED <<current, next, rebuild, dependent, pc, steps, at, api, connected>>
  BY DEF project, deployed
<1> DEFINE w == LastOf(q, current[m])
<1>w. /\ w.key = latest(m).key /\ w.lsi = latest(m).lsi
      /\ \A j \in Index : w.gsis[j] = IF j = i THEN next[m].gsis[i] ELSE latest(m).gsis[j]
  BY Zenon DEF Changed
<1>3. TypeOK
  BY DEF PlanInv
<1>4. TypeOK'
  BY <1>2, <1>3 DEF TypeOK
<1>5. ASSUME NEW n \in Model
      PROVE  Planning(n)'
  <2>1. Planning(n)
    BY DEF PlanInv
  <2>2. getGSIDiffs(n)' = getGSIDiffs(n)
    BY <1>2 DEF getGSIDiffs
  <2>3. CASE n # m
    <3>1. templateState'[n] = templateState[n] /\ todo'[n] = todo[n]
      BY <2>3, <1>2, <1>3 DEF TypeOK
    <3>2. latest(n)' = latest(n)
      BY <3>1, <1>2 DEF latest
    <3> QED BY <2>1, <2>2, <3>1, <3>2, <1>2 DEF Planning
  <2>4. CASE n = m
    <3>1. templateState'[m] = q /\ todo'[m] = todo[m] \ {i}
      BY <1>2, <1>3 DEF TypeOK
    <3>2. latest(m)' = w
      BY <3>1, <1>2 DEF latest, LastOf
    <3> HIDE DEF w
    <3>3. \A j \in Index :
            w.gsis[j] = IF j \in todo'[m] THEN current[m].gsis[j] ELSE next[m].gsis[j]
      BY <2>1, <2>4, <3>1, <1>1, <1>w DEF Planning
    <3>4. Queue(current', templateState'[m], current'[m])
      BY <3>1, <1>2
    <3>5. todo'[m] \subseteq getGSIDiffs(m)'
      BY <2>1, <2>2, <2>4, <3>1 DEF Planning
    <3> QED BY <2>4, <3>1, <3>2, <3>3, <3>4, <3>5, <1>1, <1>2, <1>w DEF Planning
  <2> QED BY <2>3, <2>4
<1>6. AtRest' /\ steps' = <<>>
  BY <1>2 DEF PlanInv, AtRest
<1> QED BY <1>2, <1>4, <1>5, <1>6 DEF PlanInv

\* An index is deleted.
LEMMA DeleteStep ==
  ASSUME PlanInv, NEW m \in Model, NEW i \in Index, Delete(m, i)
  PROVE  PlanInv'
<1>1. pc = "gsi" /\ i \in todo[m] /\ next[m].gsis[i] = Absent
  BY DEF Delete, InTurn, ToRemove
<1>2. /\ latest(m) = LastOf(templateState[m], current[m])
      /\ latest(m) \in Table /\ Defines(current, latest(m))
      /\ latest(m).key = current[m].key /\ latest(m).lsi = current[m].lsi
      /\ latest(m).gsis[i] = current[m].gsis[i] /\ current[m].gsis[i] # next[m].gsis[i]
  BY <1>1, ChangeFacts
<1> DEFINE removed == removeGSI(i, latest(m))
<1>3. /\ removed \in Table /\ removed.key = latest(m).key /\ removed.lsi = latest(m).lsi
      /\ \A j \in Index : removed.gsis[j] = IF j = i THEN Absent ELSE latest(m).gsis[j]
  BY <1>2, RemoveFacts
<1>4. MayFollow(current, latest(m), removed)
  BY <1>1, <1>2, RemovedFollows
<1>5. Planning(m)
  BY <1>1 DEF PlanInv
<1>6. PICK u : u = removed
  OBVIOUS
<1>7. Plans(m, i, <<u>>)
  BY <1>6 DEF Delete
<1> HIDE DEF removed
<1>8. PICK q : q = templateState[m] \o <<u>>
  OBVIOUS
<1>9. q \in Seq(Table) /\ q # <<>> /\ LastOf(q, current[m]) = u /\ Queue(current, q, current[m])
  BY <1>2, <1>3, <1>4, <1>5, <1>6, <1>8, Tables, QueueGrows DEF Planning
<1>10. /\ templateState' = [templateState EXCEPT ![m] = q]
       /\ todo' = [todo EXCEPT ![m] = @ \ {i}] /\ UNCHANGED <<project, pc, steps, deployed>>
  <2>1. /\ templateState' = [templateState EXCEPT ![m] = @ \o <<u>>]
        /\ todo' = [todo EXCEPT ![m] = @ \ {i}] /\ UNCHANGED <<project, pc, steps, deployed>>
    BY <1>7 DEF Plans
  <2> QED BY <2>1, <1>8, Zenon
<1>11. Changed(m, i, u)
  BY <1>1, <1>3, <1>6 DEF Changed
<1> QED BY <1>1, <1>9, <1>10, <1>11, PlansStep

\* When nothing is left to delete and an index finds no room, the new API has more
\* indexes than a table may have: the planned table has none that it will not have.
LEMMA NoRoom ==
  ASSUME PlanInv, NEW m \in Model, NEW i \in todo[m], pc = "gsi", ToRemove(m) = {},
         NEW t \in Table, \A j \in Index : t.gsis[j] = IF j = i THEN Absent ELSE latest(m).gsis[j],
         ~canAdd(i, t)
  PROVE  TooMany
<1> DEFINE S == existingIndices(next[m])
           T == existingIndices(t)
<1>1. i \in Index /\ ~rebuild
  BY ChangeFacts
<1>2. \A j \in todo[m] : next[m].gsis[j] # Absent
  BY DEF ToRemove
<1>3. \A j \in Index :
        latest(m).gsis[j] = IF j \in todo[m] THEN current[m].gsis[j] ELSE next[m].gsis[j]
  BY <1>1 DEF PlanInv, Planning
<1>4. T \subseteq S /\ i \in S /\ i \notin T
  BY <1>1, <1>2, <1>3 DEF existingIndices
<1>5. IsFiniteSet(S)
  BY PlanAssumption, FS_Subset DEF existingIndices
<1>6. ~(Cardinality(T) < MAX_GSI_PER_TABLE)
  BY <1>4 DEF canAdd
<1> HIDE DEF S, T
<1>7. IsFiniteSet(T) /\ Cardinality(T) < Cardinality(S)
  BY <1>4, <1>5, FS_Subset, FS_CardinalityType
<1>8. Cardinality(S) \in Nat /\ Cardinality(T) \in Nat
  BY <1>5, <1>7, FS_CardinalityType
<1>9. Cardinality(S) > MAX_GSI_PER_TABLE
  BY <1>6, <1>7, <1>8, PlanAssumption
<1> QED BY <1>9 DEF TooMany, S

\* An error leaves everything as it was, and TooMany is about constants of a plan.
LEMMA ThrowsStep ==
  ASSUME PlanInv, TooMany, Throws
  PROVE  PlanInv'
<1>1. /\ pc' = "failed"
      /\ UNCHANGED <<current, next, rebuild, dependent, todo, templateState, steps, at, api, connected>>
  BY DEF Throws, project, deployed
<1>2. TypeOK'
  BY <1>1 DEF PlanInv, TypeOK
<1>3. TooMany'
  BY <1>1 DEF TooMany
<1> QED BY <1>1, <1>2, <1>3 DEF PlanInv

\* An index is added.
LEMMA AddStep ==
  ASSUME PlanInv, NEW m \in Model, NEW i \in Index, Add(m, i)
  PROVE  PlanInv'
<1>1. /\ pc = "gsi" /\ i \in todo[m] /\ current[m].gsis[i] = Absent /\ ToRemove(m) = {}
  BY DEF Add, InTurn, ToAdd, AddComesNext
<1>2. /\ latest(m) = LastOf(templateState[m], current[m])
      /\ latest(m) \in Table /\ Defines(current, latest(m))
      /\ latest(m).gsis[i] = current[m].gsis[i]
      /\ next[m].gsis[i] \in IndexKeys[i]
  BY <1>1, ChangeFacts
<1> DEFINE added == addGSI(i, next[m].gsis[i], latest(m))
<1>3. CASE canAdd(i, latest(m))
  <2>1. /\ added \in Table /\ added.key = latest(m).key /\ added.lsi = latest(m).lsi
        /\ \A j \in Index : added.gsis[j] = IF j = i THEN next[m].gsis[i] ELSE latest(m).gsis[j]
    BY <1>2, AddFacts
  <2>2. MayFollow(current, latest(m), added)
    BY <1>1, <1>2, AddedFollows
  <2>3. Planning(m)
    BY <1>1 DEF PlanInv
  <2>4. PICK u : u = added
    OBVIOUS
  <2>5. Plans(m, i, <<u>>)
    BY <1>3, <2>4 DEF Add
  <2> HIDE DEF added
  <2>6. PICK q : q = templateState[m] \o <<u>>
    OBVIOUS
  <2>7. q \in Seq(Table) /\ q # <<>> /\ LastOf(q, current[m]) = u /\ Queue(current, q, current[m])
    BY <1>2, <2>1, <2>2, <2>3, <2>4, <2>6, Tables, QueueGrows DEF Planning
  <2>8. /\ templateState' = [templateState EXCEPT ![m] = q]
        /\ todo' = [todo EXCEPT ![m] = @ \ {i}] /\ UNCHANGED <<project, pc, steps, deployed>>
    <3>1. /\ templateState' = [templateState EXCEPT ![m] = @ \o <<u>>]
          /\ todo' = [todo EXCEPT ![m] = @ \ {i}] /\ UNCHANGED <<project, pc, steps, deployed>>
      BY <2>5 DEF Plans
    <3> QED BY <3>1, <2>6, Zenon
  <2>9. Changed(m, i, u)
    BY <2>1, <2>4 DEF Changed
  <2> QED BY <1>1, <2>7, <2>8, <2>9, PlansStep
<1>4. CASE ~canAdd(i, latest(m))
  <2>1. TooMany
    BY <1>1, <1>2, <1>4, NoRoom
  <2>2. Throws
    BY <1>4 DEF Add
  <2> QED BY <2>1, <2>2, ThrowsStep
<1> QED BY <1>3, <1>4

\* An index changes its keys: it is deleted and added again.
LEMMA UpdateStep ==
  ASSUME PlanInv, NEW m \in Model, NEW i \in Index, Update(m, i)
  PROVE  PlanInv'
<1>1. /\ pc = "gsi" /\ i \in todo[m] /\ current[m].gsis[i] # Absent /\ next[m].gsis[i] # Absent
      /\ ToRemove(m) = {}
  BY DEF Update, InTurn, ToAdd, ToRemove
<1>2. /\ latest(m) = LastOf(templateState[m], current[m])
      /\ latest(m) \in Table /\ Defines(current, latest(m))
      /\ latest(m).key = current[m].key /\ latest(m).lsi = current[m].lsi
      /\ latest(m).gsis[i] = current[m].gsis[i]
      /\ next[m].gsis[i] \in IndexKeys[i]
  BY <1>1, ChangeFacts
<1> DEFINE removed == removeGSI(i, latest(m))
<1>3. /\ removed \in Table /\ removed.key = latest(m).key /\ removed.lsi = latest(m).lsi
      /\ \A j \in Index : removed.gsis[j] = IF j = i THEN Absent ELSE latest(m).gsis[j]
  BY <1>2, RemoveFacts
<1>4. MayFollow(current, latest(m), removed)
  BY <1>1, <1>2, RemovedFollows
<1>5. PICK u : u = removed
  OBVIOUS
<1>6. IF canAdd(i, u) THEN Plans(m, i, <<u, addGSI(i, next[m].gsis[i], u)>>) ELSE Throws
  BY <1>5 DEF Update, UpdatePlanned
<1> HIDE DEF removed
<1>7. CASE canAdd(i, u)
  <2> DEFINE added == addGSI(i, next[m].gsis[i], u)
  <2>1. /\ added \in Table /\ added.key = latest(m).key /\ added.lsi = latest(m).lsi
        /\ \A j \in Index : added.gsis[j] = IF j = i THEN next[m].gsis[i] ELSE latest(m).gsis[j]
    <3>1. /\ added \in Table /\ added.key = u.key /\ added.lsi = u.lsi
          /\ \A j \in Index : added.gsis[j] = IF j = i THEN next[m].gsis[i] ELSE u.gsis[j]
      BY <1>2, <1>3, <1>5, AddFacts
    <3> HIDE DEF added
    <3> QED BY <3>1, <1>3, <1>5
  <2>2. u.gsis[i] = Absent /\ Defines(current, u)
    BY <1>3, <1>4, <1>5 DEF MayFollow
  <2>3. MayFollow(current, u, added)
    BY <1>2, <1>3, <1>5, <2>2, AddedFollows
  <2>4. Planning(m)
    BY <1>1 DEF PlanInv
  <2>5. PICK v : v = added
    OBVIOUS
  <2>6. Plans(m, i, <<u, v>>)
    BY <1>6, <1>7, <2>5
  <2> HIDE DEF added
  <2>7. PICK p : p = templateState[m] \o <<u>>
    OBVIOUS
  <2>8. p \in Seq(Table) /\ p # <<>> /\ LastOf(p, current[m]) = u /\ Queue(current, p, current[m])
    BY <1>2, <1>3, <1>4, <1>5, <2>4, <2>7, Tables, QueueGrows DEF Planning
  <2>9. PICK q : q = p \o <<v>>
    OBVIOUS
  <2>10. q \in Seq(Table) /\ q # <<>> /\ LastOf(q, current[m]) = v /\ Queue(current, q, current[m])
    BY <2>1, <2>3, <2>5, <2>8, <2>9, Tables, QueueGrows
  <2>11. q = templateState[m] \o <<u, v>>
    <3>1. /\ templateState[m] \in Seq(Table) /\ u \in Table /\ v \in Table
      BY <1>3, <1>5, <2>1, <2>5, Tables
    <3> QED BY <3>1, <2>7, <2>9
  <2>12. /\ templateState' = [templateState EXCEPT ![m] = q]
         /\ todo' = [todo EXCEPT ![m] = @ \ {i}] /\ UNCHANGED <<project, pc, steps, deployed>>
    <3>1. /\ templateState' = [templateState EXCEPT ![m] = @ \o <<u, v>>]
          /\ todo' = [todo EXCEPT ![m] = @ \ {i}] /\ UNCHANGED <<project, pc, steps, deployed>>
      BY <2>6 DEF Plans
    <3> QED BY <3>1, <2>11, Zenon
  <2>13. Changed(m, i, v)
    BY <2>1, <2>5 DEF Changed
  <2> QED BY <1>1, <2>10, <2>12, <2>13, PlansStep
<1>8. CASE ~canAdd(i, u)
  <2>1. TooMany
    BY <1>1, <1>3, <1>5, <1>8, NoRoom
  <2>2. Throws
    BY <1>6, <1>8
  <2> QED BY <2>1, <2>2, ThrowsStep
<1> QED BY <1>7, <1>8

\* The initial state.
LEMMA InitPlan == ASSUME Init PROVE PlanInv
<1>1. /\ \A m \in Model : current[m] \in Generated /\ next[m] \in Generated
      /\ current \in [Model -> Generated] /\ next \in [Model -> Generated]
  BY DEF Init
<1>2. current \in [Model -> Table] /\ next \in [Model -> Table]
  BY <1>1, GeneratedFacts
<1>3. /\ rebuild \in BOOLEAN /\ dependent \in Orders /\ pc = "gsi"
      /\ todo = [m \in Model |-> getGSIDiffs(m)] /\ templateState = [m \in Model |-> <<>>]
      /\ steps = <<>> /\ at = 0 /\ api = current /\ connected = Function
  BY DEF Init
<1>4. TypeOK
  BY <1>2, <1>3 DEF TypeOK, getGSIDiffs
<1>5. \A m \in Model : Defines(current, api[m])
  BY <1>1, <1>3, GeneratedFacts DEF Defines
<1>6. ASSUME NEW m \in Model
      PROVE  Planning(m)
  <2>1. templateState[m] = <<>> /\ todo[m] = getGSIDiffs(m)
    BY <1>3
  <2>2. latest(m) = current[m]
    BY <2>1 DEF latest
  <2>3. Queue(current, templateState[m], current[m])
    BY <2>1 DEF Queue
  <2> QED BY <2>1, <2>2, <2>3 DEF Planning, getGSIDiffs
<1> QED BY <1>1, <1>3, <1>4, <1>5, <1>6 DEF PlanInv, AtRest

\* A table that is dropped: it uses and defines nothing, and is none the
\* transformer generates.
LEMMA DroppedFacts ==
  /\ Dropped \in Table /\ \A c : Defines(c, Dropped)
  /\ \A t \in Generated : t # Dropped
<1>1. [i \in Index |-> Absent] \in Gsis
  BY DEF Gsis, Absent
<1>2. Dropped \in Table
  BY <1>1 DEF Dropped, Table
<1>3. Used(Dropped) = {} /\ Dropped.defs = {} /\ Dropped.key = {}
  BY DEF Used, Dropped, Absent
<1> QED BY <1>2, <1>3, GeneratedFacts DEF Defines

\* Replaced tables are dropped; the queues of the others end in the new tables.
LEMMA RecreateStep == ASSUME PlanInv, Recreate PROVE PlanInv'
<1>1. /\ pc = "gsi" /\ pc' = "steps" /\ \A m \in Model : todo[m] = {}
      /\ UNCHANGED <<current, next, rebuild, dependent, todo, steps, at, api, connected>>
      /\ templateState' = [m \in Model |-> IF m \in Replaced THEN <<Dropped>> ELSE templateState[m]]
  BY DEF Recreate, project, deployed
<1>2. TypeOK /\ AtRest /\ steps = <<>> /\ \A m \in Model : Planning(m)
  BY <1>1 DEF PlanInv
<1>3. TypeOK'
  BY <1>1, <1>2, DroppedFacts DEF TypeOK
<1>4. LastOp'.tables = current
  BY <1>1, <1>2 DEF LastOp, getCurrentlyDeployedStackStep, ApiOp
<1>5. ASSUME NEW m \in Model
      PROVE  /\ Queue(current, templateState'[m], current[m])
             /\ OneIndexChange(LastOf(templateState'[m], current[m]), next[m])
  <2>1. current[m] \in Generated
    BY DEF PlanInv
  <2>2. CASE m \in Replaced
    <3>1. templateState'[m] = <<Dropped>>
      BY <2>2, <1>1
    <3>2. MayFollow(current, current[m], Dropped)
      BY <2>1, DroppedFacts DEF MayFollow, OneIndexChange
    <3>3. Queue(current, <<Dropped>>, current[m])
      BY <3>2 DEF Queue
    <3>4. LastOf(templateState'[m], current[m]) = Dropped
      BY <3>1 DEF LastOf
    <3> QED BY <3>1, <3>3, <3>4 DEF OneIndexChange
  <2>3. CASE m \notin Replaced
    <3>1. templateState'[m] = templateState[m]
      BY <2>3, <1>1
    <3>2. LastOf(templateState[m], current[m]) = latest(m)
      BY DEF LastOf, latest
    <3>3. ~rebuild /\ current[m].key = next[m].key /\ current[m].lsi = next[m].lsi
      BY <2>3 DEF Replaced
    <3>4. \A i \in Index : latest(m).gsis[i] = next[m].gsis[i]
      BY <3>3, <1>1, <1>2 DEF Planning
    <3>5. OneIndexChange(latest(m), next[m])
      BY <3>3, <3>4, <1>2 DEF OneIndexChange, IndexChanges, Planning
    <3> QED BY <3>1, <3>2, <3>5, <1>2 DEF Planning
  <2> QED BY <2>2, <2>3
<1>6. Popping'
  <2>1. Linked(current', steps', Len(steps')) /\ \A k \in 1..Len(steps') : ApiStep(current', steps', 0, k)
    BY <1>1, <1>2 DEF Linked
  <2> QED BY <2>1, <1>1, <1>2, <1>4, <1>5 DEF Popping
<1>7. AtRest'
  BY <1>1, <1>2 DEF AtRest
<1> QED BY <1>1, <1>3, <1>6, <1>7 DEF PlanInv

-----------------------------------------------------------------------------
(* getDeploymentSteps *)

\* What the next step of plan s is rolled back to.
LastDeployment(c, s) ==
  IF s = <<>> THEN ApiOp(Initial, Initial, c, {}) ELSE s[Len(s)].deployment

\* A plan grows by a step that is rolled back to its last.
LEMMA PlanGrows ==
  ASSUME NEW c, NEW s \in Seq(Step), NEW st \in Step, NEW d \in Nat, Linked(c, s, Len(s)),
         st.rollback = LastDeployment(c, s),
         NEW r, r = Append(s, st)
  PROVE  /\ r \in Seq(Step) /\ Len(r) = Len(s) + 1 /\ r # <<>> /\ r[Len(s) + 1] = st
         /\ \A k \in 1..Len(s) : r[k] = s[k]
         /\ Linked(c, r, Len(s))
         /\ st.deployment.previous = st.rollback.key => Linked(c, r, Len(r))
         /\ \A k \in d + 1..Len(s) : ApiStep(c, s, d, k) => ApiStep(c, r, d, k)
<1>1. /\ r \in Seq(Step) /\ Len(r) = Len(s) + 1 /\ r # <<>> /\ r[Len(s) + 1] = st
      /\ \A k \in 1..Len(s) : r[k] = s[k]
  OBVIOUS
<1>2. Len(s) \in Nat /\ (s = <<>> <=> Len(s) = 0)
  OBVIOUS
<1>3. ASSUME NEW k \in 1..Len(r), NEW n \in {Len(s), Len(r)},
             n = Len(s) \/ st.deployment.previous = st.rollback.key
      PROVE  /\ r[k].rollback = IF k = 1 THEN ApiOp(Initial, Initial, c, {}) ELSE r[k - 1].deployment
             /\ k <= n => r[k].deployment.previous = r[k].rollback.key
  <2>1. CASE k \in 1..Len(s)
    <3>1. /\ s[k].rollback = IF k = 1 THEN ApiOp(Initial, Initial, c, {}) ELSE s[k - 1].deployment
          /\ s[k].deployment.previous = s[k].rollback.key
      BY <2>1 DEF Linked
    <3>2. k # 1 => r[k - 1] = s[k - 1]
      BY <2>1, <1>1, <1>2
    <3> QED BY <2>1, <3>1, <3>2, <1>1
  <2>2. CASE k = Len(s) + 1
    <3>1. k # 1 => r[k - 1] = s[Len(s)]
      BY <2>2, <1>1, <1>2
    <3> QED BY <2>2, <3>1, <1>1, <1>2, <1>3 DEF LastDeployment
  <2> QED BY <2>1, <2>2, <1>1, <1>2
<1>4. Linked(c, r, Len(s)) /\ (st.deployment.previous = st.rollback.key => Linked(c, r, Len(r)))
  BY <1>3 DEF Linked
<1>5. ASSUME NEW k \in d + 1..Len(s), ApiStep(c, s, d, k)
      PROVE  ApiStep(c, r, d, k)
  <2>1. r[k] = s[k] /\ (k # d + 1 => r[k - 1] = s[k - 1])
    BY <1>1, <1>2
  <2>2. TablesBefore(c, r, d, k) = TablesBefore(c, s, d, k)
    BY <2>1 DEF TablesBefore
  <2> QED BY <2>1, <2>2, <1>5 DEF ApiStep
<1> QED BY <1>1, <1>4, <1>5

\* What is left of a queue, after its first template, follows that one.
LEMMA QueueShrinks ==
  ASSUME NEW c, NEW t \in Table, NEW q \in Seq(Table), q # <<>>, Queue(c, q, t)
  PROVE  /\ Head(q) \in Table /\ Tail(q) \in Seq(Table)
         /\ MayFollow(c, t, Head(q)) /\ Queue(c, Tail(q), Head(q))
         /\ LastOf(Tail(q), Head(q)) = LastOf(q, t)
<1>1. /\ Head(q) \in Table /\ Tail(q) \in Seq(Table) /\ Len(q) \in Nat \ {0}
      /\ Len(Tail(q)) = Len(q) - 1 /\ Head(q) = q[1]
      /\ \A k \in 1..Len(q) - 1 : Tail(q)[k] = q[k + 1]
  BY HeadTailProperties
<1>2. \A k \in 1..Len(q) : MayFollow(c, IF k = 1 THEN t ELSE q[k - 1], q[k])
  BY DEF Queue
<1>3. MayFollow(c, t, Head(q))
  <2>1. 1 \in 1..Len(q)
    BY <1>1
  <2> QED BY <2>1, <1>1, <1>2
<1>4. ASSUME NEW k \in 1..Len(Tail(q))
      PROVE  MayFollow(c, IF k = 1 THEN Head(q) ELSE Tail(q)[k - 1], Tail(q)[k])
  <2>1. /\ k + 1 \in 1..Len(q) /\ k + 1 # 1 /\ (k + 1) - 1 = k /\ k \in 1..Len(q) - 1
        /\ k # 1 => k - 1 \in 1..Len(q) - 1 /\ (k - 1) + 1 = k
    BY <1>1
  <2>2. MayFollow(c, q[k], q[k + 1])
    BY <2>1, <1>2
  <2>3. Tail(q)[k] = q[k + 1] /\ (IF k = 1 THEN Head(q) ELSE Tail(q)[k - 1]) = q[k]
    BY <2>1, <1>1
  <2> QED BY <2>2, <2>3
<1>5. LastOf(Tail(q), Head(q)) = LastOf(q, t)
  <2>1. CASE Len(q) = 1
    <3> DEFINE p == Tail(q)
    <3>1. p \in Seq(Table) /\ Len(p) = 0
      BY <2>1, <1>1
    <3> HIDE DEF p
    <3>2. p = <<>>
      BY <3>1, EmptySeq
    <3>3. q[Len(q)] = Head(q)
      BY <2>1, <1>1
    <3> QED BY <3>1, <3>2, <3>3 DEF LastOf, p
  <2>2. CASE Len(q) # 1
    <3>1. Tail(q) # <<>> /\ Tail(q)[Len(q) - 1] = q[Len(q)]
      BY <2>2, <1>1
    <3> QED BY <3>1, <1>1 DEF LastOf
  <2> QED BY <2>1, <2>2
<1> QED BY <1>1, <1>3, <1>4, <1>5 DEF Queue

\* The last step planned is a deployment of the API.
LEMMA LastOpFacts ==
  ASSUME PlanInv, Popping
  PROVE  /\ LastOp \in ApiOps
         /\ LastOp = IF steps = <<>> THEN ApiOp(Initial, Initial, current, {})
                     ELSE steps[Len(steps)].deployment
         /\ \A m \in Model : LastOp.tables[m] \in Table
<1>1. steps \in Seq(Step) /\ current \in [Model -> Table]
  BY DEF PlanInv, TypeOK
<1>2. LastOp = IF steps = <<>> THEN ApiOp(Initial, Initial, current, {})
               ELSE steps[Len(steps)].deployment
  BY DEF LastOp, getCurrentlyDeployedStackStep
<1>3. ApiOp(Initial, Initial, current, {}) \in ApiOps
  BY <1>1 DEF ApiOp, ApiOps, Keys
<1>4. steps # <<>> => steps[Len(steps)].deployment \in ApiOps
  <2>1. steps # <<>> => Len(steps) \in 1..Len(steps)
    BY <1>1
  <2> QED BY <2>1 DEF Popping, ApiStep
<1>5. LastOp \in ApiOps
  BY <1>2, <1>3, <1>4
<1> QED BY <1>2, <1>5 DEF ApiOps

\* The first template of each queue makes a step.
LEMMA BuildStepStep == ASSUME PlanInv, BuildStep PROVE PlanInv'
<1> DEFINE tables == [m \in Model |-> IF m \in Queued THEN Head(templateState[m]) ELSE LastOp.tables[m]]
           op == ApiOp(Key(Len(steps) + 1), LastOp.key, tables, Queued)
<1>1. /\ pc = "steps" /\ Queued # {} /\ steps' = Append(steps, [deployment |-> op, rollback |-> LastOp])
      /\ templateState' = [m \in Model |-> IF m \in Queued THEN Tail(templateState[m]) ELSE <<>>]
      /\ UNCHANGED <<current, next, rebuild, dependent, pc, todo, at, api, connected>>
  BY DEF BuildStep, project, deployed, WaitedFor
<1>2. TypeOK /\ Popping /\ AtRest /\ steps \in Seq(Step)
  BY <1>1 DEF PlanInv
<1>3. /\ LastOp \in ApiOps /\ \A m \in Model : LastOp.tables[m] \in Table
      /\ LastOp = IF steps = <<>> THEN ApiOp(Initial, Initial, current, {})
                  ELSE steps[Len(steps)].deployment
  BY <1>2, LastOpFacts
<1>4. \A m \in Model : templateState[m] \in Seq(Table) /\ (m \in Queued <=> templateState[m] # <<>>)
  BY <1>2 DEF TypeOK, Queued
<1>5. ASSUME NEW m \in Model
      PROVE  /\ tables[m] \in Table /\ templateState'[m] \in Seq(Table)
             /\ m \in Queued => MayFollow(current, LastOp.tables[m], tables[m])
             /\ m \notin Queued => tables[m] = LastOp.tables[m]
             /\ Queue(current, templateState'[m], tables[m])
             /\ OneIndexChange(LastOf(templateState'[m], tables[m]), next[m])
  <2>1. /\ Queue(current, templateState[m], LastOp.tables[m])
        /\ OneIndexChange(LastOf(templateState[m], LastOp.tables[m]), next[m])
    BY <1>2 DEF Popping
  <2>2. CASE m \in Queued
    <3>1. tables[m] = Head(templateState[m]) /\ templateState'[m] = Tail(templateState[m])
      BY <2>2, <1>1
    <3> HIDE DEF tables
    <3> QED BY <2>1, <2>2, <3>1, <1>3, <1>4, QueueShrinks
  <2>3. CASE m \notin Queued
    <3>1. tables[m] = LastOp.tables[m] /\ templateState'[m] = <<>> /\ templateState[m] = <<>>
      BY <2>3, <1>1, <1>4
    <3> HIDE DEF tables
    <3>2. Queue(current, <<>>, tables[m])
      BY DEF Queue
    <3> QED BY <2>1, <2>3, <3>1, <3>2, <1>3
  <2> QED BY <2>2, <2>3
<1>6. tables \in [Model -> Table] /\ Queued \in SUBSET Model
  BY <1>5 DEF Queued
<1>7. op = [key |-> Key(Len(steps) + 1), previous |-> LastOp.key, stack |-> "api",
            tables |-> tables, tableNames |-> Queued]
  BY DEF ApiOp
<1> HIDE DEF tables, op
<1>8. op \in ApiOps
  <2>1. Key(Len(steps) + 1) \in Keys
    <3>1. Len(steps) + 1 \in Nat
      BY <1>2
    <3> QED BY <3>1 DEF Keys
  <2> QED BY <2>1, <1>3, <1>6, <1>7 DEF ApiOps
<1>9. PICK st : st = [deployment |-> op, rollback |-> LastOp]
  OBVIOUS
<1>10. st \in Step /\ st.deployment = op /\ st.rollback = LastOp
  BY <1>3, <1>8, <1>9 DEF Step
<1>11. /\ steps' \in Seq(Step) /\ Len(steps') = Len(steps) + 1 /\ steps' # <<>>
       /\ steps'[Len(steps) + 1] = st /\ \A k \in 1..Len(steps) : steps'[k] = steps[k]
       /\ Linked(current, steps', Len(steps'))
       /\ \A k \in 1..Len(steps) : ApiStep(current, steps, 0, k) => ApiStep(current, steps', 0, k)
  <2>1. PICK c, s, r, d : c = current /\ s = steps /\ r = steps' /\ d = 0
    OBVIOUS
  <2>2. Linked(c, s, Len(s))
    BY <2>1, <1>2 DEF Popping
  <2>3. st.deployment.previous = st.rollback.key
    BY <1>7, <1>10
  <2>4. st.rollback = LastDeployment(c, s)
    BY <2>1, <1>3, <1>10 DEF LastDeployment
  <2>5. s \in Seq(Step) /\ r = Append(s, st)
    BY <2>1, <1>1, <1>2, <1>9
  <2>6. /\ r \in Seq(Step) /\ Len(r) = Len(s) + 1 /\ r # <<>> /\ r[Len(s) + 1] = st
        /\ \A k \in 1..Len(s) : r[k] = s[k]
        /\ st.deployment.previous = st.rollback.key => Linked(c, r, Len(r))
        /\ \A k \in d + 1..Len(s) : ApiStep(c, s, d, k) => ApiStep(c, r, d, k)
    <3>1. d \in Nat /\ st \in Step
      BY <2>1, <1>10
    <3> HIDE <2>1, <1>9
    <3>2. r \in Seq(Step) /\ Len(r) = Len(s) + 1 /\ r # <<>> /\ r[Len(s) + 1] = st
      BY <2>2, <2>4, <2>5, <3>1, PlanGrows
    <3>3. \A k \in 1..Len(s) : r[k] = s[k]
      BY <2>2, <2>4, <2>5, <3>1, PlanGrows
    <3>4. \A k \in d + 1..Len(s) : ApiStep(c, s, d, k) => ApiStep(c, r, d, k)
      BY <2>2, <2>4, <2>5, <3>1, PlanGrows
    <3>5. st.deployment.previous = st.rollback.key => Linked(c, r, Len(r))
      BY <2>2, <2>4, <2>5, <3>1, PlanGrows
    <3> QED BY <3>2, <3>3, <3>4, <3>5
  <2> QED BY <2>1, <2>3, <2>6
<1>12. Len(steps) \in Nat /\ (steps = <<>> <=> Len(steps) = 0)
  BY <1>2
<1>13. ApiStep(current, steps', 0, Len(steps) + 1)
  <2> DEFINE before == TablesBefore(current, steps', 0, Len(steps) + 1)
  <2>1. before = LastOp.tables
    BY <1>3, <1>11, <1>12 DEF TablesBefore, ApiOp
  <2> HIDE DEF before
  <2>2. op.tables = tables /\ op.tableNames = Queued
    BY <1>7
  <2>3. tables # LastOp.tables
    BY <1>1, <1>5 DEF MayFollow, Queued
  <2>4. ASSUME NEW m \in Model
        PROVE  /\ OneIndexChange(LastOp.tables[m], tables[m]) /\ Defines(current, tables[m])
               /\ tables[m] # LastOp.tables[m] =>
                    /\ m \in Queued
                    /\ Len(steps) + 1 # 0 + 1 => m \in steps'[(Len(steps) + 1) - 1].deployment.tableNames
    <3>1. CASE m \in Queued
      <4>1. Len(steps) + 1 # 0 + 1 => steps'[(Len(steps) + 1) - 1].deployment = LastOp
        BY <1>3, <1>11, <1>12
      <4>2. Len(steps) + 1 # 0 + 1 => Queued \subseteq LastOp.tableNames
        BY <1>2, <1>12 DEF Popping
      <4> QED BY <3>1, <4>1, <4>2, <1>5 DEF MayFollow
    <3>2. CASE m \notin Queued
      <4>1. tables[m] = LastOp.tables[m]
        BY <3>2, <1>5
      <4>2. OneIndexChange(LastOp.tables[m], LastOp.tables[m])
        BY DEF OneIndexChange, IndexChanges
      <4>3. Defines(current, LastOp.tables[m])
        <5>1. CASE steps = <<>>
          BY <5>1, <1>3, Tables DEF ApiOp
        <5>2. CASE steps # <<>>
          <6>1. Len(steps) \in 1..Len(steps)
            BY <5>2, <1>12
          <6> QED BY <5>2, <6>1, <1>2, <1>3 DEF Popping, ApiStep
        <5> QED BY <5>1, <5>2
      <4> QED BY <4>1, <4>2, <4>3
    <3> QED BY <3>1, <3>2
  <2>5. steps'[Len(steps) + 1].deployment = op
    BY <1>10, <1>11
  <2> QED BY <2>1, <2>2, <2>3, <2>4, <2>5, <1>8 DEF ApiStep, before
<1>14. LastOp' = op
  BY <1>10, <1>11 DEF LastOp
<1>15. Popping'
  <2>1. \A k \in 1..Len(steps') : ApiStep(current', steps', 0, k)
    BY <1>1, <1>2, <1>11, <1>12, <1>13 DEF Popping
  <2>2. Queued' \subseteq LastOp'.tableNames
    <3>1. Queued' \subseteq Queued
      BY <1>1 DEF Queued
    <3> QED BY <3>1, <1>7, <1>14
  <2>3. \A m \in Model : /\ Queue(current', templateState'[m], LastOp'.tables[m])
                         /\ OneIndexChange(LastOf(templateState'[m], LastOp'.tables[m]), next'[m])
    BY <1>1, <1>5, <1>7, <1>14
  <2> QED BY <2>1, <2>2, <2>3, <1>1, <1>11 DEF Popping
<1>16. TypeOK'
  <2>1. templateState' \in [Model -> Seq(Table)]
    BY <1>1, <1>5
  <2>2. at' \in 0..Len(steps')
    BY <1>1, <1>2, <1>11, <1>12 DEF AtRest
  <2> QED BY <2>1, <2>2, <1>1, <1>2 DEF TypeOK
<1>17. AtRest'
  BY <1>1, <1>2 DEF AtRest
<1> QED BY <1>1, <1>11, <1>15, <1>16, <1>17 DEF PlanInv

-----------------------------------------------------------------------------
(* prependDeploymentSteps *)

\* A plan s of d steps of functions, and API steps after them, all linked.
Chain(c, fs, s) ==
  /\ s \in Seq(Step) /\ Len(fs) < Len(s) /\ Linked(c, s, Len(s))
  /\ \A k \in 1..Len(fs) : s[k].deployment.stack = fs[k]
  /\ \A k \in Len(fs) + 1..Len(s) : ApiStep(c, s, Len(fs), k)

LEMMA OrdersAreSequences == ASSUME NEW fs \in Orders PROVE fs \in Seq(Function)
<1>1. Cardinality(Function) \in Nat
  BY PlanAssumption, FS_CardinalityType
<1>2. PICK n \in 0..Cardinality(Function) : fs \in [1..n -> Function]
  BY DEF Orders
<1>3. n \in Nat
  BY <1>1
<1> QED BY <1>2, <1>3

\* The steps that disconnect functions: the first takes the pointers of the first
\* of the API's, each other points to the one before it.
LEMMA DisconnectFacts ==
  ASSUME NEW fs \in Seq(Function), NEW s \in Seq(Step), s # <<>>, s[1].deployment \in ApiOps
  PROVE  /\ DisconnectSteps(fs, s) \in Seq(Step) /\ Len(DisconnectSteps(fs, s)) = Len(fs)
         /\ \A k \in 1..Len(fs) :
              /\ DisconnectSteps(fs, s)[k].deployment \in FunctionOps
              /\ DisconnectSteps(fs, s)[k].deployment.stack = fs[k]
              /\ k = 1 => /\ DisconnectSteps(fs, s)[k].rollback = s[1].rollback
                          /\ DisconnectSteps(fs, s)[k].deployment.previous = s[1].deployment.previous
              /\ k # 1 => /\ DisconnectSteps(fs, s)[k].rollback = DisconnectSteps(fs, s)[k - 1].deployment
                          /\ DisconnectSteps(fs, s)[k].deployment.previous
                               = DisconnectSteps(fs, s)[k - 1].deployment.key
<1> DEFINE op(n) == FunctionOp(fs[n], IF n = 1 THEN s[1].deployment.previous ELSE FunctionKey(fs[n - 1]))
           b == [k \in 1..Len(fs) |->
                   [deployment |-> op(k), rollback |-> IF k = 1 THEN s[1].rollback ELSE op(k - 1)]]
<1>1. DisconnectSteps(fs, s) = b
  BY DEF DisconnectSteps
<1>2. Len(fs) \in Nat /\ 1 \in 1..Len(s) /\ s[1] \in Step
  BY EmptySeq
<1>3. ASSUME NEW n \in 1..Len(fs)
      PROVE  /\ op(n) \in FunctionOps /\ op(n).stack = fs[n] /\ op(n).key = FunctionKey(fs[n])
             /\ op(n).previous = IF n = 1 THEN s[1].deployment.previous ELSE FunctionKey(fs[n - 1])
  <2>1. fs[n] \in Function /\ (n # 1 => fs[n - 1] \in Function)
    BY <1>2
  <2>2. s[1].deployment.previous \in Keys
    BY DEF ApiOps
  <2>3. PICK previous : previous = IF n = 1 THEN s[1].deployment.previous ELSE FunctionKey(fs[n - 1])
    OBVIOUS
  <2>4. previous \in Keys /\ FunctionKey(fs[n]) \in Keys
    BY <2>1, <2>2, <2>3 DEF Keys
  <2>5. op(n) = [key |-> FunctionKey(fs[n]), previous |-> previous, stack |-> fs[n],
                 tables |-> <<>>, tableNames |-> {}]
    BY <2>3 DEF FunctionOp
  <2> HIDE DEF op
  <2> QED BY <2>1, <2>3, <2>4, <2>5 DEF FunctionOps
<1> HIDE DEF op
<1>4. ASSUME NEW k \in 1..Len(fs)
      PROVE  /\ b[k] \in Step /\ b[k].deployment = op(k)
             /\ b[k].rollback = IF k = 1 THEN s[1].rollback ELSE op(k - 1)
  <2>1. k # 1 => k - 1 \in 1..Len(fs)
    BY <1>2
  <2>2. s[1].rollback \in ApiOps \cup FunctionOps
    BY <1>2 DEF Step
  <2>3. PICK rollback : rollback = IF k = 1 THEN s[1].rollback ELSE op(k - 1)
    OBVIOUS
  <2>4. b[k] = [deployment |-> op(k), rollback |-> rollback]
    BY <2>3
  <2>5. op(k) \in FunctionOps /\ rollback \in ApiOps \cup FunctionOps
    BY <2>1, <2>2, <2>3, <1>3
  <2> HIDE DEF b
  <2> QED BY <2>3, <2>4, <2>5 DEF Step
<1>5. Len(b) = Len(fs) /\ b \in [1..Len(fs) -> Step]
  BY <1>2, <1>4
<1> HIDE DEF b
<1>6. b \in Seq(Step)
  BY <1>2, <1>5
<1>7. ASSUME NEW k \in 1..Len(fs)
      PROVE  /\ b[k].deployment \in FunctionOps
             /\ b[k].deployment.stack = fs[k]
             /\ k = 1 => /\ b[k].rollback = s[1].rollback
                         /\ b[k].deployment.previous = s[1].deployment.previous
             /\ k # 1 => /\ b[k].rollback = b[k - 1].deployment
                         /\ b[k].deployment.previous = b[k - 1].deployment.key
  <2>1. k # 1 => k - 1 \in 1..Len(fs)
    BY <1>2
  <2> QED BY <2>1, <1>3, <1>4
<1> QED BY <1>1, <1>5, <1>6, <1>7

\* What moving the pointers of the first two steps of the API leaves alone.
LEMMA MovedFacts ==
  ASSUME NEW b \in Seq(Step), b # <<>>, NEW s \in Seq(Step), s # <<>>, s[1].deployment \in ApiOps
  PROVE  /\ Moved(b, s) \in Seq(Step) /\ Len(Moved(b, s)) = Len(s)
         /\ \A k \in 1..Len(s) :
              /\ Moved(b, s)[k].deployment \in ApiOps <=> s[k].deployment \in ApiOps
              /\ Moved(b, s)[k].deployment.key = s[k].deployment.key
              /\ Moved(b, s)[k].deployment.tables = s[k].deployment.tables
              /\ Moved(b, s)[k].deployment.tableNames = s[k].deployment.tableNames
              /\ k = 1 => /\ Moved(b, s)[k].rollback = b[Len(b)].deployment
                          /\ Moved(b, s)[k].deployment.previous = b[Len(b)].deployment.key
              /\ k # 1 => Moved(b, s)[k].deployment = s[k].deployment
              /\ k = 2 => Moved(b, s)[k].rollback = Moved(b, s)[1].deployment
              /\ k > 2 => Moved(b, s)[k].rollback = s[k].rollback
<1> DEFINE last == b[Len(b)].deployment
           first == [deployment |-> [s[1].deployment EXCEPT !.previous = last.key], rollback |-> last]
           moved == [k \in 1..Len(s) |->
                       IF k = 1 THEN first
                       ELSE IF k = 2 THEN [s[2] EXCEPT !.rollback = first.deployment]
                       ELSE s[k]]
<1>1. Moved(b, s) = moved
  BY DEF Moved
<1>2. /\ Len(b) \in 1..Len(b) /\ last \in ApiOps \cup FunctionOps /\ last.key \in Keys
      /\ Len(s) \in Nat /\ 1 \in 1..Len(s) /\ s[1] \in Step
  <2>1. Len(b) \in 1..Len(b) /\ Len(s) \in Nat /\ 1 \in 1..Len(s)
    BY EmptySeq
  <2>2. last \in ApiOps \cup FunctionOps
    <3>1. b[Len(b)] \in Step
      BY <2>1
    <3> QED BY <3>1 DEF Step
  <2> HIDE DEF last
  <2> QED BY <2>1, <2>2 DEF ApiOps, FunctionOps
<1> HIDE DEF last
<1>3. /\ first \in Step /\ first.rollback = last /\ first.deployment \in ApiOps
      /\ first.deployment.key = s[1].deployment.key
      /\ first.deployment.tables = s[1].deployment.tables
      /\ first.deployment.tableNames = s[1].deployment.tableNames
      /\ first.deployment.previous = last.key
  <2>1. PICK op \in ApiOps : op = s[1].deployment
    OBVIOUS
  <2>2. first = [deployment |-> [op EXCEPT !.previous = last.key], rollback |-> last]
    BY <2>1
  <2>3. PICK new : new = [op EXCEPT !.previous = last.key]
    OBVIOUS
  <2>4. /\ new \in ApiOps /\ new.previous = last.key /\ new.key = op.key
        /\ new.tables = op.tables /\ new.tableNames = op.tableNames
    BY <2>3, <1>2 DEF ApiOps
  <2> HIDE DEF first
  <2>5. first = [deployment |-> new, rollback |-> last]
    BY <2>2, <2>3
  <2> QED BY <2>1, <2>4, <2>5, <1>2 DEF Step
<1> HIDE DEF first
<1>4. ASSUME NEW k \in 1..Len(s)
      PROVE  /\ moved[k] \in Step
             /\ k = 1 => moved[k] = first
             /\ k # 1 => moved[k].deployment = s[k].deployment
             /\ k = 2 => moved[k].rollback = first.deployment
             /\ k > 2 => moved[k].rollback = s[k].rollback
  <2>1. s[k] \in Step
    OBVIOUS
  <2>2. CASE k = 1
    BY <2>2, <1>3
  <2>3. CASE k = 2
    <3>1. moved[k] = [s[2] EXCEPT !.rollback = first.deployment]
      BY <2>3
    <3> HIDE DEF moved
    <3> QED BY <3>1, <2>1, <2>3, <1>3 DEF Step
  <2>4. CASE k > 2
    <3>1. moved[k] = s[k]
      BY <2>4
    <3> HIDE DEF moved
    <3> QED BY <3>1, <2>1, <2>4
  <2> QED BY <2>2, <2>3, <2>4, <1>2
<1>5. Len(moved) = Len(s) /\ moved \in [1..Len(s) -> Step]
  BY <1>2, <1>4
<1> HIDE DEF moved
<1>6. moved \in Seq(Step)
  BY <1>2, <1>5
<1>7. moved[1] = first
  BY <1>2, <1>4
<1>8. ASSUME NEW k \in 1..Len(s)
      PROVE  /\ moved[k].deployment \in ApiOps <=> s[k].deployment \in ApiOps
             /\ moved[k].deployment.key = s[k].deployment.key
             /\ moved[k].deployment.tables = s[k].deployment.tables
             /\ moved[k].deployment.tableNames = s[k].deployment.tableNames
             /\ k = 1 => moved[k].rollback = last /\ moved[k].deployment.previous = last.key
             /\ k # 1 => moved[k].deployment = s[k].deployment
             /\ k = 2 => moved[k].rollback = moved[1].deployment
             /\ k > 2 => moved[k].rollback = s[k].rollback
  BY <1>3, <1>4, <1>7
<1> QED BY <1>1, <1>5, <1>6, <1>8 DEF last

\* The plan with the steps of functions fs in front of the API's steps s: it ends
\* in the same templates.
LEMMA Prepended ==
  ASSUME NEW c, NEW fs \in Orders, NEW s \in Seq(Step), s # <<>>, Linked(c, s, Len(s)),
         \A k \in 1..Len(s) : ApiStep(c, s, 0, k)
  PROVE  /\ Chain(c, fs, prependDeploymentSteps(fs, s))
         /\ prependDeploymentSteps(fs, s)[Len(prependDeploymentSteps(fs, s))].deployment.tables
              = s[Len(s)].deployment.tables
<1>1. fs \in Seq(Function) /\ Len(fs) \in Nat /\ (fs = <<>> <=> Len(fs) = 0)
  BY OrdersAreSequences
<1>2. Len(s) \in Nat \ {0}
  BY EmptySeq
<1>3. CASE fs = <<>>
  <2>1. prependDeploymentSteps(fs, s) = s
    BY <1>3 DEF prependDeploymentSteps
  <2>2. Chain(c, fs, s)
    BY <1>1, <1>2, <1>3 DEF Chain
  <2> QED BY <2>1, <2>2
<1>4. CASE fs # <<>>
  <2> DEFINE b == DisconnectSteps(fs, s)
             a == Moved(b, s)
             p == b \o a
             d == Len(fs)
  <2>1. prependDeploymentSteps(fs, s) = p
    BY <1>4 DEF prependDeploymentSteps
  <2>2. s[1].deployment \in ApiOps
    BY <1>2 DEF ApiStep
  <2>3. /\ b \in Seq(Step) /\ Len(b) = d
        /\ \A k \in 1..d :
             /\ b[k].deployment \in FunctionOps /\ b[k].deployment.stack = fs[k]
             /\ k = 1 => /\ b[k].rollback = s[1].rollback
                         /\ b[k].deployment.previous = s[1].deployment.previous
             /\ k # 1 => /\ b[k].rollback = b[k - 1].deployment
                         /\ b[k].deployment.previous = b[k - 1].deployment.key
    BY <1>1, <2>2, DisconnectFacts
  <2>4. b # <<>>
    BY <1>1, <1>4, <2>3
  <2> HIDE DEF b
  <2>5. /\ a \in Seq(Step) /\ Len(a) = Len(s)
        /\ \A k \in 1..Len(s) :
             /\ a[k].deployment \in ApiOps <=> s[k].deployment \in ApiOps
             /\ a[k].deployment.key = s[k].deployment.key
             /\ a[k].deployment.tables = s[k].deployment.tables
             /\ a[k].deployment.tableNames = s[k].deployment.tableNames
             /\ k = 1 => /\ a[k].rollback = b[Len(b)].deployment
                         /\ a[k].deployment.previous = b[Len(b)].deployment.key
             /\ k # 1 => a[k].deployment = s[k].deployment
             /\ k = 2 => a[k].rollback = a[1].deployment
             /\ k > 2 => a[k].rollback = s[k].rollback
    BY <2>2, <2>3, <2>4, MovedFacts
  <2> HIDE DEF a
  <2>6. /\ p \in Seq(Step) /\ Len(p) = d + Len(s)
        /\ \A k \in 1..d : p[k] = b[k]
        /\ \A k \in 1..Len(s) : p[d + k] = a[k]
    <3>1. /\ p \in Seq(Step) /\ Len(p) = Len(b) + Len(a)
          /\ \A k \in 1..Len(b) + Len(a) : p[k] = IF k <= Len(b) THEN b[k] ELSE a[k - Len(b)]
      <4>1. b \in Seq(Step) /\ a \in Seq(Step)
        BY <2>3, <2>5
      <4>2. \A x, y \in Seq(Step) :
              /\ x \o y \in Seq(Step) /\ Len(x \o y) = Len(x) + Len(y)
              /\ \A k \in 1..Len(x) + Len(y) :
                   (x \o y)[k] = IF k <= Len(x) THEN x[k] ELSE y[k - Len(x)]
        BY ConcatProperties, Zenon
      <4> QED BY <4>1, <4>2, Zenon
    <3> HIDE DEF p
    <3>2. ASSUME NEW k \in 1..Len(s) PROVE p[d + k] = a[k]
      <4>1. d + k \in 1..Len(b) + Len(a) /\ ~(d + k <= Len(b)) /\ (d + k) - Len(b) = k
        BY <1>1, <1>2, <2>3, <2>5
      <4> QED BY <3>1, <4>1
    <3>3. ASSUME NEW k \in 1..d PROVE p[k] = b[k]
      BY <1>1, <1>2, <2>3, <2>5, <3>1
    <3> QED BY <2>3, <2>5, <3>1, <3>2, <3>3
  <2> HIDE DEF p
  <2> DEFINE n == Len(s)
  <2>7. d \in Nat \ {0} /\ n \in Nat \ {0} /\ Len(p) = d + n
    BY <1>1, <1>2, <1>4, <2>6
  <2>8. \A j \in 1..n : /\ s[j].rollback = IF j = 1 THEN ApiOp(Initial, Initial, c, {}) ELSE s[j - 1].deployment
                        /\ s[j].deployment.previous = s[j].rollback.key
    BY DEF Linked
  <2> HIDE DEF d, n
  <2>9. ASSUME NEW k \in 1..Len(p)
        PROVE  /\ p[k].rollback = IF k = 1 THEN ApiOp(Initial, Initial, c, {}) ELSE p[k - 1].deployment
               /\ p[k].deployment.previous = p[k].rollback.key
    <3>1. CASE k = 1
      <4>1. 1 \in 1..d /\ 1 \in 1..n
        BY <2>7
      <4> QED BY <4>1, <3>1, <2>3, <2>6, <2>8
    <3>2. CASE k \in 2..d
      <4>1. k \in 1..d /\ k # 1 /\ k - 1 \in 1..d
        BY <3>2, <2>7
      <4>2. p[k] = b[k] /\ p[k - 1] = b[k - 1]
        BY <4>1, <2>6
      <4> QED BY <4>1, <4>2, <2>3
    <3>3. CASE k = d + 1
      <4>1. 1 \in 1..n /\ d \in 1..d /\ k - 1 = d /\ k # 1
        BY <3>3, <2>7
      <4>2. p[k] = a[1] /\ p[d] = b[d]
        BY <4>1, <3>3, <2>6 DEF n
      <4>3. a[1].rollback = b[d].deployment /\ a[1].deployment.previous = b[d].deployment.key
        BY <4>1, <2>3, <2>5 DEF n
      <4> QED BY <4>1, <4>2, <4>3
    <3>4. CASE k = d + 2
      <4>1. 1 \in 1..n /\ 2 \in 1..n /\ k - 1 = d + 1 /\ k # 1
        BY <3>4, <2>7
      <4>2. p[k] = a[2] /\ p[k - 1] = a[1]
        BY <4>1, <3>4, <2>6 DEF n
      <4>3. a[2].rollback = a[1].deployment
        BY <4>1, <2>5 DEF n
      <4>4. a[2].deployment = s[2].deployment /\ a[1].deployment.key = s[1].deployment.key
        BY <4>1, <2>5 DEF n
      <4>5. s[2].rollback = s[1].deployment /\ s[2].deployment.previous = s[2].rollback.key
        BY <4>1, <2>8
      <4> QED BY <4>1, <4>2, <4>3, <4>4, <4>5
    <3>5. CASE k > d + 2
      <4>1. PICK j \in 1..n : j = k - d
        BY <3>5, <2>7
      <4>2. k = d + j /\ j > 2 /\ j - 1 \in 1..n /\ k - 1 = d + (j - 1) /\ k # 1 /\ j - 1 # 1 /\ j # 1
        BY <4>1, <3>5, <2>7
      <4>3. p[k] = a[j] /\ p[k - 1] = a[j - 1]
        BY <4>2, <2>6 DEF n
      <4>4. a[j].rollback = s[j].rollback /\ a[j].deployment = s[j].deployment
            /\ a[j - 1].deployment = s[j - 1].deployment
        BY <4>1, <4>2, <2>5 DEF n
      <4>5. s[j].rollback = s[j - 1].deployment /\ s[j].deployment.previous = s[j].rollback.key
        BY <4>2, <2>8
      <4> QED BY <4>2, <4>3, <4>4, <4>5
    <3> QED BY <3>1, <3>2, <3>3, <3>4, <3>5, <2>7
  <2>10. Linked(c, p, Len(p))
    BY <2>9 DEF Linked
  <2>11. ASSUME NEW k \in d + 1..Len(p)
         PROVE  ApiStep(c, p, d, k)
    <3>1. PICK j \in 1..n : j = k - d
      BY <2>7
    <3>2. k = d + j /\ (k = d + 1 <=> j = 0 + 1) /\ (j # 1 => j - 1 \in 1..n /\ k - 1 = d + (j - 1))
      BY <3>1, <2>7
    <3>3. p[k] = a[j] /\ (j # 1 => p[k - 1] = a[j - 1])
      BY <3>2, <2>6 DEF n
    <3>4. ApiStep(c, s, 0, j)
      BY DEF n
    <3>5. /\ p[k].deployment \in ApiOps <=> s[j].deployment \in ApiOps
          /\ p[k].deployment.tables = s[j].deployment.tables
          /\ p[k].deployment.tableNames = s[j].deployment.tableNames
          /\ j # 1 => /\ p[k - 1].deployment.tables = s[j - 1].deployment.tables
                      /\ p[k - 1].deployment.tableNames = s[j - 1].deployment.tableNames
      BY <3>2, <3>3, <2>5 DEF n
    <3>6. TablesBefore(c, p, d, k) = TablesBefore(c, s, 0, j)
      BY <3>2, <3>5 DEF TablesBefore
    <3> QED BY <3>2, <3>4, <3>5, <3>6 DEF ApiStep
  <2>12. \A k \in 1..d : p[k].deployment.stack = fs[k]
    BY <2>3, <2>6
  <2>13. Chain(c, fs, p)
    BY <2>6, <2>7, <2>10, <2>11, <2>12 DEF Chain, d
  <2>14. p[Len(p)].deployment.tables = s[Len(s)].deployment.tables
    <3>1. n \in 1..n
      BY <2>7
    <3> QED BY <3>1, <2>5, <2>6 DEF n
  <2> QED BY <2>1, <2>13, <2>14
<1> QED BY <1>3, <1>4

\* The plan is complete: the functions' steps, the API's and the last one.
LEMMA StartStep == ASSUME PlanInv, Start PROVE PlanInv'
<1>1. /\ pc = "steps" /\ Queued = {}
      /\ UNCHANGED <<current, next, rebuild, dependent, todo, templateState, at, api, connected>>
  BY DEF Start, project, deployed
<1>2. TypeOK /\ Popping /\ AtRest /\ steps \in Seq(Step)
  BY <1>1 DEF PlanInv
<1>3. CASE steps = <<>>
  <2>1. pc' = "none" /\ UNCHANGED steps
    BY <1>3 DEF Start
  <2>2. TypeOK'
    BY <1>1, <1>2, <2>1 DEF TypeOK
  <2> QED BY <1>1, <2>1, <2>2 DEF PlanInv
<1>4. CASE steps # <<>>
  <2>1. PICK p : p = prependDeploymentSteps(dependent, steps)
    OBVIOUS
  <2>2. pc' = "deploying" /\ steps' = Append(p, FinalStep(p))
    BY <1>4, <2>1 DEF Start
  <2>3. Chain(current, dependent, p) /\ p[Len(p)].deployment.tables = steps[Len(steps)].deployment.tables
    <3>1. dependent \in Orders /\ Linked(current, steps, Len(steps))
          /\ \A k \in 1..Len(steps) : ApiStep(current, steps, 0, k)
      BY <1>2 DEF TypeOK, Popping
    <3> QED BY <1>2, <1>4, <2>1, <3>1, Prepended
  <2>4. PICK c, d, st, r : c = current /\ d = Len(dependent) /\ st = FinalStep(p) /\ r = Append(p, st)
    OBVIOUS
  <2>5. /\ p \in Seq(Step) /\ d \in Nat /\ Len(p) \in Nat /\ d < Len(p) /\ p # <<>>
        /\ Linked(c, p, Len(p)) /\ \A k \in d + 1..Len(p) : ApiStep(c, p, d, k)
        /\ \A k \in 1..d : p[k].deployment.stack = dependent[k]
    <3>1. p \in Seq(Step) /\ d \in Nat
      BY <1>2, <2>3, <2>4, OrdersAreSequences DEF TypeOK, Chain
    <3>2. Len(p) \in Nat /\ d < Len(p) /\ p # <<>>
      BY <3>1, <2>3, <2>4 DEF Chain
    <3> QED BY <2>3, <2>4, <3>1, <3>2 DEF Chain
  <2>6. /\ st.deployment = [key |-> None, previous |-> None, stack |-> "api", tables |-> next,
                            tableNames |-> {}]
        /\ st = [deployment |-> st.deployment, rollback |-> p[Len(p)].deployment]
    BY <2>4 DEF FinalStep, ApiOp
  <2>7. /\ st \in Step /\ st.rollback = p[Len(p)].deployment
        /\ st.deployment.stack = "api" /\ st.deployment.tables = next
    <3>1. p[Len(p)] \in Step
      BY <2>5
    <3>2. p[Len(p)].deployment \in ApiOps \cup FunctionOps
      BY <3>1 DEF Step
    <3>3. next \in [Model -> Table] /\ None \in Keys
      BY <1>2 DEF TypeOK, Keys
    <3>4. st.deployment \in ApiOps
      BY <2>6, <3>3 DEF ApiOps
    <3>5. PICK op, back : op = st.deployment /\ back = p[Len(p)].deployment
      OBVIOUS
    <3>6. st = [deployment |-> op, rollback |-> back]
      BY <2>6, <3>5
    <3>7. st \in Step /\ st.rollback = back
      BY <3>2, <3>4, <3>5, <3>6 DEF Step
    <3> QED BY <2>6, <3>5, <3>7
  <2>8. st.rollback = LastDeployment(c, p)
    BY <2>5, <2>7 DEF LastDeployment
  <2>9. r \in Seq(Step) /\ Len(r) = Len(p) + 1 /\ r # <<>> /\ r[Len(p) + 1] = st
    BY <2>4, <2>5, <2>7, <2>8, PlanGrows
  <2>10. \A k \in 1..Len(p) : r[k] = p[k]
    BY <2>4, <2>5, <2>7, <2>8, PlanGrows
  <2>11. Linked(c, r, Len(p))
    BY <2>4, <2>5, <2>7, <2>8, PlanGrows
  <2>12. \A k \in d + 1..Len(p) : ApiStep(c, p, d, k) => ApiStep(c, r, d, k)
    BY <2>4, <2>5, <2>7, <2>8, PlanGrows
  <2>13. \A m \in Model : OneIndexChange(r[Len(p)].deployment.tables[m], next[m])
    <3>1. r[Len(p)].deployment.tables = LastOp.tables
      BY <1>4, <2>3, <2>5, <2>10 DEF LastOp
    <3>2. \A m \in Model : templateState[m] = <<>>
      BY <1>1 DEF Queued
    <3> QED BY <3>1, <3>2, <1>2 DEF Popping, LastOf
  <2>14. steps' = r /\ Len(r) - 1 = Len(p) /\ Len(r) \in Nat /\ Len(r) = Len(p) + 1 /\ d + 2 <= Len(r)
    BY <2>2, <2>4, <2>5, <2>9
  <2>15. at = 0 /\ api = current
    BY <1>2 DEF AtRest
  <2>16. Leading'
    <3>1. \A k \in 1..d : r[k].deployment.stack = dependent[k]
      BY <2>5, <2>10
    <3>2. PICK n : n = Len(r)
      OBVIOUS
    <3>3. n - 1 = Len(p) /\ d + 2 <= n /\ Len(steps') = n /\ d = Len(dependent')
      BY <1>1, <2>4, <2>14, <3>2
    <3>4. Linked(current', steps', n - 1)
      BY <1>1, <2>4, <2>11, <2>14, <3>3
    <3>5. \A k \in 1..d : steps'[k].deployment.stack = dependent'[k]
      BY <1>1, <2>14, <3>1
    <3>6. \A k \in d + 1..n - 1 : ApiStep(current', steps', d, k)
      BY <1>1, <2>4, <2>5, <2>12, <2>14, <3>3
    <3>7. /\ steps'[n].deployment.stack = "api" /\ steps'[n].deployment.tables = next'
          /\ \A m \in Model : OneIndexChange(steps'[n - 1].deployment.tables[m], next'[m])
      BY <1>1, <2>7, <2>9, <2>13, <2>14, <3>2, <3>3
    <3>8. api' = IF at' <= d THEN current' ELSE steps'[at'].deployment.tables
      BY <1>1, <2>5, <2>15
    <3>9. /\ \A k \in 1..d : k <= at' => dependent'[k] \notin connected'
          /\ pc' = "back" => at' < n
      BY <1>1, <2>2, <2>5, <2>15
    <3> QED BY <3>3, <3>4, <3>5, <3>6, <3>7, <3>8, <3>9 DEF Leading
  <2>17. TypeOK'
    BY <1>1, <1>2, <2>2, <2>14, <2>15 DEF TypeOK
  <2> QED BY <1>1, <2>2, <2>9, <2>14, <2>16, <2>17 DEF PlanInv
<1> QED BY <1>3, <1>4

-----------------------------------------------------------------------------
(* The stacks, led through the steps and back *)

\* Where the stack of the API is after so many steps.
LedTo(k) == IF k <= Len(dependent) THEN current ELSE steps[k].deployment.tables

\* The step ahead of the stacks, and the one behind them.
LEMMA LeadingFacts ==
  ASSUME PlanInv, pc \in {"deploying", "back"}
  PROVE  /\ Len(dependent) \in Nat /\ Len(steps) \in Nat /\ at \in 0..Len(steps)
         /\ \A k \in 1..Len(dependent) :
              /\ steps[k].deployment \in FunctionOps \cup ApiOps
              /\ steps[k].deployment.stack = dependent[k] /\ dependent[k] \in Function
              /\ dependent[k] # "api"
         /\ \A k \in Len(dependent) + 1..Len(steps) :
              /\ steps[k].deployment.stack = "api"
              /\ steps[k].deployment.tables \in [Model -> Table]
              /\ \A m \in Model : /\ OneIndexChange(LedTo(k - 1)[m], steps[k].deployment.tables[m])
                                  /\ Defines(current, steps[k].deployment.tables[m])
         /\ api = LedTo(at)
<1>1. TypeOK /\ Leading /\ steps \in Seq(Step)
  BY DEF PlanInv
<1>2. dependent \in Seq(Function)
  BY <1>1, OrdersAreSequences DEF TypeOK
<1>3. Len(dependent) \in Nat /\ Len(steps) \in Nat /\ at \in 0..Len(steps)
  BY <1>1, <1>2 DEF TypeOK
<1> DEFINE d == Len(dependent)
           n == Len(steps)
<1>4. /\ d + 2 <= n
      /\ \A k \in 1..d : steps[k].deployment.stack = dependent[k]
      /\ \A k \in d + 1..n - 1 : ApiStep(current, steps, d, k)
      /\ steps[n].deployment.stack = "api" /\ steps[n].deployment.tables = next
      /\ \A m \in Model : OneIndexChange(steps[n - 1].deployment.tables[m], next[m])
      /\ api = IF at <= d THEN current ELSE steps[at].deployment.tables
  BY <1>1 DEF Leading
<1>5. api = LedTo(at)
  BY <1>4 DEF LedTo
<1>6. ASSUME NEW k \in 1..d
      PROVE  /\ steps[k].deployment \in FunctionOps \cup ApiOps
             /\ steps[k].deployment.stack = dependent[k] /\ dependent[k] \in Function
             /\ dependent[k] # "api"
  <2>1. steps[k] \in Step
    BY <1>1, <1>3, <1>4
  <2>2. dependent[k] \in Function
    BY <1>2
  <2> QED BY <2>1, <2>2, <1>4, PlanAssumption DEF Step
<1>7. ASSUME NEW k \in d + 1..n
      PROVE  /\ steps[k].deployment.stack = "api"
             /\ steps[k].deployment.tables \in [Model -> Table]
             /\ \A m \in Model : /\ OneIndexChange(LedTo(k - 1)[m], steps[k].deployment.tables[m])
                                 /\ Defines(current, steps[k].deployment.tables[m])
  <2>1. CASE k = n
    <3>1. LedTo(k - 1) = steps[n - 1].deployment.tables
      BY <2>1, <1>3, <1>4 DEF LedTo
    <3>2. \A m \in Model : Defines(current, next[m])
      BY GeneratedFacts DEF PlanInv, Defines
    <3> QED BY <2>1, <3>1, <3>2, <1>1, <1>4 DEF TypeOK
  <2>2. CASE k # n
    <3>1. k \in d + 1..n - 1 /\ (k - 1 <= d <=> k = d + 1)
      BY <2>2, <1>3
    <3>2. LedTo(k - 1) = TablesBefore(current, steps, d, k)
      BY <3>1 DEF LedTo, TablesBefore
    <3>3. ApiStep(current, steps, d, k)
      BY <3>1, <1>4
    <3> HIDE DEF d
    <3> QED BY <3>2, <3>3 DEF ApiStep, ApiOps
  <2> QED BY <2>1, <2>2
<1> QED BY <1>3, <1>5, <1>6, <1>7

LEMMA OneIndexChangeSame == ASSUME NEW t PROVE OneIndexChange(t, t)
  BY DEF OneIndexChange, IndexChanges

LEMMA OneIndexChangeBack ==
  ASSUME NEW t, NEW u, OneIndexChange(t, u) PROVE OneIndexChange(u, t)
<1>1. IndexChanges(u, t) = IndexChanges(t, u)
  BY DEF IndexChanges
<1> QED BY <1>1 DEF OneIndexChange

\* A step of the deployment takes the stack of the API to where the step leads.
LEMMA DeployFacts ==
  ASSUME PlanInv, Deploy
  PROVE  /\ api = LedTo(at) /\ api' = LedTo(at + 1) /\ at' = at + 1 /\ at + 1 \in 1..Len(steps)
         /\ connected' \subseteq connected
         /\ at + 1 <= Len(dependent) => dependent[at + 1] \notin connected'
         /\ UNCHANGED <<current, next, rebuild, dependent, pc, todo, templateState, steps>>
<1> DEFINE op == steps[at + 1].deployment
<1>1. /\ pc = "deploying" /\ at < Len(steps) /\ at' = at + 1
      /\ api' = IF op.stack = "api" THEN op.tables ELSE api
      /\ connected' = connected \ {op.stack}
      /\ UNCHANGED <<current, next, rebuild, dependent, pc, todo, templateState, steps>>
  BY DEF Deploy, Applied, project
<1> HIDE DEF op
<1>2. /\ Len(dependent) \in Nat /\ Len(steps) \in Nat /\ at \in 0..Len(steps) /\ api = LedTo(at)
  BY <1>1, LeadingFacts
<1>3. at + 1 \in 1..Len(steps)
  BY <1>1, <1>2
<1>4. CASE at + 1 <= Len(dependent)
  <2>1. at + 1 \in 1..Len(dependent)
    BY <1>2, <1>4
  <2>2. op.stack = dependent[at + 1] /\ op.stack # "api"
    BY <2>1, <1>1, LeadingFacts DEF op
  <2>3. api' = api /\ api = LedTo(at + 1)
    BY <2>2, <1>1, <1>2, <1>4 DEF LedTo
  <2> QED BY <2>2, <2>3, <1>1, <1>2, <1>3
<1>5. CASE ~(at + 1 <= Len(dependent))
  <2>1. at + 1 \in Len(dependent) + 1..Len(steps)
    BY <1>2, <1>3, <1>5
  <2>2. op.stack = "api"
    BY <2>1, <1>1, LeadingFacts DEF op
  <2>3. api' = LedTo(at + 1)
    BY <2>2, <1>1, <1>5 DEF LedTo, op
  <2> QED BY <2>3, <1>1, <1>2, <1>3, <1>5
<1> QED BY <1>4, <1>5

\* What a step is rolled back to, if that is a change: the templates before it.
\* Behind the first, the rollback of the functions' steps, and of the API's first
\* after them, is none.
LEMMA RollBackFacts ==
  ASSUME PlanInv, pc = "back", at > 0, Changes(steps[at].rollback)
  PROVE  /\ at \in 1..Len(steps) - 1
         /\ steps[at].rollback.stack = "api" /\ steps[at].rollback.tables = LedTo(at - 1)
<1>1. /\ Len(dependent) \in Nat /\ Len(steps) \in Nat /\ at \in 0..Len(steps) /\ api = LedTo(at)
  BY LeadingFacts
<1>2. Leading
  BY DEF PlanInv
<1>3. at < Len(steps) /\ Len(dependent) + 2 <= Len(steps)
  BY <1>2 DEF Leading
<1>4. steps[at].rollback
        = IF at = 1 THEN ApiOp(Initial, Initial, current, {}) ELSE steps[at - 1].deployment
  BY <1>1, <1>2 DEF Leading, Linked
<1>5. \A k \in 1..Len(dependent) :
        /\ steps[k].deployment.stack = dependent[k] /\ dependent[k] # "api"
        /\ k <= at => dependent[k] \notin connected
  BY <1>2, LeadingFacts DEF Leading
<1>6. CASE at = 1
  <2>1. steps[at].rollback.stack = "api" /\ steps[at].rollback.tables = current
    BY <1>4, <1>6 DEF ApiOp
  <2>2. LedTo(at - 1) = current
    BY <1>1, <1>6 DEF LedTo
  <2> QED BY <2>1, <2>2, <1>1, <1>3, <1>6
<1>7. CASE at # 1
  <2>1. steps[at].rollback = steps[at - 1].deployment /\ at - 1 \in 1..Len(steps) /\ at - 1 <= at
    BY <1>1, <1>4, <1>7
  <2>2. ~(at - 1 <= Len(dependent))
    <3>1. SUFFICES ASSUME at - 1 <= Len(dependent) PROVE FALSE
      OBVIOUS
    <3>2. at - 1 \in 1..Len(dependent)
      BY <3>1, <2>1
    <3>3. ~Changes(steps[at - 1].deployment)
      BY <3>2, <2>1, <1>5 DEF Changes
    <3> QED BY <3>3, <2>1
  <2>3. at - 1 \in Len(dependent) + 1..Len(steps)
    BY <2>1, <2>2, <1>1
  <2>4. steps[at - 1].deployment.stack = "api"
    BY <2>3, LeadingFacts
  <2>5. LedTo(at - 1) = steps[at - 1].deployment.tables
    BY <2>2 DEF LedTo
  <2> QED BY <2>1, <2>3, <2>4, <2>5, <1>1, <1>3
<1> QED BY <1>6, <1>7

\* The API's stack after each step of the plan, and the one before, are tables
\* that one index change leads to each other.
LEMMA LedToFacts ==
  ASSUME PlanInv, pc \in {"deploying", "back"}, NEW k \in 1..Len(steps)
  PROVE  /\ LedTo(k) \in [Model -> Table] /\ LedTo(k - 1) \in [Model -> Table]
         /\ \A m \in Model : /\ OneIndexChange(LedTo(k - 1)[m], LedTo(k)[m])
                             /\ Defines(current, LedTo(k)[m]) /\ Defines(current, LedTo(k - 1)[m])
<1>1. Len(dependent) \in Nat /\ Len(steps) \in Nat
  BY LeadingFacts
<1>2. current \in [Model -> Table] /\ \A m \in Model : Defines(current, current[m])
  BY Tables DEF PlanInv, TypeOK
<1>3. \A j \in 0..Len(steps) :
        /\ LedTo(j) \in [Model -> Table] /\ \A m \in Model : Defines(current, LedTo(j)[m])
  <2>1. ASSUME NEW j \in 0..Len(steps), ~(j <= Len(dependent))
        PROVE  /\ LedTo(j) \in [Model -> Table] /\ \A m \in Model : Defines(current, LedTo(j)[m])
    <3>1. j \in Len(dependent) + 1..Len(steps) /\ LedTo(j) = steps[j].deployment.tables
      BY <2>1, <1>1 DEF LedTo
    <3> QED BY <3>1, LeadingFacts
  <2> QED BY <2>1, <1>2 DEF LedTo
<1>4. k \in 0..Len(steps) /\ k - 1 \in 0..Len(steps)
  BY <1>1
<1>5. \A m \in Model : OneIndexChange(LedTo(k - 1)[m], LedTo(k)[m])
  <2>1. CASE k <= Len(dependent)
    <3>1. LedTo(k) = current /\ LedTo(k - 1) = current
      BY <2>1, <1>1 DEF LedTo
    <3> QED BY <3>1, OneIndexChangeSame
  <2>2. CASE ~(k <= Len(dependent))
    <3>1. k \in Len(dependent) + 1..Len(steps) /\ LedTo(k) = steps[k].deployment.tables
      BY <2>2, <1>1 DEF LedTo
    <3> QED BY <3>1, LeadingFacts
  <2> QED BY <2>1, <2>2
<1> QED BY <1>3, <1>4, <1>5

\* A step of the deployment.
LEMMA DeployStep == ASSUME PlanInv, Deploy PROVE PlanInv'
<1>1. /\ api' = LedTo(at + 1) /\ at' = at + 1 /\ at + 1 \in 1..Len(steps)
      /\ connected' \subseteq connected
      /\ at + 1 <= Len(dependent) => dependent[at + 1] \notin connected'
      /\ UNCHANGED <<current, next, rebuild, dependent, pc, todo, templateState, steps>>
  BY DeployFacts
<1>2. pc = "deploying" /\ Len(dependent) \in Nat /\ Len(steps) \in Nat /\ at \in 0..Len(steps)
  BY LeadingFacts DEF Deploy
<1>3. api' \in [Model -> Table] /\ \A m \in Model : Defines(current, api'[m])
  BY <1>1, <1>2, LedToFacts
<1>4. TypeOK /\ Leading
  BY <1>2 DEF PlanInv
<1>5. TypeOK'
  BY <1>1, <1>2, <1>3, <1>4 DEF TypeOK
<1>6. Leading'
  <2>1. api' = IF at' <= Len(dependent') THEN current' ELSE steps'[at'].deployment.tables
    BY <1>1 DEF LedTo
  <2>2. \A k \in 1..Len(dependent) : k <= at + 1 => dependent[k] \notin connected'
    <3>1. \A k \in 1..Len(dependent) : k <= at => dependent[k] \notin connected
      BY <1>4 DEF Leading
    <3> QED BY <3>1, <1>1, <1>2
  <2>3. pc' # "back"
    BY <1>1, <1>2
  <2> QED BY <2>1, <2>2, <2>3, <1>1, <1>4 DEF Leading
<1> QED BY <1>1, <1>2, <1>3, <1>5, <1>6 DEF PlanInv

\* A step fails.
LEMMA FailStep == ASSUME PlanInv, Fail PROVE PlanInv'
<1>1. /\ pc = "deploying" /\ pc' = "back" /\ at < Len(steps)
      /\ UNCHANGED <<current, next, rebuild, dependent, todo, templateState, steps, at, api, connected>>
  BY DEF Fail, project, deployed
<1>2. TypeOK' /\ Leading'
  BY <1>1 DEF PlanInv, TypeOK, Leading
<1> QED BY <1>1, <1>2 DEF PlanInv

\* A step is rolled back, or its rollback is refused.
LEMMA RollBackStep == ASSUME PlanInv, RollBack PROVE PlanInv'
<1>1. /\ pc = "back" /\ at > 0
      /\ UNCHANGED <<current, next, rebuild, dependent, todo, templateState, steps>>
  BY DEF RollBack, project
<1>2. /\ Len(dependent) \in Nat /\ Len(steps) \in Nat /\ at \in 1..Len(steps)
      /\ TypeOK /\ Leading
  BY <1>1, LeadingFacts DEF PlanInv
<1>3. CASE ~Changes(steps[at].rollback)
  <2>1. pc' = "failed" /\ UNCHANGED <<at, api, connected>>
    BY <1>3 DEF RollBack, deployed
  <2>2. TypeOK' /\ steps # <<>>
    BY <1>1, <1>2, <2>1 DEF TypeOK
  <2> QED BY <1>1, <2>1, <2>2 DEF PlanInv
<1>4. CASE Changes(steps[at].rollback)
  <2>1. /\ at \in 1..Len(steps) - 1
        /\ steps[at].rollback.stack = "api" /\ steps[at].rollback.tables = LedTo(at - 1)
    BY <1>1, <1>4, RollBackFacts
  <2>2. /\ api' = LedTo(at - 1) /\ connected' = connected \ {"api"} /\ at' = at - 1 /\ pc' = pc
    BY <1>4, <2>1 DEF RollBack, Applied
  <2>3. api' \in [Model -> Table] /\ \A m \in Model : Defines(current, api'[m])
    BY <1>1, <1>2, <2>2, LedToFacts
  <2>4. TypeOK'
    BY <1>1, <1>2, <2>2, <2>3 DEF TypeOK
  <2>5. Leading'
    <3>1. api' = IF at' <= Len(dependent') THEN current' ELSE steps'[at'].deployment.tables
      BY <1>1, <2>2 DEF LedTo
    <3>2. \A k \in 1..Len(dependent) : k <= at - 1 => dependent[k] \notin connected'
      BY <1>2, <2>2 DEF Leading
    <3>3. at - 1 < Len(steps)
      BY <1>2
    <3> QED BY <3>1, <3>2, <3>3, <1>1, <1>2, <2>2 DEF Leading
  <2> QED BY <1>1, <2>2, <2>3, <2>4, <2>5 DEF PlanInv
<1> QED BY <1>3, <1>4

\* The invariant.
LEMMA PlanStep == ASSUME PlanInv, [Next]_vars PROVE PlanInv'
<1>1. ASSUME Next PROVE PlanInv'
  BY <1>1, DeleteStep, AddStep, UpdateStep, RecreateStep, BuildStepStep, StartStep, DeployStep,
     FailStep, RollBackStep DEF Next
<1>2. ASSUME UNCHANGED vars PROVE PlanInv'
  <2>1. UNCHANGED <<current, next, rebuild, dependent, pc, todo, templateState, steps, at, api, connected>>
    BY <1>2 DEF vars, project, deployed
  <2>2. TypeOK' /\ (Popping <=> Popping') /\ (Leading <=> Leading') /\ (AtRest <=> AtRest')
        /\ (TooMany <=> TooMany') /\ (\A m \in Model : Planning(m) <=> Planning(m)')
    <3>1. TypeOK'
      BY <2>1 DEF PlanInv, TypeOK
    <3>2. LastOp' = LastOp /\ Queued' = Queued /\ \A m \in Model : latest(m)' = latest(m) /\ getGSIDiffs(m)' = getGSIDiffs(m)
      BY <2>1 DEF LastOp, getCurrentlyDeployedStackStep, Queued, latest, getGSIDiffs
    <3>3. Popping <=> Popping'
      BY <2>1, <3>2 DEF Popping
    <3>4. Leading <=> Leading'
      BY <2>1 DEF Leading
    <3>5. (AtRest <=> AtRest') /\ (TooMany <=> TooMany')
      BY <2>1 DEF AtRest, TooMany
    <3>6. \A m \in Model : Planning(m) <=> Planning(m)'
      BY <2>1, <3>2 DEF Planning
    <3> QED BY <3>1, <3>3, <3>4, <3>5, <3>6
  <2> QED BY <2>1, <2>2 DEF PlanInv
<1> QED BY <1>1, <1>2

\* PlanInv holds throughout.
THEOREM PlanCorrect == Spec => []PlanInv
<1>1. Init => PlanInv
  BY InitPlan
<1>2. PlanInv /\ [Next]_vars => PlanInv'
  BY PlanStep
<1> QED BY <1>1, <1>2, PTL DEF Spec

-----------------------------------------------------------------------------
(* The properties *)

\* A non-empty set of numbers has a least one.
LEMMA LeastNumber ==
  ASSUME NEW T \in SUBSET Nat, T # {}
  PROVE  \E n \in T : \A k \in T : ~(k < n)
<1> DEFINE less == OpToRel(<, Nat)
<1>1. IsWellFoundedOn(less, Nat)
  BY NatLessThanWellFounded
<1>2. PICK n \in T : \A k \in T : ~(<<k, n>> \in less)
  <2> HIDE DEF less
  <2> QED BY <1>1, WFMin
<1>3. \A k \in T : k < n => <<k, n>> \in less
  BY DEF OpToRel
<1> QED BY <1>2, <1>3

\* The recursive ApiAt and LedTo agree.
LEMMA ApiAtLed ==
  ASSUME PlanInv, pc \in {"deploying", "back"}, NEW k \in 0..Len(steps)
  PROVE  ApiAt(k) = LedTo(k)
<1> DEFINE d == Len(dependent)
           n == Len(steps)
           Led(f) == [j \in 0..n |->
             IF j = 0 THEN current
             ELSE IF steps[j].deployment.stack = "api" THEN steps[j].deployment.tables ELSE f[j - 1]]
           last == CHOOSE f : f = Led(f)
           g == [j \in 0..n |-> LedTo(j)]
<1>1. ApiAt(k) = last[k]
  BY DEF ApiAt
<1>2. /\ d \in Nat /\ n \in Nat
      /\ \A j \in 1..d : steps[j].deployment.stack # "api"
      /\ \A j \in d + 1..n : steps[j].deployment.stack = "api"
  BY LeadingFacts
<1>3. \A j \in 0..n : LedTo(j) = IF j <= d THEN current ELSE steps[j].deployment.tables
  BY DEF LedTo
<1>4. ASSUME NEW j \in 0..n
      PROVE  g[j] = Led(g)[j]
  <2>1. CASE j = 0
    BY <2>1, <1>2, <1>3
  <2>2. CASE j # 0 /\ j <= d
    <3>1. j \in 1..d /\ j - 1 \in 0..n /\ j - 1 <= d
      BY <2>2, <1>2
    <3> QED BY <3>1, <2>2, <1>2, <1>3
  <2>3. CASE ~(j <= d)
    <3>1. j \in d + 1..n /\ j # 0
      BY <2>3, <1>2
    <3> QED BY <3>1, <2>3, <1>2, <1>3
  <2> QED BY <2>1, <2>2, <2>3
<1>5. g = Led(g)
  BY <1>4
<1>6. last = Led(last)
  <2> HIDE DEF g, Led
  <2> QED BY <1>5
<1> HIDE DEF last, g
<1>7. \A j \in 0..n :
        last[j] = IF j = 0 THEN current
                  ELSE IF steps[j].deployment.stack = "api" THEN steps[j].deployment.tables
                  ELSE last[j - 1]
  BY <1>6
<1> HIDE DEF Led
<1>8. \A j \in 0..n : last[j] = LedTo(j)
  <2>1. SUFFICES ASSUME \E j \in 0..n : last[j] # LedTo(j) PROVE FALSE
    OBVIOUS
  <2> DEFINE T == {j \in 0..n : last[j] # LedTo(j)}
  <2>2. T \in SUBSET Nat /\ T # {}
    BY <2>1, <1>2
  <2>3. PICK j \in T : \A i \in T : ~(i < j)
    BY <2>2, LeastNumber
  <2>4. j \in 0..n /\ last[j] # LedTo(j)
    BY <2>3
  <2>5. j # 0 => j - 1 \in 0..n /\ j - 1 < j
    BY <2>4, <1>2
  <2>6. j # 0 => last[j - 1] = LedTo(j - 1)
    BY <2>3, <2>5
  <2> HIDE DEF T
  <2>7. CASE j = 0
    BY <2>4, <2>7, <1>2, <1>3, <1>7
  <2>8. CASE j # 0 /\ j <= d
    <3>1. j \in 1..d /\ j - 1 <= d
      BY <2>4, <2>8, <1>2
    <3> QED BY <2>4, <2>5, <2>6, <2>8, <3>1, <1>2, <1>3, <1>7
  <2>9. CASE ~(j <= d)
    <3>1. j \in d + 1..n /\ j # 0
      BY <2>4, <2>9, <1>2
    <3> QED BY <2>4, <2>9, <3>1, <1>2, <1>3, <1>7
  <2> QED BY <2>7, <2>8, <2>9
<1> QED BY <1>1, <1>8

\* The types of the model's variables hold throughout.
THEOREM PlanTyped == Spec => []TypeOK
<1>1. PlanInv => TypeOK
  BY DEF PlanInv
<1> QED BY <1>1, PlanCorrect, PTL

\* The planner throws (canAdd) only when the new API has more indexes than a table
\* may have: deleting first leaves no legal change without room.
THEOREM ThrowsCorrect == Spec => []ThrowsForTooMany
<1>1. PlanInv => ThrowsForTooMany
  BY DEF PlanInv, ThrowsForTooMany, TooMany
<1> QED BY <1>1, PlanCorrect, PTL

\* No update, forward or back, creates or deletes more than one index of a table.
THEOREM OneAtATime == Spec => OneIndexAtATime
<1>1. ASSUME PlanInv, [Next]_vars
      PROVE  [\A m \in Model : OneIndexChange(api[m], api'[m])]_vars
  <2>1. CASE api' = api
    BY <2>1, OneIndexChangeSame
  <2>2. CASE Deploy
    <3>1. api = LedTo(at) /\ api' = LedTo(at + 1) /\ at + 1 \in 1..Len(steps) /\ at = (at + 1) - 1
      <4>1. at \in Nat
        BY <1>1, <2>2, LeadingFacts DEF Deploy
      <4> QED BY <4>1, <1>1, <2>2, DeployFacts
    <3>2. pc \in {"deploying", "back"}
      BY <2>2 DEF Deploy
    <3> QED BY <3>1, <3>2, <1>1, LedToFacts
  <2>3. CASE RollBack /\ Changes(steps[at].rollback)
    <3>1. pc = "back" /\ at > 0
      BY <2>3 DEF RollBack
    <3>2. /\ at \in 1..Len(steps) - 1 /\ at \in 1..Len(steps) /\ api = LedTo(at)
          /\ steps[at].rollback.stack = "api" /\ steps[at].rollback.tables = LedTo(at - 1)
      BY <3>1, <1>1, <2>3, RollBackFacts, LeadingFacts
    <3>3. api' = LedTo(at - 1)
      BY <2>3, <3>2 DEF RollBack, Applied
    <3> QED BY <3>1, <3>2, <3>3, <1>1, LedToFacts, OneIndexChangeBack
  <2>4. CASE RollBack /\ ~Changes(steps[at].rollback)
    BY <2>1, <2>4 DEF RollBack, deployed
  <2> QED BY <1>1, <2>1, <2>2, <2>3, <2>4 DEF Next, Delete, Add, Update, Plans, Throws, Recreate,
          BuildStep, Start, Fail, vars, deployed
<1> QED BY <1>1, PlanCorrect, PTL DEF Spec, OneIndexAtATime

\* Each template deployed defines the attributes it uses as keys, and no others, if
\* no key of a local index of the tables deployed at first is one of a global index.
THEOREM DefinesAttributes == Spec => []AttributesDefined
<1>1. PlanInv => AttributesDefined
  BY DEF PlanInv, AttributesDefined, AttributesMatch, Defines
<1> QED BY <1>1, PlanCorrect, PTL

\* The key recorded for a step names its rollback, across the pointers that
\* prependDeploymentSteps moves.
THEOREM KeysNamed == Spec => []KeysNameRollbacks
<1>1. ASSUME PlanInv PROVE KeysNameRollbacks
  <2>1. ASSUME pc \in {"deploying", "back"}, NEW k \in 1..Len(steps) - 1
        PROVE  steps[k].deployment.previous = steps[k].rollback.key
    <3>1. Len(steps) \in Nat
      BY <1>1, <2>1, LeadingFacts
    <3>2. k \in 1..Len(steps) /\ k <= Len(steps) - 1
      BY <3>1
    <3> QED BY <3>2, <1>1, <2>1 DEF PlanInv, Leading, Linked
  <2> QED BY <2>1 DEF KeysNameRollbacks
<1> QED BY <1>1, PlanCorrect, PTL

\* Without functions in front, a rollback leads to the position before the step
\* and is a change, so CloudFormation does not refuse it.
THEOREM TablesUndone == Spec => []RollbackUndoesTables
<1>1. ASSUME PlanInv PROVE RollbackUndoesTables
  <2>1. SUFFICES ASSUME dependent = <<>>, pc = "back", at > 0
                 PROVE  Changes(steps[at].rollback) /\ steps[at].rollback.tables = ApiAt(at - 1)
    BY DEF RollbackUndoesTables, RollbackUndoes
  <2>2. /\ Len(dependent) = 0 /\ Len(steps) \in Nat /\ at \in 1..Len(steps) /\ api = LedTo(at)
    BY <1>1, <2>1, LeadingFacts
  <2>3. /\ at < Len(steps) /\ \A k \in 1..Len(steps) - 1 : ApiStep(current, steps, 0, k)
        /\ steps[at].rollback
             = IF at = 1 THEN ApiOp(Initial, Initial, current, {}) ELSE steps[at - 1].deployment
    <3>1. Leading
      BY <1>1, <2>1 DEF PlanInv
    <3>2. at < Len(steps) /\ Linked(current, steps, Len(steps) - 1)
      BY <2>1, <3>1 DEF Leading
    <3>3. \A k \in 0 + 1..Len(steps) - 1 : ApiStep(current, steps, 0, k)
      BY <2>2, <3>1, Zenon DEF Leading
    <3> QED BY <2>2, <3>2, <3>3 DEF Linked
  <2>4. ApiStep(current, steps, 0, at)
    BY <2>2, <2>3
  <2>5. steps[at].deployment.tables # LedTo(at - 1)
    <3>1. TablesBefore(current, steps, 0, at) = LedTo(at - 1)
      BY <2>2 DEF TablesBefore, LedTo
    <3> QED BY <2>4, <3>1 DEF ApiStep
  <2>6. api = steps[at].deployment.tables
    BY <2>2 DEF LedTo
  <2>7. steps[at].rollback.stack = "api" /\ steps[at].rollback.tables = LedTo(at - 1)
    <3>1. CASE at = 1
      BY <3>1, <2>2, <2>3 DEF LedTo, ApiOp
    <3>2. CASE at # 1
      <4>1. at - 1 \in 1..Len(steps) - 1 /\ ~(at - 1 <= 0)
        BY <3>2, <2>2, <2>3
      <4>2. steps[at - 1].deployment.stack = "api"
        BY <4>1, <2>3 DEF ApiStep, ApiOps
      <4> QED BY <3>2, <4>1, <4>2, <2>2, <2>3 DEF LedTo
    <3> QED BY <3>1, <3>2
  <2>8. ApiAt(at - 1) = LedTo(at - 1)
    <3>1. at - 1 \in 0..Len(steps)
      BY <2>2
    <3> QED BY <3>1, <1>1, <2>1, ApiAtLed
  <2> QED BY <2>5, <2>6, <2>7, <2>8 DEF Changes
<1> QED BY <1>1, PlanCorrect, PTL

\* Each update of the API that another update of the plan follows waits for every
\* table it changes: the steps before the last, and the rollbacks to one of them.
\* (The last step, and the rollback to the templates deployed at first, wait for
\* none, and end the plan.)
THEOREM AwaitsChanges == Spec => []ChangesAwaited
<1>1. ASSUME PlanInv PROVE ChangesAwaited
  <2> DEFINE d == Len(dependent)
  <2>1. SUFFICES ASSUME pc \in {"deploying", "back"}, NEW k \in 1..Len(steps) - 1,
                        steps[k].deployment.stack = "api",
                        NEW m \in Model, steps[k].deployment.tables[m] # ApiAt(k - 1)[m]
                 PROVE  /\ m \in steps[k].deployment.tableNames
                        /\ k > 1 /\ steps[k].rollback.stack = "api" =>
                             m \in steps[k].rollback.tableNames
    BY Zenon DEF ChangesAwaited
  <2>2. d \in Nat /\ Len(steps) \in Nat
    BY <1>1, <2>1, LeadingFacts
  <2>3. k \in d + 1..Len(steps) - 1
    <3>1. ~(k \in 1..d)
      BY <1>1, <2>1, LeadingFacts
    <3> QED BY <3>1, <2>2
  <2>4. /\ ApiStep(current, steps, d, k) /\ k \in 1..Len(steps)
        /\ steps[k].rollback
             = IF k = 1 THEN ApiOp(Initial, Initial, current, {}) ELSE steps[k - 1].deployment
    BY <1>1, <2>1, <2>2, <2>3 DEF PlanInv, Leading, Linked
  <2>5. ApiAt(k - 1) = TablesBefore(current, steps, d, k)
    <3>1. k - 1 \in 0..Len(steps) /\ (k - 1 <= d <=> k = d + 1)
      BY <2>2, <2>3
    <3>2. ApiAt(k - 1) = LedTo(k - 1)
      BY <3>1, <1>1, <2>1, ApiAtLed
    <3> QED BY <3>1, <3>2 DEF LedTo, TablesBefore
  <2>6. m \in steps[k].deployment.tableNames
        /\ (k # d + 1 => m \in steps[k - 1].deployment.tableNames)
    BY <2>1, <2>4, <2>5 DEF ApiStep
  <2>7. ASSUME k > 1, steps[k].rollback.stack = "api"
        PROVE  m \in steps[k].rollback.tableNames
    <3>1. steps[k].rollback = steps[k - 1].deployment
      BY <2>7, <2>4
    <3>2. k # d + 1
      <4>1. SUFFICES ASSUME k = d + 1 PROVE FALSE
        OBVIOUS
      <4>2. k - 1 \in 1..d
        BY <4>1, <2>7, <2>2
      <4>3. steps[k - 1].deployment.stack # "api"
        BY <4>2, <1>1, <2>1, LeadingFacts
      <4> QED BY <4>3, <3>1, <2>7
    <3> QED BY <3>1, <3>2, <2>6
  <2> QED BY <2>6, <2>7
<1> QED BY <1>1, PlanCorrect, PTL
=============================================================================
