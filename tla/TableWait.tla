------------------------------ MODULE TableWait ------------------------------
(***************************************************************************)
(* How a step waits for its DynamoDB tables: getTableStatus, waitForActive-*)
(* Tables and the pause of waitForIndices (packages/amplify-provider-      *)
(* awscloudformation/src/iterative-deployment/deployment-manager.ts).      *)
(*                                                                         *)
(* Each table has an interval timer; all of them call one throttled        *)
(* getTableStatus, whose wait is the timers' period.  lodash.throttle      *)
(* calls the function on the first call and, when a call came in           *)
(* meanwhile, once more with the last call's argument when the wait is     *)
(* over; every call between returns the promise of the latest invocation,  *)
(* whatever table that was for.                                            *)
(*                                                                         *)
(* Time is counted in rounds, in which every timer fires once, in the      *)
(* order of the tables.  A wait begun in a round is over about when the    *)
(* next begins, a millisecond before a call or after it.                   *)
(***************************************************************************)
EXTENDS Integers, FiniteSets

CONSTANTS M,            \* number of tables of the step
          MaxInFlight   \* superseded calls of describeTable not yet answered

ASSUME TableWaitAssumption ==
  M \in Nat /\ M >= 1 /\ MaxInFlight \in Nat

Tables == 1 .. M

VARIABLES
  status,    \* of each table: "ready", or "busy" being deleted or indexed
  step,      \* "paused", "polling", "advanced", or "dead": process ended
  waiting,   \* tables whose timer runs
  turn,      \* last table whose timer fired in this round, 0: none
  window,    \* the throttle's wait: "open", "due" or "closed"
  last,      \* argument of the last call in it, 0: none
  result,    \* the latest invocation
  older      \* earlier ones not yet answered

throttleVars == <<window, last, result, older>>
vars == <<status, step, waiting, turn, throttleVars>>

\* An invocation of getTableStatus: what describeTable would have said when
\* it was issued, what it said, and the timers that have its promise.
Calls == [table : Tables, seen : {"busy", "ready"}, waiters : SUBSET Tables,
          answer : {"pending", "busy", "ready"}]

TypeOK ==
  /\ status \in [Tables -> {"busy", "ready"}]
  /\ step \in {"paused", "polling", "advanced", "dead"}
  /\ waiting \subseteq Tables /\ turn \in 0 .. M
  /\ window \in {"open", "due", "closed"} /\ last \in 0 .. M
  /\ result \in Calls
  /\ older \subseteq {c \in Calls : c.answer = "pending"}

Init ==
  /\ status \in [Tables -> {"busy", "ready"}]
  /\ step = "paused" /\ waiting = Tables /\ turn = 0
  /\ window = "closed" /\ last = 0
  /\ result = [table |-> 1, seen |-> "busy", waiters |-> {}, answer |-> "busy"]
  /\ older = {}

\* The two seconds in which the changes of the tables begin.
PauseEnds ==
  /\ step = "paused" /\ step' = "polling"
  /\ UNCHANGED <<status, waiting, turn, throttleVars>>

\* Mutant of Invoke: answered invocations are kept with the others.
InvokeKeepingAnswered(t, waiters) ==
  /\ older' = older \cup {result} /\ Cardinality(older') <= MaxInFlight
  /\ result' = [table |-> t, seen |-> status[t], waiters |-> waiters, answer |-> "pending"]
  /\ window' = "open" /\ last' = 0

\* invokeFunc of the throttle.
Invoke(t, waiters) ==
  /\ older' = older \cup (IF result.answer = "pending" THEN {result} ELSE {})
  /\ Cardinality(older') <= MaxInFlight
  /\ result' = [table |-> t, seen |-> status[t], waiters |-> waiters, answer |-> "pending"]
  /\ window' = "open" /\ last' = 0

\* Mutant of Share: a call in the window gets a promise of its own that is
\* settled at once.
ShareUnasked(t) ==
  /\ last' = t
  /\ waiting' = waiting \ {t}
  /\ UNCHANGED <<window, result, older>>

\* A call in the window gets the promise of the latest invocation.
Share(t) ==
  /\ last' = t
  /\ waiting' = IF result.answer = "ready" THEN waiting \ {t} ELSE waiting
  /\ result' = [result EXCEPT !.waiters = IF result.answer = "pending" THEN @ \cup {t} ELSE @]
  /\ UNCHANGED <<window, older>>

MayInvoke == window # "open" \/ turn = 0

TimerFires(t) ==
  /\ step = "polling"
  /\ t \in waiting /\ t > turn /\ \A u \in waiting : u > turn => t <= u
  /\ turn' = t
  /\ \/ MayInvoke /\ Invoke(t, {t}) /\ UNCHANGED waiting
     \/ window # "closed" /\ Share(t)
  /\ UNCHANGED <<status, step>>

\* timerExpired of the throttle.
WindowEnds ==
  /\ step = "polling" /\ window = "due"
  /\ IF last = 0 THEN window' = "closed" /\ UNCHANGED <<last, result, older>>
                 ELSE Invoke(last, {})
  /\ UNCHANGED <<status, step, waiting, turn>>

\* Mutant of RoundEnds: setTimeout for setInterval, no timer fires twice.
RoundEndsNever == FALSE

RoundEnds ==
  /\ step = "polling" /\ window # "due" /\ turn > 0
  /\ \A u \in waiting : u <= turn
  /\ turn' = 0
  /\ window' = IF window = "open" THEN "due" ELSE window
  /\ UNCHANGED <<status, step, waiting, last, result, older>>

\* getTableStatus ends with what the table was, then or now; the timers that
\* have its promise stop when that is ready.
Answer(c, a) ==
  /\ step = "polling" /\ c.answer = "pending" /\ a \in {c.seen, status[c.table]}
  /\ waiting' = IF a = "ready" THEN waiting \ c.waiters ELSE waiting
  /\ IF c = result THEN result' = [result EXCEPT !.answer = a] /\ UNCHANGED older
                   ELSE older' = older \ {c} /\ UNCHANGED result
  /\ UNCHANGED <<status, step, turn, window, last>>

LatestAnswered     == \E a \in {"busy", "ready"} : Answer(result, a)
EarlierAnswered(t) ==
  \E c \in older : c.table = t /\ \E a \in {"busy", "ready"} : Answer(c, a)

Answered == LatestAnswered \/ \E t \in Tables : EarlierAnswered(t)

\* describeTable fails: nobody handles the rejection and the process ends.
DescribeFails ==
  /\ step = "polling" /\ (result.answer = "pending" \/ older # {})
  /\ step' = "dead"
  /\ UNCHANGED <<status, waiting, turn, throttleVars>>

StepAdvances ==
  /\ step = "polling" /\ waiting = {}
  /\ step' = "advanced"
  /\ UNCHANGED <<status, waiting, turn, throttleVars>>

\* DynamoDB.
TableReady(t) ==
  /\ status[t] = "busy" /\ step # "paused"
  /\ status' = [status EXCEPT ![t] = "ready"]
  /\ UNCHANGED <<step, waiting, turn, throttleVars>>

Poll == PauseEnds \/ (\E t \in Tables : TimerFires(t)) \/ WindowEnds \/ RoundEnds
          \/ StepAdvances

Next == Poll \/ Answered \/ DescribeFails \/ \E t \in Tables : TableReady(t)

Spec == Init /\ [][Next]_vars

\* Timers fire, each describeTable is answered, and DynamoDB ends what it
\* began.
FairSpec ==
  /\ Spec /\ WF_vars(Poll) /\ WF_vars(LatestAnswered)
  /\ \A t \in Tables : WF_vars(EarlierAnswered(t)) /\ WF_vars(TableReady(t))

\* The wait comes to an end, although most calls of most tables are never
\* made and their waiters hang on the answers given to others.
WaitEnds == <>(step \in {"advanced", "dead"})

\* What the wait does guarantee: no waiter is released before one of the
\* step's tables was seen ready.
SomeTableReady == waiting # Tables => \E t \in Tables : status[t] = "ready"

\* Why: a call that saw or said "ready" is about a table that is, and stays,
\* ready.
Honest(c) == "ready" \in {c.seen, c.answer} => status[c.table] = "ready"
WaitInv == TypeOK /\ SomeTableReady /\ \A c \in older \cup {result} : Honest(c)

\* What its message says, "Waiting for DynamoDB indices to be ready.": the
\* step advances when each of its tables is ready.
EveryTableReady == step = "advanced" => \A t \in Tables : status[t] = "ready"
=============================================================================
