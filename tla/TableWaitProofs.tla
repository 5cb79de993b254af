--------------------------- MODULE TableWaitProofs ---------------------------
(***************************************************************************)
(* TableWait, for every number of tables: no waiter of a step is released  *)
(* before one of the step's tables was seen ready.                         *)
(***************************************************************************)
EXTENDS TableWait, TLAPS

\* An invocation records what the table is.
LEMMA InvokeHonest ==
  ASSUME WaitInv, NEW t \in Tables, NEW ws \in SUBSET Tables, Invoke(t, ws),
         UNCHANGED status
  PROVE  /\ result' \in Calls /\ older' \subseteq {c \in Calls : c.answer = "pending"}
         /\ window' = "open" /\ last' = 0
         /\ \A c \in older' \cup {result'} : Honest(c)
<1>1. /\ result' = [table |-> t, seen |-> status[t], waiters |-> ws, answer |-> "pending"]
      /\ status[t] \in {"busy", "ready"}
  BY DEF WaitInv, TypeOK, Invoke
<1>2. result' \in Calls
  BY <1>1 DEF Calls
<1>3. older' \subseteq older \cup {c \in {result} : c.answer = "pending"}
  BY DEF Invoke
<1>4. older' \subseteq {c \in Calls : c.answer = "pending"}
  BY <1>3 DEF WaitInv, TypeOK
<1>5. \A c \in older' : Honest(c)
  BY <1>3 DEF WaitInv, Honest
<1>6. Honest(result')
  BY <1>1 DEF Honest
<1> QED BY <1>2, <1>4, <1>5, <1>6 DEF Invoke

\* While no table changes, what holds of the calls now holds of them later.
LEMMA HonestKept ==
  ASSUME UNCHANGED status, \A c \in older' \cup {result'} : Honest(c)
  PROVE  (\A c \in older \cup {result} : Honest(c))'
  BY DEF Honest

\* A call in the window releases its timer only when the answer it shares is
\* that a table is ready.
LEMMA ShareHonest ==
  ASSUME WaitInv, NEW t \in Tables, Share(t), UNCHANGED status
  PROVE  /\ result' \in Calls /\ older' = older /\ window' = window /\ last' = t
         /\ waiting' \subseteq Tables /\ SomeTableReady'
         /\ \A c \in older' \cup {result'} : Honest(c)
<1>1. /\ result' \in Calls /\ result'.table = result.table
      /\ result'.seen = result.seen /\ result'.answer = result.answer
  BY DEF WaitInv, TypeOK, Share, Calls
<1>2. \A c \in older' \cup {result'} : Honest(c)
  <2>1. Honest(result) /\ \A c \in older : Honest(c)
    BY DEF WaitInv
  <2>2. Honest(result')
    BY <1>1, <2>1 DEF Honest
  <2> QED BY <2>1, <2>2 DEF Share
<1>3. waiting' \subseteq Tables /\ SomeTableReady'
  <2>1. CASE result.answer = "ready"
    BY <2>1 DEF Share, WaitInv, TypeOK, SomeTableReady, Honest, Calls
  <2>2. CASE result.answer # "ready"
    BY <2>2 DEF Share, WaitInv, TypeOK, SomeTableReady
  <2> QED BY <2>1, <2>2
<1> QED BY <1>1, <1>2, <1>3 DEF Share

\* An answer releases timers only when the table it is about is ready.
LEMMA AnswerHonest ==
  ASSUME WaitInv, NEW c \in older \cup {result}, NEW a \in {"busy", "ready"},
         Answer(c, a)
  PROVE  WaitInv'
<1>1. /\ c \in Calls /\ result \in Calls /\ older \subseteq Calls
      /\ a = "ready" => status[c.table] = "ready"
  BY DEF WaitInv, TypeOK, Answer, Honest
<1>2. waiting' \subseteq Tables /\ SomeTableReady'
  BY <1>1 DEF Answer, WaitInv, TypeOK, SomeTableReady, Calls
<1>3. CASE c = result
  <2>1. /\ result' \in Calls /\ result'.table = c.table
        /\ result'.seen = c.seen /\ result'.answer = a /\ older' = older
    BY <1>1, <1>3 DEF Answer, Calls
  <2>2. \A d \in older' \cup {result'} : Honest(d)'
    BY <1>1, <2>1 DEF WaitInv, Honest, Answer
  <2> QED BY <1>2, <2>1, <2>2 DEF WaitInv, TypeOK, Answer
<1>4. CASE c # result
  BY <1>2, <1>4 DEF WaitInv, TypeOK, Honest, Answer
<1> QED BY <1>3, <1>4

LEMMA WaitInit == Init => WaitInv
  BY TableWaitAssumption DEF Init, WaitInv, TypeOK, SomeTableReady, Honest, Calls, Tables

LEMMA WaitStep == WaitInv /\ [Next]_vars => WaitInv'
<1> SUFFICES ASSUME WaitInv, [Next]_vars PROVE WaitInv'
  OBVIOUS
<1>1. CASE PauseEnds
  BY <1>1 DEF PauseEnds, WaitInv, TypeOK, SomeTableReady, Honest, throttleVars
<1>2. ASSUME NEW t \in Tables, TimerFires(t) PROVE WaitInv'
  <2>1. /\ UNCHANGED <<status, step>> /\ turn' = t /\ t \in 0 .. M
    BY <1>2 DEF TimerFires, Tables
  <2>2. CASE Invoke(t, {t}) /\ UNCHANGED waiting
    <3>1. {t} \in SUBSET Tables
      OBVIOUS
    <3>2. /\ result' \in Calls /\ older' \subseteq {c \in Calls : c.answer = "pending"}
          /\ window' = "open" /\ last' = 0
          /\ \A c \in older' \cup {result'} : Honest(c)
      BY <2>1, <2>2, <3>1, InvokeHonest
    <3>3. TypeOK'
      BY <2>1, <2>2, <3>2, TableWaitAssumption DEF WaitInv, TypeOK
    <3>4. SomeTableReady'
      BY <2>1, <2>2 DEF WaitInv, SomeTableReady
    <3> QED BY <2>1, <3>2, <3>3, <3>4, HonestKept DEF WaitInv
  <2>3. CASE Share(t)
    <3>1. /\ result' \in Calls /\ older' = older /\ window' = window /\ last' = t
          /\ waiting' \subseteq Tables /\ SomeTableReady'
          /\ \A c \in older' \cup {result'} : Honest(c)
      BY <2>1, <2>3, ShareHonest
    <3>2. TypeOK'
      BY <2>1, <3>1 DEF WaitInv, TypeOK
    <3> QED BY <2>1, <3>1, <3>2, HonestKept DEF WaitInv
  <2> QED BY <1>2, <2>2, <2>3 DEF TimerFires
<1>3. CASE WindowEnds
  <2>1. UNCHANGED <<status, step, waiting, turn>>
    BY <1>3 DEF WindowEnds
  <2>2. CASE last = 0
    BY <1>3, <2>2 DEF WindowEnds, WaitInv, TypeOK, SomeTableReady, Honest
  <2>3. CASE last # 0
    <3>1. last \in Tables /\ Invoke(last, {})
      BY <1>3, <2>3, TableWaitAssumption DEF WindowEnds, WaitInv, TypeOK, Tables
    <3>2. /\ result' \in Calls /\ older' \subseteq {c \in Calls : c.answer = "pending"}
          /\ window' = "open" /\ last' = 0
          /\ \A c \in older' \cup {result'} : Honest(c)
      BY <2>1, <3>1, InvokeHonest
    <3>3. TypeOK'
      BY <2>1, <3>2, TableWaitAssumption DEF WaitInv, TypeOK
    <3>4. SomeTableReady'
      BY <2>1 DEF WaitInv, SomeTableReady
    <3> QED BY <2>1, <3>2, <3>3, <3>4, HonestKept DEF WaitInv
  <2> QED BY <2>2, <2>3
<1>4. CASE RoundEnds
  BY <1>4, TableWaitAssumption DEF RoundEnds, WaitInv, TypeOK, SomeTableReady, Honest
<1>5. CASE StepAdvances
  BY <1>5 DEF StepAdvances, WaitInv, TypeOK, SomeTableReady, Honest, throttleVars
<1>6. CASE Answered
  <2>1. PICK c \in older \cup {result}, a \in {"busy", "ready"} : Answer(c, a)
    BY <1>6 DEF Answered, LatestAnswered, EarlierAnswered
  <2> QED BY <2>1, AnswerHonest
<1>7. CASE DescribeFails
  BY <1>7 DEF DescribeFails, WaitInv, TypeOK, SomeTableReady, Honest, throttleVars
<1>8. ASSUME NEW t \in Tables, TableReady(t) PROVE WaitInv'
  <2>1. /\ status' \in [Tables -> {"busy", "ready"}]
        /\ \A u \in Tables : status[u] = "ready" => status'[u] = "ready"
    BY <1>8 DEF TableReady, WaitInv, TypeOK
  <2>2. SomeTableReady'
    BY <1>8, <2>1 DEF TableReady, WaitInv, SomeTableReady
  <2>3. \A c \in older \cup {result} : Honest(c)'
    BY <2>1 DEF WaitInv, TypeOK, Honest, Calls
  <2> QED
    BY <1>8, <2>1, <2>2, <2>3 DEF TableReady, WaitInv, TypeOK, Honest, throttleVars
<1>9. CASE UNCHANGED vars
  BY <1>9 DEF vars, throttleVars, WaitInv, TypeOK, SomeTableReady, Honest
<1> QED
  BY <1>1, <1>2, <1>3, <1>4, <1>5, <1>6, <1>7, <1>8, <1>9 DEF Next, Poll

\* The throttle never holds more than its latest call and late ones that are
\* still unanswered, and no timer awaits a call of another step.
THEOREM WaitTyped == Spec => []TypeOK
<1>1. WaitInv => TypeOK
  BY DEF WaitInv
<1> QED BY WaitInit, WaitStep, <1>1, PTL DEF Spec

\* The wait of waitForActiveTables, shared answers and all, releases no
\* waiter before one of the step's tables was seen ready.
THEOREM SomeTableSeenReady == Spec => []SomeTableReady
<1>1. WaitInv => SomeTableReady
  BY DEF WaitInv
<1> QED BY WaitInit, WaitStep, <1>1, PTL DEF Spec
=============================================================================
