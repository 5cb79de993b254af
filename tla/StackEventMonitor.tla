-------------------------- MODULE StackEventMonitor --------------------------
(***************************************************************************)
(* The event monitor of one step of an iterative deployment and the printer*)
(* it feeds (stack-event-monitor.ts, stack-progress-printer.ts): a timer   *)
(* reads the history of one stack at a time, round robin over a list of    *)
(* stacks that the events themselves extend and shorten, page by page and  *)
(* newest event first, until the step ends and stop() makes a last read.   *)
(* CloudFormation writes the histories meanwhile.                          *)
(***************************************************************************)
EXTENDS Integers, Sequences, FiniteSets, SequencesExt, TLC

CONSTANTS
  Nested,    \* the nested stacks of the root stack
  MaxOwn,    \* bound on the resource events
  PageSize,  \* events in an answer of describeStackEvents
  MaxPolls,  \* bound on the reads
  Faults     \* which of the following may happen

FaultKinds ==
  {"throttle",\* describeStackEvents answers Throttling
   "error",   \* ... or with another error
   "rerun"}   \* a nested stack that has ended is updated again

ASSUME MonitorAssumption ==
  /\ MaxOwn \in Nat /\ PageSize \in Nat \ {0} /\ MaxPolls \in Nat
  /\ Faults \subseteq FaultKinds

Name == "name"  \* the root stack as the step names it
Root == "root"  \* the root stack as events name it, by its id

ASSUME NamesDiffer == {Name, Root} \cap Nested = {}

Stacks == Nested \cup {Root}

VARIABLES
  log,       \* history of each stack since the monitor was made, oldest first
  active,    \* as in the class
  timer,     \* a tick is scheduled
  list,      \* stacksBeingMonitored
  cur,       \* lastPolledStackIndex
  done,      \* completedStacks
  seen,      \* activity: of each stack, the places of the recorded events
  reads,     \* the read of tick and the one of finalPollToEnd
  stop,      \* "no", "waiting" for tick's read, "final", "over" or "died"
  buffer,    \* the printer's events, of each stack
  shown,     \* what has been printed, of each stack
  polls,     \* counts the reads, for MaxPolls
  hit        \* the faults that have happened

cfnVars == <<log, hit>>
monVars == <<active, timer, list, cur, done, seen, reads, stop, buffer, shown, polls>>
vars == <<cfnVars, monVars>>

Kinds == {"own", "begins", "ends"}
Event == [kind : Kinds, of : Stacks]
Readers == {"tick", "final"}
Idle == [state |-> "idle", stack |-> Root, at |-> 0, batch |-> {}]

TypeOK ==
  /\ log \in [Stacks -> Seq(Event)]
  /\ active \in BOOLEAN /\ timer \in BOOLEAN
  /\ list \in Seq(Stacks \cup {Name}) /\ cur \in 0..MaxPolls
  /\ done \subseteq Stacks
  /\ \A s \in Stacks : seen[s] \subseteq DOMAIN log[s]
  /\ \A r \in Readers :
       /\ reads[r].state \in {"idle", "reading", "read"}
       /\ reads[r].at \in 0..Len(log[reads[r].stack])
       /\ reads[r].batch \subseteq seen[reads[r].stack]
  /\ stop \in {"no", "waiting", "final", "over", "died"}
  /\ \A s \in Stacks : Range(buffer[s]) \cup Range(shown[s]) \subseteq seen[s]
  /\ polls \in 0..MaxPolls /\ hit \subseteq Faults

\* Bound of the runs: one kind of fault in a behaviour, one rerun.
MayHappen(fault) == fault \in Faults /\ hit \subseteq {fault}

Own(s) == [kind |-> "own", of |-> s]
Begins(s) == [kind |-> "begins", of |-> s]
Ends(s) == [kind |-> "ends", of |-> s]

OwnOf(s) == {i \in DOMAIN log[s] : log[s][i].kind = "own"}

\* The last thing that stack t's history says of stack s.
LastSaid(t, s) ==
  LET about == {i \in DOMAIN log[t] : log[t][i].of = s /\ log[t][i].kind # "own"}
  IN IF about = {} THEN "nothing" ELSE log[t][Max(about)].kind

\* start(), after updateStack.  What is stamped before startTime is left out of
\* the histories; the root stack's first event is kept (the clocks differ), since
\* it puts the root stack on the list a second time.
Init ==
  /\ log = [s \in Stacks |-> IF s = Root THEN <<Begins(Root)>> ELSE <<>>]
  /\ active = TRUE /\ timer = TRUE
  /\ list = <<Name>> /\ cur = 0 /\ done = {}
  /\ seen = [s \in Stacks |-> {}]
  /\ reads = [r \in Readers |-> Idle]
  /\ stop = "no" /\ buffer = [s \in Stacks |-> <<>>] /\ shown = buffer
  /\ polls = 0 /\ hit = {}

-----------------------------------------------------------------------------
(* CloudFormation: the update of the root stack ends after its nested ones *)

Writes(s, e) == log' = [log EXCEPT ![s] = Append(@, e)] /\ UNCHANGED <<hit, monVars>>

Running(s) == IF s = Root THEN LastSaid(Root, Root) # "ends"
              ELSE LastSaid(s, s) = "begins"

ResourceEvent(s) ==
  /\ Running(s) /\ Cardinality(UNION {{t} \X OwnOf(t) : t \in Stacks}) < MaxOwn
  /\ Writes(s, Own(s))

NestedBegins(n) ==
  /\ Running(Root)
  /\ \/ LastSaid(n, n) = "nothing" /\ UNCHANGED hit
     \/ /\ MayHappen("rerun") /\ hit = {} /\ LastSaid(Root, n) = "ends"
        /\ hit' = hit \cup {"rerun"}
  /\ log' = [log EXCEPT ![n] = Append(@, Begins(n)), ![Root] = Append(@, Begins(n))]
  /\ UNCHANGED monVars

NestedEnds(n) == Running(n) /\ Writes(n, Ends(n))

\* The root stack notices the end of a nested one later.
NestedEndSeen(n) ==
  /\ LastSaid(n, n) = "ends" /\ LastSaid(Root, n) = "begins"
  /\ Writes(Root, Ends(n))

RootEnds ==
  /\ Running(Root) /\ \A n \in Nested : LastSaid(Root, n) # "begins"
  /\ Writes(Root, Ends(Root))

-----------------------------------------------------------------------------
(* The list of stacks *)

\* Mutant of Processed: splice without its count.
ProcessedTakingRest(m, e) ==
  IF e.kind = "ends" /\ Contains(m.list, e.of)
  THEN [list |-> SubSeq(m.list, 1, SelectInSeq(m.list, LAMBDA s : s = e.of) - 1),
        done |-> m.done \cup {e.of}]
  ELSE IF e.of \notin m.done
       THEN [m EXCEPT !.list = Append(@, e.of)]
       ELSE m

\* processNestedStack.  Events name the root stack by its id, never by Name.
Processed(m, e) ==
  IF e.kind = "ends" /\ Contains(m.list, e.of)
  THEN [list |-> RemoveFirst(m.list, e.of), done |-> m.done \cup {e.of}]
  ELSE IF e.of \notin m.done
       THEN [m EXCEPT !.list = Append(@, e.of)]
       ELSE m

-----------------------------------------------------------------------------
(* A read *)

History(name) == IF name = Name THEN Root ELSE name

\* readNewEvents up to its first request: the next stack of the round.
ReadBegins(r) ==
  /\ polls < MaxPolls /\ polls' = polls + 1
  /\ cur' = (cur + 1) % Len(list)
  /\ LET s == History(list[cur' + 1])
     IN reads' = [reads EXCEPT ![r] =
                    [state |-> "reading", stack |-> s, at |-> Len(log[s]), batch |-> {}]]

\* Mutant of Recorded: printed events are not remembered.
RecordedNothing(s, places) == seen

Recorded(s, places) == [seen EXCEPT ![s] = @ \cup places]

\* The events of the page of history s that ends at place top, up to the first
\* recorded one; the read is finished if there is one or nothing is left.
Known(s, top) == {i \in seen[s] : top - PageSize < i /\ i <= top}

PageFrom(s, top) ==
  IF Known(s, top) # {} THEN Max(Known(s, top)) + 1 ELSE Max({1, top - PageSize + 1})

\* Mutant of Finished: NextToken is not followed.
FinishedAtFirstPage(s, top) == TRUE

Finished(s, top) == Known(s, top) # {} \/ top <= PageSize

\* The list and the completed stacks once processNestedStack has seen the events
\* of the page that are of stacks.
AfterEvents(page) ==
  LET m[k \in 0..Len(page)] ==
        IF k = 0 THEN [list |-> list, done |-> done]
        ELSE IF page[k].kind = "own" THEN m[k - 1]
        ELSE Processed(m[k - 1], page[k])
  IN m[Len(page)]

TakesPage(r) ==
  LET s == reads[r].stack
      top == reads[r].at
      page == Reverse(SubSeq(log[s], PageFrom(s, top), top))
      own == OwnOf(s) \cap (PageFrom(s, top)..top)
      m == AfterEvents(page)
  IN /\ reads[r].state = "reading"
     /\ list' = m.list /\ done' = m.done
     /\ seen' = Recorded(s, own)
     /\ reads' = [reads EXCEPT ![r].at = PageFrom(s, top) - 1,
                               ![r].batch = @ \cup own,
                               ![r].state = IF Finished(s, top) THEN "read" ELSE @]

\* The places, oldest first.
Ascending(places) ==
  CHOOSE q \in [1..Cardinality(places) -> places] :
    \A i, j \in 1..Cardinality(places) : i < j => q[i] < q[j]

\* The events of the read, oldest first, are handed to the printer.
HandsOver(s, batch) ==
  buffer' = [buffer EXCEPT ![s] = @ \o Ascending(batch)]

PageOfMany(r) ==
  /\ TakesPage(r) /\ reads'[r].state = "reading"
  /\ UNCHANGED <<cfnVars, active, timer, cur, stop, buffer, shown, polls>>

LastPage(r) ==
  /\ TakesPage(r) /\ reads'[r].state = "read"
  /\ HandsOver(reads[r].stack, reads'[r].batch)
  /\ UNCHANGED <<cfnVars, active, timer, cur, stop, shown, polls>>

\* What was read before the error is handed over all the same.
Throttled(r) ==
  /\ MayHappen("throttle") /\ reads[r].state = "reading"
  /\ hit' = hit \cup {"throttle"}
  /\ reads' = [reads EXCEPT ![r].state = "read"]
  /\ HandsOver(reads[r].stack, reads[r].batch)
  /\ UNCHANGED <<log, active, timer, list, cur, done, seen, stop, shown, polls>>

\* Any other error is nobody's to catch: neither the timer nor the state
\* machine waits for the promise, so the process ends.
Dies(r) ==
  /\ MayHappen("error") /\ reads[r].state = "reading"
  /\ hit' = hit \cup {"error"}
  /\ stop' = "died" /\ active' = FALSE /\ timer' = FALSE
  /\ reads' = [q \in Readers |-> Idle]
  /\ UNCHANGED <<log, list, cur, done, seen, buffer, shown, polls>>

-----------------------------------------------------------------------------
(* The timer, stop() and the printer *)

\* print, which assumes its events come newest first.
Prints ==
  /\ shown' = [s \in Stacks |-> shown[s] \o Reverse(buffer[s])]
  /\ buffer' = [s \in Stacks |-> <<>>]

Tick ==
  /\ timer /\ active /\ timer' = FALSE
  /\ ReadBegins("tick")
  /\ UNCHANGED <<cfnVars, active, list, done, seen, stop, buffer, shown>>

TickEnds ==
  /\ reads["tick"].state = "read"
  /\ reads' = [reads EXCEPT !["tick"] = Idle]
  /\ IF active THEN Prints /\ timer' = TRUE ELSE UNCHANGED <<buffer, shown, timer>>
  /\ UNCHANGED <<cfnVars, active, list, cur, done, seen, stop, polls>>

\* The wait for the step is over, because CloudFormation has ended the update.
Stop ==
  /\ stop = "no" /\ ~Running(Root)
  /\ stop' = "waiting" /\ active' = FALSE /\ timer' = FALSE
  /\ UNCHANGED <<cfnVars, list, cur, done, seen, reads, buffer, shown, polls>>

\* Mutant of TickIsDone: the read in progress is not waited for.
TickIsDoneOrNot == TRUE

TickIsDone == reads["tick"].state # "reading"

FinalPoll ==
  /\ stop = "waiting" /\ TickIsDone
  /\ stop' = "final"
  /\ ReadBegins("final")
  /\ UNCHANGED <<cfnVars, active, timer, list, done, seen, buffer, shown>>

FinalPrint ==
  /\ stop = "final" /\ reads["final"].state = "read"
  /\ Prints
  /\ stop' = "over" /\ reads' = [reads EXCEPT !["final"] = Idle]
  /\ UNCHANGED <<cfnVars, active, timer, list, cur, done, seen, polls>>

Next ==
  \/ \E s \in Stacks : ResourceEvent(s)
  \/ \E n \in Nested : NestedBegins(n) \/ NestedEnds(n) \/ NestedEndSeen(n)
  \/ RootEnds
  \/ \E r \in Readers : PageOfMany(r) \/ LastPage(r) \/ Throttled(r) \/ Dies(r)
  \/ Tick \/ TickEnds \/ Stop \/ FinalPoll \/ FinalPrint

Spec == Init /\ [][Next]_vars

Symmetry == Permutations(Nested)

\* Bound of the runs: nothing is explored past the monitor's end or last read.
InBounds ==
  /\ stop \notin {"died", "over"}
  /\ polls < MaxPolls \/ \E r \in Readers : reads[r].state # "idle"

-----------------------------------------------------------------------------
(* Properties *)

BetweenReads == "error" \notin hit /\ \A r \in Readers : reads[r].state # "reading"

\* What a print adds is newer, stack by stack, than all that was printed
\* before: no event is printed twice and none late, although several ticks,
\* the final poll and reads under two names of the root stack feed one printer.
ShowsOnlyNewer ==
  [][\A s \in Stacks :
       LET added == SubSeq(shown'[s], Len(shown[s]) + 1, Len(shown'[s]))
       IN IsInjective(added) /\ \A i \in Range(shown[s]), j \in Range(added) : i < j]_shown

\* "Reads all new events from the stack history": between reads, an event that
\* is recorded has no unrecorded one before it (stack-event-monitor.ts:90).
\* After a throttled read it may have.
NoGaps ==
  BetweenReads /\ "throttle" \notin hit =>
    \A s \in Stacks : \A i \in seen[s] : OwnOf(s) \cap (1..i) \subseteq seen[s]

\* "our state is single-threaded": tick's read and the final one, which share
\* the list, the round and the records, never overlap.
SingleReader == ~\A r \in Readers : reads[r].state = "reading"

\* A nested stack that runs is on the list from the read on that came past its
\* beginning, whatever ends are read before it, twice, or out of order; not if
\* it has ended before, nor if the beginning was in a throttled read's rest.
RunningIsMonitored ==
  BetweenReads /\ hit = {} =>
    \A n \in Nested :
      (Running(n) /\ \E i \in seen[Root], j \in 1..Len(log[Root]) :
                       j < i /\ log[Root][j] = Begins(n))
        => Contains(list, n)

\* "flush out all events to the printer" (stack-event-monitor.ts:180).
FlushesAll ==
  stop = "over" => \A s \in Stacks : Range(shown[s]) = OwnOf(s)

\* "print events ordered by timestamp in non-TTY"
\* (stack-progress-printer.test.ts:63).
LogIsChronological ==
  \A s \in Stacks : \A i, j \in DOMAIN shown[s] : i < j => shown[s][i] < shown[s][j]
=============================================================================
