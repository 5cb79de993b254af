-------------------------- MODULE SubscriptionServer --------------------------
(***************************************************************************)
(* The subscription server of the AppSync simulator: websocket connections *)
(* whose messages are handled by asynchronous functions that nobody awaits,*)
(* so that the handlers of one connection, its closing and the server's    *)
(* stop() interleave at every await (websocket-server/server.ts).  What is *)
(* at stake are the iterators that the subscriptions hold open.            *)
(***************************************************************************)
EXTENDS Naturals, FiniteSets

CONSTANTS
  Conn,       \* connections that may be made
  Id,         \* subscription ids
  Start,      \* GQL_START messages, each with the iterator it may open
  NoStart,    \* none of them
  WindowSets  \* sets of the following that may happen in one behaviour

Windows ==
  {"same",    \* a message about an id arrives while another is being handled
   "early",   \* a connection is closed while a GQL_START of it is handled
   "deaf",    \* ... or while it is being authorized
   "late",    \* the server is stopped while a connection is being authorized
   "after"}   \* a subscription is started on a server that has been stopped

ASSUME SubscriptionAssumption ==
  NoStart \notin Start /\ WindowSets \subseteq SUBSET Windows

VARIABLES
  windows,     \* those of this behaviour
  server,      \* "on", "stopping" or "off"
  toStop,      \* connections stop() has not come to yet
  conn,        \* "none", "connecting", "listening" or "over"
  socket,      \* "none", "open" or "closed"
  connections, \* as in the class
  pings,       \* running keep-alive intervals of each connection
  handle,      \* whether pingIntervalHandle is set
  subs,        \* subscriptions: of each connection and id, the start it came from
  about,       \* connection and id of each start that was sent
  start,       \* how far its handler is
  iter,        \* iterator it opened: "none", "live" or "returned"
  closing,     \* onClose calls under way, of a closer on a connection
  left,        \* ids they have not come to yet
  returns      \* stopAsyncIterator calls that await an iterator's return()

connVars == <<conn, socket, connections, pings, handle>>
subVars  == <<subs, about, start, iter, returns>>
stopVars == <<server, toStop, closing, left>>
vars     == <<windows, connVars, subVars, stopVars>>

\* onClose is called for the socket's close and by stop().
Closers == {"socket", "server"}

\* Who has called stopAsyncIterator.
StartTask(s) == <<"start", s>>
StopTask     == <<"stop">>
CloseTask(k) == <<"close", k>>

Return == [task : {StartTask(s) : s \in Start} \cup {CloseTask(k) : k \in Closers} \cup {StopTask},
           conn : Conn, id : Id, it : Start]

TypeOK ==
  /\ windows \in WindowSets
  /\ server \in {"on", "stopping", "off"} /\ toStop \subseteq Conn
  /\ conn \in [Conn -> {"none", "connecting", "listening", "over"}]
  /\ socket \in [Conn -> {"none", "open", "closed"}]
  /\ connections \subseteq Conn
  /\ pings \in [Conn -> Nat] /\ handle \in [Conn -> BOOLEAN]
  /\ subs \in [Conn -> [Id -> Start \cup {NoStart}]]
  /\ about \in [Start -> Conn \X Id]
  /\ start \in [Start -> {"unsent", "returning", "subscribing", "attached", "failed"}]
  /\ iter \in [Start -> {"none", "live", "returned"}]
  /\ closing \subseteq Closers \X Conn /\ left \in [Closers \X Conn -> SUBSET Id]
  /\ returns \subseteq Return

Init ==
  /\ windows \in WindowSets
  /\ server = "on" /\ toStop = {}
  /\ conn = [c \in Conn |-> "none"] /\ socket = conn
  /\ connections = {}
  /\ pings = [c \in Conn |-> 0] /\ handle = [c \in Conn |-> FALSE]
  /\ subs = [c \in Conn |-> [i \in Id |-> NoStart]]
  /\ about \in [Start -> Conn \X Id]
  /\ start = [s \in Start |-> "unsent"] /\ iter = [s \in Start |-> "none"]
  /\ closing = {} /\ left = [k \in Closers \X Conn |-> {}]
  /\ returns = {}

Handled(s) == start[s] \in {"returning", "subscribing"}

-----------------------------------------------------------------------------
(* Connections *)

\* onSocketConnection up to its await; a wrong protocol is like no connection.
Connects(c) ==
  /\ server = "on" /\ conn[c] = "none"
  /\ conn' = [conn EXCEPT ![c] = "connecting"]
  /\ socket' = [socket EXCEPT ![c] = "open"]
  /\ UNCHANGED <<windows, connections, pings, handle, subVars, stopVars>>

\* onConnectHandler accepts; only now does anybody listen to the socket.
Accepted(c) ==
  /\ conn[c] = "connecting"
  /\ conn' = [conn EXCEPT ![c] = "listening"]
  /\ connections' = connections \cup {c}
  /\ UNCHANGED <<windows, socket, pings, handle, subVars, stopVars>>

Rejected(c) ==
  /\ conn[c] = "connecting"
  /\ conn' = [conn EXCEPT ![c] = "over"]
  /\ socket' = [socket EXCEPT ![c] = "closed"]
  /\ UNCHANGED <<windows, connections, pings, handle, subVars, stopVars>>

\* onConnectionInit, sent once, sets two intervals and keeps one handle.
ConnectionInit(c) ==
  /\ conn[c] = "listening" /\ socket[c] = "open" /\ pings[c] = 0 /\ ~handle[c]
  /\ pings' = [pings EXCEPT ![c] = @ + 2]
  /\ handle' = [handle EXCEPT ![c] = TRUE]
  /\ UNCHANGED <<windows, conn, socket, connections, subVars, stopVars>>

Busy(c) == \E s \in Start : about[s][1] = c /\ Handled(s)

\* onClose up to its first await: it goes through the ids registered now.
Begins(k, c) ==
  /\ closing' = closing \cup {<<k, c>>}
  /\ left' = [left EXCEPT ![<<k, c>>] = {i \in Id : subs[c][i] # NoStart}]

\* The socket closes.  If nobody listens yet, nobody ever hears of it.
SocketCloses(c) ==
  /\ socket[c] = "open"
  /\ conn[c] = "connecting" => "deaf" \in windows
  /\ Busy(c) => "early" \in windows
  /\ socket' = [socket EXCEPT ![c] = "closed"]
  /\ IF conn[c] = "listening"
     THEN conn' = [conn EXCEPT ![c] = "over"] /\ Begins("socket", c)
     ELSE UNCHANGED <<conn, closing, left>>
  /\ UNCHANGED <<windows, connections, pings, handle, subVars, server, toStop>>

-----------------------------------------------------------------------------
(* stopAsyncIterator *)

\* The call up to its await, for an id that is registered.
CallsReturn(task, c, i) ==
  /\ returns' = returns \cup {[task |-> task, conn |-> c, id |-> i, it |-> subs[c][i]]}
  /\ iter' = [iter EXCEPT ![subs[c][i]] = "returned"]

Registered(c, i) == subs[c][i] # NoStart

\* Mutant of Unregister: the subscription stays in the map.
UnregisterNothing(c, i) == UNCHANGED subs

Unregister(c, i) == subs' = [subs EXCEPT ![c][i] = NoStart]

\* The rest of it: whatever is registered under the id by now is deleted, and
\* the caller goes on.
Returned(r) ==
  /\ r \in returns
  /\ returns' = returns \ {r}
  /\ Unregister(r.conn, r.id)
  /\ start' = [s \in Start |-> IF r.task = StartTask(s) THEN "subscribing" ELSE start[s]]
  /\ UNCHANGED <<windows, connVars, about, iter, stopVars>>

-----------------------------------------------------------------------------
(* GQL_START and GQL_STOP *)

\* Nothing else is under way about the id, unless the client is hasty.
Alone(c, i) ==
  \/ "same" \in windows
  \/ /\ \A s \in Start : about[s] = <<c, i>> => ~Handled(s)
     /\ \A r \in returns : <<r.conn, r.id>> # <<c, i>>

Listens(c) ==
  /\ conn[c] = "listening" /\ socket[c] = "open"
  /\ server = "on" \/ "after" \in windows

\* Mutant of StartArrives: the old iterator is left alone.
StartArrivesOnly(s) ==
  LET c == about[s][1]
      i == about[s][2]
  IN /\ start[s] = "unsent" /\ Listens(c) /\ Alone(c, i)
     /\ start' = [start EXCEPT ![s] = "subscribing"]
     /\ UNCHANGED <<iter, returns>>
     /\ UNCHANGED <<windows, connVars, subs, about, stopVars>>

\* onSubscriptionStart up to its first await.
StartArrives(s) ==
  LET c == about[s][1]
      i == about[s][2]
  IN /\ start[s] = "unsent" /\ Listens(c) /\ Alone(c, i)
     /\ IF Registered(c, i)
        THEN CallsReturn(StartTask(s), c, i) /\ start' = [start EXCEPT ![s] = "returning"]
        ELSE start' = [start EXCEPT ![s] = "subscribing"] /\ UNCHANGED <<iter, returns>>
     /\ UNCHANGED <<windows, connVars, subs, about, stopVars>>

\* onSubscribeHandler answers with an iterator, which is registered whatever
\* has become of the connection and of the id.
Subscribed(s) ==
  /\ start[s] = "subscribing"
  /\ start' = [start EXCEPT ![s] = "attached"]
  /\ iter' = [iter EXCEPT ![s] = "live"]
  /\ subs' = [subs EXCEPT ![about[s][1]][about[s][2]] = s]
  /\ UNCHANGED <<windows, connVars, about, returns, stopVars>>

\* ... or with errors, or throws.
NotSubscribed(s) ==
  /\ start[s] = "subscribing"
  /\ start' = [start EXCEPT ![s] = "failed"]
  /\ UNCHANGED <<windows, connVars, subs, about, iter, returns, stopVars>>

\* onUnsubscribe; for an id that is not registered it only answers COMPLETE.
StopArrives(c, i) ==
  /\ Listens(c) /\ Alone(c, i) /\ Registered(c, i)
  /\ CallsReturn(StopTask, c, i)
  /\ UNCHANGED <<windows, connVars, subs, about, start, stopVars>>

-----------------------------------------------------------------------------
(* onClose and stop() *)

\* The onClose awaits a return().
Awaits(k, c) == \E r \in returns : r.task = CloseTask(k) /\ r.conn = c

CloseStops(k, c, i) ==
  /\ <<k, c>> \in closing /\ ~Awaits(k, c) /\ i \in left[<<k, c>>]
  /\ left' = [left EXCEPT ![<<k, c>>] = @ \ {i}]
  /\ IF Registered(c, i) THEN CallsReturn(CloseTask(k), c, i) ELSE UNCHANGED <<iter, returns>>
  /\ UNCHANGED <<windows, connVars, subs, about, start, server, toStop, closing>>

\* Mutant of Forget: the connection stays in the set.
ForgetNothing(c) == UNCHANGED connections

Forget(c) == connections' = connections \ {c}

\* Mutant of Cleared: the handle is not looked at.
ClearedTwice(c) == pings' = [pings EXCEPT ![c] = @ - 1]

Cleared(c) == pings' = [pings EXCEPT ![c] = IF handle[c] THEN @ - 1 ELSE @]

CloseEnds(k, c) ==
  /\ <<k, c>> \in closing /\ ~Awaits(k, c) /\ left[<<k, c>>] = {}
  /\ closing' = closing \ {<<k, c>>}
  /\ Cleared(c)
  /\ handle' = [handle EXCEPT ![c] = FALSE]
  /\ Forget(c)
  /\ UNCHANGED <<windows, conn, socket, subVars, server, toStop, left>>

Stop ==
  /\ server = "on"
  /\ (\E c \in Conn : conn[c] = "connecting") => "late" \in windows
  /\ (\E c \in Conn : Busy(c)) => "early" \in windows
  /\ server' = "stopping" /\ toStop' = connections
  /\ UNCHANGED <<windows, connVars, subVars, closing, left>>

ServerClosing(c) == <<"server", c>> \in closing

StopCloses(c) ==
  /\ server = "stopping" /\ c \in toStop /\ \A d \in Conn : ~ServerClosing(d)
  /\ toStop' = toStop \ {c}
  /\ Begins("server", c)
  /\ UNCHANGED <<windows, connVars, subVars, server>>

\* Mutant of StopWaits: onClose is called and not awaited.
StopWaitsNot == TRUE

StopWaits == \A c \in Conn : ~ServerClosing(c)

StopEnds ==
  /\ server = "stopping" /\ toStop = {} /\ StopWaits
  /\ server' = "off"
  /\ UNCHANGED <<windows, connVars, subVars, toStop, closing, left>>

-----------------------------------------------------------------------------

Messages ==
  \/ \E c \in Conn : Connects(c) \/ ConnectionInit(c) \/ SocketCloses(c)
  \/ \E s \in Start : StartArrives(s)
  \/ \E c \in Conn, i \in Id : StopArrives(c, i)
  \/ Stop

Authorizes(c) == Accepted(c) \/ Rejected(c)
Subscribes(s) == Subscribed(s) \/ NotSubscribed(s)
Closes(c) == \E k \in Closers : CloseEnds(k, c) \/ \E i \in Id : CloseStops(k, c, i)
Stops == StopEnds \/ \E c \in Conn : StopCloses(c)

Next ==
  \/ Messages
  \/ \E c \in Conn : Authorizes(c) \/ Closes(c)
  \/ \E s \in Start : Subscribes(s)
  \/ \E r \in returns : Returned(r)
  \/ Stops

\* What a handler awaits settles.  Clients need not send anything.
Fairness ==
  /\ \A c \in Conn : WF_vars(Authorizes(c)) /\ WF_vars(Closes(c))
  /\ \A s \in Start : WF_vars(Subscribes(s))
  /\ WF_vars(\E r \in returns : Returned(r))
  /\ WF_vars(Stops)

Spec == Init /\ [][Next]_vars
FairSpec == Spec /\ Fairness

-----------------------------------------------------------------------------
(* Properties *)

Live(c) == {s \in Start : about[s][1] = c /\ iter[s] = "live"}

\* An iterator that delivers is the one registered under its id, so that a
\* GQL_STOP, a new GQL_START or the closing reaches it, unless messages about
\* one id, or one and onClose, overlap.
LiveIsRegistered ==
  windows \cap {"same", "early", "after"} = {} =>
    \A s \in Start : iter[s] = "live" => subs[about[s][1]][about[s][2]] = s

\* Whatever overlaps: a registered iterator that has been returned is about to
\* be deleted by the call that returned it.
ReturnedIsDeleted ==
  \A c \in Conn, i \in Id :
    Registered(c, i) /\ iter[subs[c][i]] = "returned" =>
      \E r \in returns : r.conn = c /\ r.id = i

\* A closed socket leaves nothing behind: the connection is forgotten and its
\* iterators are returned, in the end, unless a handler awaited something when
\* onClose was called or messages about one id overlapped.
ClosedIsSwept ==
  \A c \in Conn :
    (windows \subseteq {"late"} /\ socket[c] = "closed")
      ~> (c \notin connections /\ Live(c) = {})

\* When stop() is done, no connection is known and no iterator delivers, unless
\* something was being handled when it was called or clients went on after it.
StoppedIsEmpty ==
  windows = {} /\ server = "off" => connections = {} /\ \A c \in Conn : Live(c) = {}

\* The keep-alive of a closed connection ends.  It does not: one of the two
\* intervals has no handle.
PingsEnd ==
  \A c \in Conn : socket[c] = "closed" /\ c \notin connections => pings[c] = 0

-----------------------------------------------------------------------------
(* Why they hold: a subscription is registered under what its start was    *)
(* about, and while a start is handled nothing else goes on about its id.  *)

At(r, s) == <<r.conn, r.id>> = about[s]

RegisteredInv ==
  /\ \A c \in Conn, i \in Id : Registered(c, i) => about[subs[c][i]] = <<c, i>>
  /\ \A c \in Conn : handle[c] => pings[c] > 0
  /\ ReturnedIsDeleted

OrderInv ==
  /\ \A s, t \in Start : Handled(s) /\ Handled(t) /\ about[s] = about[t] => s = t
  /\ \A s \in Start, r \in returns :
       /\ start[s] = "subscribing" => ~At(r, s)
       /\ start[s] = "returning" /\ At(r, s) => r.task = StartTask(s)
       /\ r.task = StartTask(s) => start[s] = "returning" /\ At(r, s)
  /\ \A q, r \in returns : \A s \in Start :
       q.task = StartTask(s) /\ r.task = StartTask(s) => q = r
  /\ \A s \in Start :
       start[s] = "subscribing" => ~Registered(about[s][1], about[s][2])
  /\ \A r \in returns : Registered(r.conn, r.id) => iter[subs[r.conn][r.id]] = "returned"

ClosingInv ==
  /\ \A s \in Start : Handled(s) =>
       conn[about[s][1]] = "listening" /\ socket[about[s][1]] = "open" /\ server = "on"
  /\ \A c \in Conn :
       /\ <<"socket", c>> \in closing => conn[c] = "over"
       /\ <<"server", c>> \in closing => server # "on"
  /\ \A r \in returns, k \in Closers :
       r.task = CloseTask(k) => <<k, r.conn>> \in closing

\* stop() takes all the connections there are and none is made after it; an
\* iterator that delivers belongs to a known connection, and every onClose of
\* that connection has its id still before it.
StoppingInv ==
  /\ server # "on" =>
       /\ \A c \in Conn : conn[c] # "connecting"
       /\ \A c \in connections : c \in toStop \/ ServerClosing(c)
  /\ server = "off" => toStop = {} /\ \A c \in Conn : ~ServerClosing(c)
  /\ \A c \in Conn : server = "on" /\ conn[c] = "listening" => c \in connections
  /\ \A s \in Start : iter[s] = "live" =>
       /\ about[s][1] \in connections
       /\ \A k \in Closers :
            <<k, about[s][1]>> \in closing => about[s][2] \in left[<<k, about[s][1]>>]

SubscriptionInv ==
  /\ TypeOK /\ RegisteredInv
  /\ windows \cap {"same", "early", "after"} = {} =>
       OrderInv /\ ClosingInv /\ LiveIsRegistered
=============================================================================
