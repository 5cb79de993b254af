----------------------- MODULE SubscriptionServerProofs -----------------------
(***************************************************************************)
(* SubscriptionInv is an invariant of SubscriptionServer, for any number of*)
(* connections, ids and messages: an iterator that delivers can be reached *)
(* under its id, and a returned one is about to be deleted.                *)
(***************************************************************************)
EXTENDS SubscriptionServer, TLAPS

Undisturbed == windows \cap {"same", "early", "after"} = {}

\* The callers of stopAsyncIterator are told apart.
LEMMA TasksDiffer ==
  /\ \A s, t \in Start : StartTask(s) = StartTask(t) => s = t
  /\ \A s \in Start : StartTask(s) # StopTask
  /\ \A s \in Start, k \in Closers : StartTask(s) # CloseTask(k)
  /\ \A k \in Closers : CloseTask(k) # StopTask
  /\ \A j, k \in Closers : CloseTask(j) = CloseTask(k) => j = k
  BY DEF StartTask, StopTask, CloseTask

\* The initial state.
LEMMA InitSubscriptions == Init => SubscriptionInv
<1> SUFFICES ASSUME Init PROVE SubscriptionInv
  OBVIOUS
<1> USE SubscriptionAssumption
<1>1. TypeOK
  BY DEF Init, TypeOK, Closers
<1>2. RegisteredInv
  BY DEF Init, RegisteredInv, ReturnedIsDeleted, Registered
<1>3. OrderInv /\ ClosingInv /\ LiveIsRegistered
  BY DEF Init, OrderInv, ClosingInv, LiveIsRegistered, Registered, Handled
<1> QED BY <1>1, <1>2, <1>3 DEF SubscriptionInv

-----------------------------------------------------------------------------
(* Types and registrations *)

\* A call of stopAsyncIterator keeps types and registrations.
LEMMA CallKeeps ==
  ASSUME TypeOK, RegisteredInv, NEW c \in Conn, NEW i \in Id, NEW task,
         task \in {StartTask(s) : s \in Start} \cup {CloseTask(k) : k \in Closers} \cup {StopTask},
         Registered(c, i), CallsReturn(task, c, i), UNCHANGED <<subs, about>>
  PROVE  /\ returns' \subseteq Return
         /\ iter' \in [Start -> {"none", "live", "returned"}]
         /\ ReturnedIsDeleted'
<1>1. subs[c][i] \in Start
  BY DEF TypeOK, Registered
<1>2. returns' \subseteq Return
  BY <1>1 DEF TypeOK, CallsReturn, Return
<1>3. iter' \in [Start -> {"none", "live", "returned"}]
  BY <1>1 DEF TypeOK, CallsReturn
<1>4. ASSUME NEW d \in Conn, NEW j \in Id, Registered(d, j)', iter'[subs'[d][j]] = "returned"
      PROVE  \E r \in returns' : r.conn = d /\ r.id = j
  <2>1. CASE <<d, j>> = <<c, i>>
    <3> DEFINE new == [task |-> task, conn |-> c, id |-> i, it |-> subs[c][i]]
    <3>1. new \in returns' /\ new.conn = d /\ new.id = j
      BY <2>1 DEF CallsReturn
    <3> QED BY <3>1
  <2>2. CASE <<d, j>> # <<c, i>>
    <3>1. subs[d][j] # subs[c][i] /\ subs[d][j] \in Start
      BY <2>2, <1>4 DEF RegisteredInv, Registered, TypeOK
    <3>2. iter[subs[d][j]] = "returned" /\ Registered(d, j)
      BY <3>1, <1>1, <1>4 DEF CallsReturn, TypeOK, Registered
    <3> QED BY <3>2 DEF RegisteredInv, ReturnedIsDeleted, CallsReturn
  <2> QED BY <2>1, <2>2
<1> QED BY <1>2, <1>3, <1>4 DEF ReturnedIsDeleted

\* So does the beginning of an onClose.
LEMMA BeginKeeps ==
  ASSUME closing \subseteq Closers \X Conn, left \in [Closers \X Conn -> SUBSET Id],
         NEW k \in Closers, NEW c \in Conn, Begins(k, c)
  PROVE  closing' \subseteq Closers \X Conn /\ left' \in [Closers \X Conn -> SUBSET Id]
  BY DEF Begins

\* A step keeps types and registrations.
LEMMA RegisteredStep ==
  ASSUME TypeOK, RegisteredInv, [Next]_vars
  PROVE  TypeOK' /\ RegisteredInv'
<1> USE SubscriptionAssumption
<1> DEFINE G == TypeOK' /\ RegisteredInv'
<1>1. ASSUME NEW c \in Conn, Connects(c) \/ Accepted(c) \/ Rejected(c) \/ ConnectionInit(c)
      PROVE  G
  <2>1. TypeOK'
    <3>1. CASE Connects(c)
      BY <3>1 DEF TypeOK, Connects, subVars, stopVars
    <3>4. CASE Rejected(c)
      BY <3>4 DEF TypeOK, Rejected, subVars, stopVars
    <3>3. CASE Accepted(c)
      <4>1. /\ conn' \in [Conn -> {"none", "connecting", "listening", "over"}]
            /\ connections' \subseteq Conn
        BY <3>3 DEF TypeOK, Accepted
      <4> QED BY <3>3, <4>1 DEF TypeOK, Accepted, subVars, stopVars
    <3>2. CASE ConnectionInit(c)
      <4>1. pings' \in [Conn -> Nat] /\ handle' \in [Conn -> BOOLEAN]
        BY <3>2 DEF TypeOK, ConnectionInit
      <4> QED BY <3>2, <4>1 DEF TypeOK, ConnectionInit, subVars, stopVars
    <3> QED BY <1>1, <3>1, <3>2, <3>3, <3>4
  <2>2. RegisteredInv'
    BY <1>1 DEF TypeOK, RegisteredInv, ReturnedIsDeleted, Registered, Connects, Accepted,
                Rejected, ConnectionInit, connVars, subVars, stopVars
  <2> QED BY <2>1, <2>2
<1>2. ASSUME NEW c \in Conn, SocketCloses(c) PROVE G
  <2>1. closing' \subseteq Closers \X Conn /\ left' \in [Closers \X Conn -> SUBSET Id]
    BY <1>2, BeginKeeps DEF TypeOK, SocketCloses, Closers
  <2>3. TypeOK'
    BY <1>2, <2>1 DEF TypeOK, SocketCloses, subVars
  <2>2. RegisteredInv'
    BY <1>2 DEF RegisteredInv, ReturnedIsDeleted, Registered, SocketCloses, subVars
  <2> QED BY <2>2, <2>3
<1>3. ASSUME NEW s \in Start, StartArrives(s) PROVE G
  <2>1. PICK c \in Conn, i \in Id : about[s] = <<c, i>>
    BY DEF TypeOK
  <2>2. CASE Registered(c, i)
    <3>1. CallsReturn(StartTask(s), c, i) /\ UNCHANGED <<subs, about>>
      BY <1>3, <2>1, <2>2 DEF StartArrives
    <3>2. returns' \subseteq Return /\ iter' \in [Start -> {"none", "live", "returned"}]
          /\ ReturnedIsDeleted'
      BY <3>1, <2>2, CallKeeps
    <3>3. TypeOK'
      BY <1>3, <2>1, <2>2, <3>2 DEF TypeOK, StartArrives, connVars, stopVars
    <3> QED BY <1>3, <3>2, <3>3 DEF RegisteredInv, Registered, StartArrives, connVars
  <2>3. CASE ~Registered(c, i)
    <3>1. UNCHANGED <<iter, returns, subs, about>>
      BY <1>3, <2>1, <2>3 DEF StartArrives
    <3>2. TypeOK'
      BY <1>3, <2>1, <2>3, <3>1 DEF TypeOK, StartArrives, connVars, stopVars
    <3> QED BY <1>3, <3>1, <3>2 DEF RegisteredInv, ReturnedIsDeleted, Registered, StartArrives, connVars
  <2> QED BY <2>2, <2>3
<1>4. ASSUME NEW s \in Start, Subscribed(s) PROVE G
  <2>1. PICK c \in Conn, i \in Id : about[s] = <<c, i>>
    BY DEF TypeOK
  <2>2. TypeOK'
    BY <1>4, <2>1 DEF TypeOK, Subscribed, connVars, stopVars
  <2>3. \A d \in Conn, j \in Id :
          subs'[d][j] = IF <<d, j>> = <<c, i>> THEN s ELSE subs[d][j]
    BY <1>4, <2>1 DEF TypeOK, Subscribed
  <2>4. ASSUME NEW d \in Conn, NEW j \in Id, Registered(d, j)'
        PROVE  about'[subs'[d][j]] = <<d, j>>
    BY <1>4, <2>1, <2>3, <2>4 DEF RegisteredInv, Registered, Subscribed
  <2>5. ASSUME NEW d \in Conn, NEW j \in Id, Registered(d, j)', iter'[subs'[d][j]] = "returned"
        PROVE  \E r \in returns' : r.conn = d /\ r.id = j
    BY <1>4, <2>1, <2>3, <2>5 DEF RegisteredInv, ReturnedIsDeleted, Registered, Subscribed, TypeOK
  <2>6. \A d \in Conn : handle'[d] => pings'[d] > 0
    BY <1>4 DEF RegisteredInv, Subscribed, connVars
  <2>7. ReturnedIsDeleted'
    BY <2>5 DEF ReturnedIsDeleted
  <2> QED BY <2>2, <2>4, <2>6, <2>7 DEF RegisteredInv
<1>5. ASSUME NEW s \in Start, NotSubscribed(s) PROVE G
  <2>1. TypeOK'
    BY <1>5 DEF TypeOK, NotSubscribed, connVars, stopVars
  <2> QED BY <1>5, <2>1 DEF RegisteredInv, ReturnedIsDeleted, Registered, NotSubscribed, connVars
<1>6. ASSUME NEW c \in Conn, NEW i \in Id, StopArrives(c, i) PROVE G
  <2>1. returns' \subseteq Return /\ iter' \in [Start -> {"none", "live", "returned"}]
        /\ ReturnedIsDeleted'
    BY <1>6, CallKeeps DEF StopArrives
  <2>2. TypeOK'
    BY <1>6, <2>1 DEF TypeOK, StopArrives, connVars, stopVars
  <2> QED BY <1>6, <2>1, <2>2 DEF RegisteredInv, Registered, StopArrives, connVars
<1>7. ASSUME NEW r \in returns, Returned(r) PROVE G
  <2>1. r.conn \in Conn /\ r.id \in Id
    BY DEF TypeOK, Return
  <2>2. TypeOK'
    BY <1>7, <2>1 DEF TypeOK, Returned, Unregister, connVars, stopVars
  <2>3. \A d \in Conn, j \in Id :
          subs'[d][j] = IF d = r.conn /\ j = r.id THEN NoStart ELSE subs[d][j]
    BY <1>7, <2>1 DEF TypeOK, Returned, Unregister
  <2>4. ASSUME NEW d \in Conn, NEW j \in Id, Registered(d, j)'
        PROVE  about'[subs'[d][j]] = <<d, j>>
    BY <1>7, <2>3, <2>4 DEF RegisteredInv, Registered, Returned
  <2>5. ASSUME NEW d \in Conn, NEW j \in Id, Registered(d, j)', iter'[subs'[d][j]] = "returned"
        PROVE  \E q \in returns' : q.conn = d /\ q.id = j
    BY <1>7, <2>3, <2>5 DEF RegisteredInv, ReturnedIsDeleted, Registered, Returned
  <2>6. \A d \in Conn : handle'[d] => pings'[d] > 0
    BY <1>7 DEF RegisteredInv, Returned, connVars
  <2> QED BY <2>2, <2>4, <2>5, <2>6 DEF RegisteredInv, ReturnedIsDeleted
<1>8. ASSUME NEW k \in Closers, NEW c \in Conn, NEW i \in Id, CloseStops(k, c, i) PROVE G
  <2>1. CASE Registered(c, i)
    <3>1. returns' \subseteq Return /\ iter' \in [Start -> {"none", "live", "returned"}]
          /\ ReturnedIsDeleted'
      BY <1>8, <2>1, CallKeeps DEF CloseStops
    <3>2. TypeOK'
      BY <1>8, <2>1, <3>1 DEF TypeOK, CloseStops, connVars
    <3> QED BY <1>8, <3>1, <3>2 DEF RegisteredInv, Registered, CloseStops, connVars
  <2>2. CASE ~Registered(c, i)
    <3>1. TypeOK'
      BY <1>8, <2>2 DEF TypeOK, CloseStops, connVars
    <3> QED BY <1>8, <2>2, <3>1 DEF RegisteredInv, ReturnedIsDeleted, Registered, CloseStops, connVars
  <2> QED BY <2>1, <2>2
<1>9. ASSUME NEW k \in Closers, NEW c \in Conn, CloseEnds(k, c) PROVE G
  <2>1. pings' \in [Conn -> Nat] /\ \A d \in Conn : handle'[d] => pings'[d] > 0
    BY <1>9 DEF TypeOK, RegisteredInv, CloseEnds, Cleared
  <2>2. TypeOK'
    BY <1>9, <2>1 DEF TypeOK, CloseEnds, Forget, subVars
  <2> QED BY <1>9, <2>1, <2>2 DEF RegisteredInv, ReturnedIsDeleted, Registered, CloseEnds, subVars
<1>10. CASE Stop \/ StopEnds \/ \E c \in Conn : StopCloses(c)
  <2>1. closing' \subseteq Closers \X Conn /\ left' \in [Closers \X Conn -> SUBSET Id]
    BY <1>10, BeginKeeps DEF TypeOK, Stop, StopEnds, StopCloses, Closers
  <2>2. toStop' \subseteq Conn /\ server' \in {"on", "stopping", "off"}
    BY <1>10 DEF TypeOK, Stop, StopEnds, StopCloses
  <2>3. TypeOK'
    BY <1>10, <2>1, <2>2 DEF TypeOK, Stop, StopEnds, StopCloses, connVars, subVars
  <2> QED BY <1>10, <2>3 DEF RegisteredInv, ReturnedIsDeleted, Registered, Stop, StopEnds,
                             StopCloses, connVars, subVars
<1>11. CASE UNCHANGED vars
  BY <1>11 DEF TypeOK, RegisteredInv, ReturnedIsDeleted, Registered, vars, connVars, subVars, stopVars
<1> QED
  BY <1>1, <1>2, <1>3, <1>4, <1>5, <1>6, <1>7, <1>8, <1>9, <1>10, <1>11
  DEF Next, Messages, Authorizes, Subscribes, Closes, Stops

-----------------------------------------------------------------------------
(* Order *)

\* A call of stopAsyncIterator by someone who is alone with the id.
LEMMA CallOrdered ==
  ASSUME TypeOK, RegisteredInv, OrderInv, NEW c \in Conn, NEW i \in Id, NEW task,
         Registered(c, i), CallsReturn(task, c, i), UNCHANGED <<subs, about>>
  PROVE  /\ \A r \in returns' : Registered(r.conn, r.id)' => iter'[subs'[r.conn][r.id]] = "returned"
         /\ \A s \in Start : iter'[s] = "live" => iter[s] = "live"
         /\ \A r \in returns' : r \in returns \/ (r.task = task /\ r.conn = c /\ r.id = i)
<1>1. subs[c][i] \in Start
  BY DEF TypeOK, Registered
<1>2. \A s \in Start : iter'[s] = IF s = subs[c][i] THEN "returned" ELSE iter[s]
  BY <1>1 DEF TypeOK, CallsReturn
<1>3. \A r \in returns' : r \in returns \/ (r.task = task /\ r.conn = c /\ r.id = i)
  BY DEF CallsReturn
<1>4. ASSUME NEW r \in returns', Registered(r.conn, r.id)'
      PROVE  iter'[subs'[r.conn][r.id]] = "returned"
  <2>1. CASE r \in returns
    <3>1. r.conn \in Conn /\ r.id \in Id /\ subs[r.conn][r.id] \in Start
      BY <1>4, <2>1 DEF TypeOK, Return, Registered
    <3> QED BY <1>2, <1>4, <2>1, <3>1 DEF OrderInv, Registered
  <2>2. CASE r.conn = c /\ r.id = i
    BY <1>1, <1>2, <2>2
  <2> QED BY <1>3, <2>1, <2>2
<1> QED BY <1>2, <1>3, <1>4

\* Handlers of one id exclude each other, and onClose excludes them all.
LEMMA OrderedStep ==
  ASSUME TypeOK, RegisteredInv, Undisturbed, OrderInv, ClosingInv, LiveIsRegistered, [Next]_vars
  PROVE  OrderInv' /\ ClosingInv' /\ LiveIsRegistered'
<1> USE SubscriptionAssumption, TasksDiffer
<1> DEFINE G == OrderInv' /\ ClosingInv' /\ LiveIsRegistered'
<1>0. \A s \in Start : iter[s] = "live" => subs[about[s][1]][about[s][2]] = s
  BY DEF Undisturbed, LiveIsRegistered
<1>1. ASSUME NEW c \in Conn, Connects(c) \/ Accepted(c) \/ Rejected(c) \/ ConnectionInit(c)
      PROVE  G
  <2>1. UNCHANGED <<subs, about, start, iter, returns, closing, server>>
    BY <1>1 DEF Connects, Accepted, Rejected, ConnectionInit, subVars, stopVars
  <2>2. \A d \in Conn : /\ conn[d] = "listening" => conn'[d] = "listening"
                        /\ conn[d] = "over" => conn'[d] = "over"
                        /\ socket[d] = "open" /\ conn[d] = "listening" => socket'[d] = "open"
    BY <1>1 DEF TypeOK, Connects, Accepted, Rejected, ConnectionInit
  <2>3. ClosingInv'
    BY <2>1, <2>2 DEF ClosingInv, Handled, TypeOK
  <2> QED BY <1>0, <2>1, <2>3 DEF OrderInv, LiveIsRegistered, Handled, At, Registered
<1>2. ASSUME NEW c \in Conn, SocketCloses(c) PROVE G
  <2>1. UNCHANGED <<subs, about, start, iter, returns, server>>
    BY <1>2 DEF SocketCloses, subVars
  <2>2. \A s \in Start : Handled(s) => about[s][1] # c
    BY <1>2 DEF SocketCloses, Busy, Undisturbed
  <2>3. \A d \in Conn : /\ d # c => conn'[d] = conn[d] /\ socket'[d] = socket[d]
                        /\ conn[d] = "over" => conn'[d] = "over"
    BY <1>2 DEF TypeOK, SocketCloses
  <2>4. closing \subseteq closing' /\ \A k \in Closers, d \in Conn :
          <<k, d>> \in closing' => <<k, d>> \in closing \/ (k = "socket" /\ d = c /\ conn'[c] = "over")
    BY <1>2 DEF TypeOK, SocketCloses, Begins
  <2>5. ClosingInv'
    <3>1. \A s \in Start : Handled(s)' =>
            conn'[about'[s][1]] = "listening" /\ socket'[about'[s][1]] = "open" /\ server' = "on"
      BY <2>1, <2>2, <2>3 DEF ClosingInv, Handled, TypeOK
    <3>2. \A d \in Conn : /\ <<"socket", d>> \in closing' => conn'[d] = "over"
                          /\ <<"server", d>> \in closing' => server' # "on"
      BY <2>1, <2>3, <2>4 DEF ClosingInv, Closers
    <3>3. \A r \in returns', k \in Closers : r.task = CloseTask(k) => <<k, r.conn>> \in closing'
      BY <2>1, <2>4 DEF ClosingInv
    <3> QED BY <3>1, <3>2, <3>3 DEF ClosingInv
  <2> QED BY <1>0, <2>1, <2>5 DEF OrderInv, LiveIsRegistered, Handled, At, Registered
<1>3. ASSUME NEW s \in Start, StartArrives(s) PROVE G
  <2>1. PICK c \in Conn, i \in Id : about[s] = <<c, i>>
    BY DEF TypeOK
  <2>2. /\ start[s] = "unsent" /\ conn[c] = "listening" /\ socket[c] = "open" /\ server = "on"
        /\ \A t \in Start : about[t] = <<c, i>> => ~Handled(t)
        /\ \A r \in returns : <<r.conn, r.id>> # <<c, i>>
        /\ UNCHANGED <<subs, about, conn, socket, closing, server>>
    BY <1>3, <2>1 DEF StartArrives, Listens, Alone, Undisturbed, connVars, stopVars
  <2>3. CASE Registered(c, i)
    <3>1. CallsReturn(StartTask(s), c, i) /\ UNCHANGED <<subs, about>>
      BY <1>3, <2>1, <2>3 DEF StartArrives
    <3>2. start' = [start EXCEPT ![s] = "returning"]
      BY <1>3, <2>1, <2>3 DEF StartArrives
    <3>3. /\ \A r \in returns' : Registered(r.conn, r.id)' => iter'[subs'[r.conn][r.id]] = "returned"
          /\ \A t \in Start : iter'[t] = "live" => iter[t] = "live"
          /\ \A r \in returns' : r \in returns \/ (r.task = StartTask(s) /\ r.conn = c /\ r.id = i)
      BY <2>3, <3>1, CallOrdered
    <3>4. \A t \in Start : start'[t] = IF t = s THEN "returning" ELSE start[t]
      BY <3>2 DEF TypeOK
    <3>5. \A t, u \in Start : Handled(t)' /\ Handled(u)' /\ about'[t] = about'[u] => t = u
      BY <2>1, <2>2, <3>4 DEF OrderInv, Handled
    <3>6. \A t \in Start, r \in returns' :
            /\ start'[t] = "subscribing" => ~At(r, t)'
            /\ start'[t] = "returning" /\ At(r, t)' => r.task = StartTask(t)
            /\ r.task = StartTask(t) => start'[t] = "returning" /\ At(r, t)'
      BY <2>1, <2>2, <3>3, <3>4 DEF OrderInv, At, Handled
    <3>7. \A q, r \in returns' : \A t \in Start :
            q.task = StartTask(t) /\ r.task = StartTask(t) => q = r
      <4>1. \A r \in returns : r.task # StartTask(s)
        BY <2>2 DEF OrderInv
      <4>2. \A q, r \in returns' : q \notin returns /\ r \notin returns => q = r
        BY <3>1 DEF CallsReturn
      <4> QED BY <3>3, <4>1, <4>2 DEF OrderInv
    <3>8. \A t \in Start : start'[t] = "subscribing" => ~Registered(about[t][1], about[t][2])'
      BY <2>2, <3>4 DEF OrderInv, Registered
    <3>9. OrderInv'
      BY <3>3, <3>5, <3>6, <3>7, <3>8 DEF OrderInv
    <3>10. ClosingInv'
      <4>1. \A t \in Start : Handled(t)' =>
              conn'[about'[t][1]] = "listening" /\ socket'[about'[t][1]] = "open" /\ server' = "on"
        BY <2>1, <2>2, <3>4 DEF ClosingInv, Handled
      <4>2. \A r \in returns', k \in Closers : r.task = CloseTask(k) => <<k, r.conn>> \in closing'
        BY <2>2, <3>3 DEF ClosingInv
      <4> QED BY <2>2, <4>1, <4>2 DEF ClosingInv
    <3>11. LiveIsRegistered'
      BY <1>0, <2>2, <3>3 DEF LiveIsRegistered
    <3> QED BY <3>9, <3>10, <3>11
  <2>4. CASE ~Registered(c, i)
    <3>1. start' = [start EXCEPT ![s] = "subscribing"] /\ UNCHANGED <<iter, returns>>
      BY <1>3, <2>1, <2>4 DEF StartArrives
    <3>2. \A t \in Start : start'[t] = IF t = s THEN "subscribing" ELSE start[t]
      BY <3>1 DEF TypeOK
    <3>3. \A t, u \in Start : Handled(t)' /\ Handled(u)' /\ about'[t] = about'[u] => t = u
      BY <2>1, <2>2, <3>2 DEF OrderInv, Handled
    <3>4. \A t \in Start, r \in returns' :
            /\ start'[t] = "subscribing" => ~At(r, t)'
            /\ start'[t] = "returning" /\ At(r, t)' => r.task = StartTask(t)
            /\ r.task = StartTask(t) => start'[t] = "returning" /\ At(r, t)'
      BY <2>1, <2>2, <3>1, <3>2 DEF OrderInv, At, Handled
    <3>5. \A t \in Start : start'[t] = "subscribing" => ~Registered(about[t][1], about[t][2])'
      BY <2>1, <2>2, <2>4, <3>2 DEF OrderInv, Registered
    <3>6. OrderInv'
      BY <2>2, <3>1, <3>3, <3>4, <3>5 DEF OrderInv, Registered
    <3>7. ClosingInv'
      BY <2>1, <2>2, <3>1, <3>2 DEF ClosingInv, Handled
    <3>8. LiveIsRegistered'
      BY <1>0, <2>2, <3>1 DEF LiveIsRegistered
    <3> QED BY <3>6, <3>7, <3>8
  <2> QED BY <2>3, <2>4
<1>4. ASSUME NEW s \in Start, Subscribed(s) PROVE G
  <2>1. PICK c \in Conn, i \in Id : about[s] = <<c, i>>
    BY DEF TypeOK
  <2>2. /\ start[s] = "subscribing" /\ ~Registered(c, i)
        /\ \A r \in returns : <<r.conn, r.id>> # <<c, i>>
        /\ \A t \in Start : Handled(t) /\ about[t] = <<c, i>> => t = s
        /\ UNCHANGED <<about, returns, conn, socket, closing, server>>
    BY <1>4, <2>1 DEF Subscribed, OrderInv, At, Handled, connVars, stopVars
  <2>3. \A d \in Conn, j \in Id :
          subs'[d][j] = IF <<d, j>> = <<c, i>> THEN s ELSE subs[d][j]
    BY <1>4, <2>1 DEF TypeOK, Subscribed
  <2>4. \A t \in Start : /\ start'[t] = IF t = s THEN "attached" ELSE start[t]
                         /\ iter'[t] = IF t = s THEN "live" ELSE iter[t]
    BY <1>4 DEF TypeOK, Subscribed
  <2>5. \A t \in Start : start'[t] = "subscribing" => ~Registered(about[t][1], about[t][2])'
    <3> SUFFICES ASSUME NEW t \in Start, start'[t] = "subscribing"
                 PROVE  ~Registered(about[t][1], about[t][2])'
      OBVIOUS
    <3>1. PICK d \in Conn, j \in Id : about[t] = <<d, j>>
      BY DEF TypeOK
    <3>2. start[t] = "subscribing" /\ t # s
      BY <2>4
    <3>3. <<d, j>> # <<c, i>>
      BY <2>2, <3>1, <3>2 DEF Handled
    <3>4. ~Registered(d, j)
      BY <3>1, <3>2 DEF OrderInv
    <3> QED BY <2>2, <2>3, <3>1, <3>3, <3>4 DEF Registered
  <2>6. \A r \in returns' : Registered(r.conn, r.id)' => iter'[subs'[r.conn][r.id]] = "returned"
    <3> SUFFICES ASSUME NEW r \in returns, Registered(r.conn, r.id)'
                 PROVE  iter'[subs'[r.conn][r.id]] = "returned"
      BY <2>2
    <3>1. r.conn \in Conn /\ r.id \in Id
      BY DEF TypeOK, Return
    <3>2. subs'[r.conn][r.id] = subs[r.conn][r.id]
      BY <2>2, <2>3, <3>1
    <3>3. iter[subs[r.conn][r.id]] = "returned" /\ subs[r.conn][r.id] \in Start
      BY <3>1, <3>2 DEF OrderInv, Registered, TypeOK
    <3>4. subs[r.conn][r.id] # s
      BY <2>1, <2>2, <3>1, <3>2 DEF RegisteredInv, Registered
    <3> QED BY <2>4, <3>2, <3>3, <3>4
  <2>7. OrderInv'
    BY <2>1, <2>2, <2>4, <2>5, <2>6 DEF OrderInv, Handled, At
  <2>8. ClosingInv'
    BY <2>2, <2>4 DEF ClosingInv, Handled
  <2>9. LiveIsRegistered'
    <3> SUFFICES ASSUME NEW t \in Start, iter'[t] = "live"
                 PROVE  subs'[about'[t][1]][about'[t][2]] = t
      BY DEF LiveIsRegistered
    <3>1. CASE t = s
      BY <2>1, <2>2, <2>3, <3>1
    <3>2. CASE t # s
      <4>1. PICK d \in Conn, j \in Id : about[t] = <<d, j>>
        BY DEF TypeOK
      <4>2. subs[d][j] = t
        BY <1>0, <2>4, <3>2, <4>1
      <4>3. <<d, j>> # <<c, i>>
        BY <2>2, <4>2 DEF Registered
      <4> QED BY <2>2, <2>3, <4>1, <4>2, <4>3
    <3> QED BY <3>1, <3>2
  <2> QED BY <2>7, <2>8, <2>9
<1>5. ASSUME NEW s \in Start, NotSubscribed(s) PROVE G
  <2>1. \A t \in Start : start'[t] = IF t = s THEN "failed" ELSE start[t]
    BY <1>5 DEF TypeOK, NotSubscribed
  <2>2. UNCHANGED <<subs, about, iter, returns, conn, socket, closing, server>> /\ start[s] = "subscribing"
    BY <1>5 DEF NotSubscribed, connVars, stopVars
  <2>3. OrderInv'
    BY <2>1, <2>2 DEF OrderInv, Handled, At, Registered
  <2>4. ClosingInv'
    BY <2>1, <2>2 DEF ClosingInv, Handled
  <2> QED BY <1>0, <2>2, <2>3, <2>4 DEF LiveIsRegistered
<1>6. ASSUME NEW c \in Conn, NEW i \in Id, StopArrives(c, i) PROVE G
  <2>1. /\ Registered(c, i) /\ CallsReturn(StopTask, c, i)
        /\ \A t \in Start : about[t] = <<c, i>> => ~Handled(t)
        /\ UNCHANGED <<subs, about, start, conn, socket, closing, server>>
    BY <1>6 DEF StopArrives, Alone, Undisturbed, connVars, stopVars
  <2>2. /\ \A r \in returns' : Registered(r.conn, r.id)' => iter'[subs'[r.conn][r.id]] = "returned"
        /\ \A t \in Start : iter'[t] = "live" => iter[t] = "live"
        /\ \A r \in returns' : r \in returns \/ (r.task = StopTask /\ r.conn = c /\ r.id = i)
    BY <2>1, CallOrdered
  <2>3. OrderInv'
    BY <2>1, <2>2 DEF OrderInv, Handled, At, Registered
  <2>4. ClosingInv'
    BY <2>1, <2>2 DEF ClosingInv, Handled
  <2> QED BY <1>0, <2>1, <2>2, <2>3, <2>4 DEF LiveIsRegistered
<1>7. ASSUME NEW r \in returns, Returned(r) PROVE G
  <2>0. r.conn \in Conn /\ r.id \in Id
    BY DEF TypeOK, Return
  <2>1. \A d \in Conn, j \in Id :
          subs'[d][j] = IF d = r.conn /\ j = r.id THEN NoStart ELSE subs[d][j]
    BY <1>7, <2>0 DEF TypeOK, Returned, Unregister
  <2>2. \A t \in Start : start'[t] = IF r.task = StartTask(t) THEN "subscribing" ELSE start[t]
    BY <1>7 DEF Returned
  <2>3. returns' = returns \ {r} /\ UNCHANGED <<about, iter, conn, socket, closing, server>>
    BY <1>7 DEF Returned, connVars, stopVars
  <2>4. \A t \in Start : Handled(t)' <=> Handled(t)
    BY <2>2 DEF OrderInv, Handled
  <2>5. \A t \in Start, q \in returns' :
          /\ start'[t] = "subscribing" => ~At(q, t)'
          /\ start'[t] = "returning" /\ At(q, t)' => q.task = StartTask(t)
          /\ q.task = StartTask(t) => start'[t] = "returning" /\ At(q, t)'
    BY <2>2, <2>3 DEF OrderInv, At
  <2>6. \A t \in Start : start'[t] = "subscribing" => ~Registered(about[t][1], about[t][2])'
    <3> SUFFICES ASSUME NEW t \in Start, start'[t] = "subscribing"
                 PROVE  ~Registered(about[t][1], about[t][2])'
      OBVIOUS
    <3>1. PICK d \in Conn, j \in Id : about[t] = <<d, j>>
      BY DEF TypeOK
    <3>2. CASE r.task = StartTask(t)
      <4>1. <<r.conn, r.id>> = <<d, j>>
        BY <3>1, <3>2 DEF OrderInv, At
      <4> QED BY <2>1, <2>3, <3>1, <4>1 DEF Registered
    <3>3. CASE r.task # StartTask(t)
      <4>1. ~Registered(d, j)
        BY <2>2, <3>1, <3>3 DEF OrderInv
      <4> QED BY <2>1, <2>3, <3>1, <4>1 DEF Registered
    <3> QED BY <3>2, <3>3
  <2>7. \A q \in returns' : Registered(q.conn, q.id)' => iter'[subs'[q.conn][q.id]] = "returned"
    <3> SUFFICES ASSUME NEW q \in returns, Registered(q.conn, q.id)'
                 PROVE  iter[subs'[q.conn][q.id]] = "returned"
      BY <2>3
    <3>1. q.conn \in Conn /\ q.id \in Id
      BY DEF TypeOK, Return
    <3>2. subs'[q.conn][q.id] = subs[q.conn][q.id]
      BY <2>1, <3>1 DEF Registered
    <3> QED BY <3>2 DEF OrderInv, Registered
  <2>8. OrderInv'
    <3>1. \A t, u \in Start : Handled(t)' /\ Handled(u)' /\ about'[t] = about'[u] => t = u
      BY <2>3, <2>4 DEF OrderInv
    <3>2. \A p, q \in returns' : \A t \in Start :
            p.task = StartTask(t) /\ q.task = StartTask(t) => p = q
      BY <2>3 DEF OrderInv
    <3> QED BY <2>5, <2>6, <2>7, <3>1, <3>2 DEF OrderInv
  <2>9. ClosingInv'
    <3>1. \A t \in Start : Handled(t)' =>
            conn'[about'[t][1]] = "listening" /\ socket'[about'[t][1]] = "open" /\ server' = "on"
      BY <2>3, <2>4 DEF ClosingInv
    <3> QED BY <2>3, <3>1 DEF ClosingInv
  <2>10. LiveIsRegistered'
    <3> SUFFICES ASSUME NEW t \in Start, iter[t] = "live"
                 PROVE  subs'[about[t][1]][about[t][2]] = t
      BY <2>3 DEF LiveIsRegistered
    <3>1. PICK d \in Conn, j \in Id : about[t] = <<d, j>>
      BY DEF TypeOK
    <3>2. subs[d][j] = t
      BY <1>0, <3>1
    <3>3. ~(d = r.conn /\ j = r.id)
      BY <3>2 DEF OrderInv, Registered
    <3> QED BY <2>1, <3>1, <3>2, <3>3
  <2> QED BY <2>8, <2>9, <2>10
<1>8. ASSUME NEW k \in Closers, NEW c \in Conn, NEW i \in Id, CloseStops(k, c, i) PROVE G
  <2>1. /\ <<k, c>> \in closing
        /\ UNCHANGED <<subs, about, start, conn, socket, closing, server>>
    BY <1>8 DEF CloseStops, connVars
  <2>2. CASE Registered(c, i)
    <3>1. CallsReturn(CloseTask(k), c, i)
      BY <1>8, <2>2 DEF CloseStops
    <3>2. /\ \A r \in returns' : Registered(r.conn, r.id)' => iter'[subs'[r.conn][r.id]] = "returned"
          /\ \A t \in Start : iter'[t] = "live" => iter[t] = "live"
          /\ \A r \in returns' : r \in returns \/ (r.task = CloseTask(k) /\ r.conn = c /\ r.id = i)
      BY <2>1, <2>2, <3>1, CallOrdered
    <3>3. \A t \in Start : about[t] = <<c, i>> => ~Handled(t)
      <4>1. conn[c] = "over" \/ server # "on"
        BY <2>1 DEF ClosingInv, Closers
      <4> QED BY <4>1 DEF ClosingInv
    <3>4. OrderInv'
      BY <2>1, <3>2, <3>3 DEF OrderInv, Handled, At, Registered
    <3>5. ClosingInv'
      BY <2>1, <3>2 DEF ClosingInv, Handled
    <3> QED BY <1>0, <2>1, <3>2, <3>4, <3>5 DEF LiveIsRegistered
  <2>3. CASE ~Registered(c, i)
    <3>1. UNCHANGED <<iter, returns>>
      BY <1>8, <2>3 DEF CloseStops
    <3> QED BY <1>0, <2>1, <3>1 DEF OrderInv, ClosingInv, LiveIsRegistered, Handled, At, Registered
  <2> QED BY <2>2, <2>3
<1>9. ASSUME NEW k \in Closers, NEW c \in Conn, CloseEnds(k, c) PROVE G
  <2>1. /\ closing' = closing \ {<<k, c>>} /\ ~Awaits(k, c)
        /\ UNCHANGED <<subs, about, start, iter, returns, conn, socket, server>>
    BY <1>9 DEF CloseEnds, subVars
  <2>2. \A r \in returns, j \in Closers : r.task = CloseTask(j) => <<j, r.conn>> # <<k, c>>
    BY <2>1 DEF Awaits
  <2>3. ClosingInv'
    BY <2>1, <2>2 DEF ClosingInv, Handled
  <2> QED BY <1>0, <2>1, <2>3 DEF OrderInv, LiveIsRegistered, Handled, At, Registered
<1>10. CASE Stop
  <2>1. /\ UNCHANGED <<subs, about, start, iter, returns, conn, socket, closing>> /\ server' = "stopping"
        /\ \A s \in Start : ~Handled(s)
    BY <1>10 DEF Stop, Busy, Undisturbed, TypeOK, connVars, subVars
  <2>2. ClosingInv'
    BY <2>1 DEF ClosingInv, Handled
  <2> QED BY <1>0, <2>1, <2>2 DEF OrderInv, LiveIsRegistered, Handled, At, Registered
<1>11. CASE StopEnds
  <2>1. /\ UNCHANGED <<subs, about, start, iter, returns, conn, socket, closing>>
        /\ server = "stopping" /\ server' = "off"
    BY <1>11 DEF StopEnds, connVars, subVars
  <2>2. ClosingInv'
    BY <2>1 DEF ClosingInv, Handled
  <2> QED BY <1>0, <2>1, <2>2 DEF OrderInv, LiveIsRegistered, Handled, At, Registered
<1>12. ASSUME NEW c \in Conn, StopCloses(c) PROVE G
  <2>1. /\ UNCHANGED <<subs, about, start, iter, returns, conn, socket, server>>
        /\ server = "stopping" /\ closing' = closing \cup {<<"server", c>>}
    BY <1>12 DEF StopCloses, Begins, connVars, subVars
  <2>2. ClosingInv'
    BY <2>1 DEF ClosingInv, Handled
  <2> QED BY <1>0, <2>1, <2>2 DEF OrderInv, LiveIsRegistered, Handled, At, Registered
<1>13. CASE UNCHANGED vars
  BY <1>13 DEF OrderInv, ClosingInv, LiveIsRegistered, Handled, At, Registered,
               vars, connVars, subVars, stopVars
<1> QED
  BY <1>1, <1>2, <1>3, <1>4, <1>5, <1>6, <1>7, <1>8, <1>9, <1>10, <1>11, <1>12, <1>13
  DEF Next, Messages, Authorizes, Subscribes, Closes, Stops

-----------------------------------------------------------------------------

\* windows is chosen once and for all.
LEMMA WindowsStay == [Next]_vars => windows' = windows
  BY DEF Next, Messages, Authorizes, Subscribes, Closes, Stops, vars, Connects, Accepted,
         Rejected, ConnectionInit, SocketCloses, StartArrives, StopArrives, Subscribed,
         NotSubscribed, Returned, CloseStops, CloseEnds, Stop, StopCloses, StopEnds

\* The inductive invariant of the subscription server.
LEMMA SubscriptionInvariant == Spec => []SubscriptionInv
<1>1. SubscriptionInv /\ [Next]_vars => SubscriptionInv'
  <2> SUFFICES ASSUME SubscriptionInv, [Next]_vars PROVE SubscriptionInv'
    OBVIOUS
  <2>1. TypeOK' /\ RegisteredInv'
    BY RegisteredStep DEF SubscriptionInv
  <2>2. ASSUME Undisturbed PROVE OrderInv' /\ ClosingInv' /\ LiveIsRegistered'
    BY <2>2, RegisteredStep, OrderedStep DEF SubscriptionInv, Undisturbed
  <2> QED BY <2>1, <2>2, WindowsStay DEF SubscriptionInv, Undisturbed
<1> QED BY InitSubscriptions, <1>1, PTL DEF Spec

\* Every reachable state of connections, subscriptions and tasks is well typed,
\* whatever overlaps.
THEOREM SubscriptionsTyped == Spec => []TypeOK
<1>1. SubscriptionInv => TypeOK
  BY DEF SubscriptionInv, RegisteredInv
<1> QED BY SubscriptionInvariant, <1>1, PTL

\* Whatever overlaps, an iterator of this server that has been returned and is
\* still in the subscriptions of its connection is about to be deleted from
\* them by the stopAsyncIterator call that returned it.
THEOREM ReturnedGoes == Spec => []ReturnedIsDeleted
<1>1. SubscriptionInv => ReturnedIsDeleted
  BY DEF SubscriptionInv, RegisteredInv
<1> QED BY SubscriptionInvariant, <1>1, PTL

\* An iterator that delivers can be reached under its id by GQL_STOP, by a new
\* GQL_START and by onClose, as long as these do not overlap.
THEOREM LiveIsReachable == Spec => []LiveIsRegistered
<1>1. SubscriptionInv => LiveIsRegistered
  BY DEF SubscriptionInv, LiveIsRegistered
<1> QED BY SubscriptionInvariant, <1>1, PTL

-----------------------------------------------------------------------------
(* Stopping *)

\* What an iterator that delivers owes to the closing of its connection.
Swept(s) ==
  /\ about[s][1] \in connections
  /\ \A k \in Closers : <<k, about[s][1]>> \in closing => about[s][2] \in left[<<k, about[s][1]>>]

\* Calls of stopAsyncIterator and onClose keep what the live iterators owe.
LEMMA SweptKept ==
  ASSUME StoppingInv, UNCHANGED <<about, connections, closing, left>>,
         \A s \in Start : iter'[s] = "live" => iter[s] = "live"
  PROVE  \A s \in Start : iter'[s] = "live" => Swept(s)'
BY DEF StoppingInv, Swept

\* stopAsyncIterator makes no iterator live.
LEMMA CallEnds ==
  ASSUME TypeOK, NEW c \in Conn, NEW i \in Id, NEW task, Registered(c, i), CallsReturn(task, c, i)
  PROVE  \A s \in Start : iter'[s] = IF s = subs[c][i] THEN "returned" ELSE iter[s]
BY DEF TypeOK, Registered, CallsReturn

\* An onClose begins with every live iterator of its connection before it.
LEMMA BeginSweeps ==
  ASSUME TypeOK, StoppingInv, \A s \in Start : iter[s] = "live" => subs[about[s][1]][about[s][2]] = s,
         NEW k \in Closers, NEW c \in Conn, Begins(k, c), UNCHANGED <<about, connections, iter>>
  PROVE  \A s \in Start : iter'[s] = "live" => Swept(s)'
<1> SUFFICES ASSUME NEW s \in Start, iter[s] = "live" PROVE Swept(s)'
  OBVIOUS
<1>1. PICK d \in Conn, i \in Id : about[s] = <<d, i>>
  BY DEF TypeOK
<1>2. d \in connections /\ subs[d][i] = s
  BY <1>1 DEF StoppingInv
<1>3. ASSUME NEW j \in Closers, <<j, d>> \in closing' PROVE i \in left'[<<j, d>>]
  <2>1. CASE <<j, d>> = <<k, c>>
    <3>1. left'[<<k, c>>] = {h \in Id : subs[c][h] # NoStart}
      BY DEF TypeOK, Begins
    <3> QED BY <1>2, <2>1, <3>1, SubscriptionAssumption
  <2>2. CASE <<j, d>> # <<k, c>>
    <3>1. left'[<<j, d>>] = left[<<j, d>>] /\ <<j, d>> \in closing
      BY <1>3, <2>2 DEF TypeOK, Begins
    <3> QED BY <1>1, <3>1 DEF StoppingInv
  <2> QED BY <2>1, <2>2
<1> QED BY <1>1, <1>2, <1>3 DEF Swept

\* A step of a server whose clients are calm keeps what stop() relies on.
LEMMA StoppingStep ==
  ASSUME TypeOK, RegisteredInv, windows = {}, OrderInv, ClosingInv, LiveIsRegistered,
         StoppingInv, [Next]_vars
  PROVE  StoppingInv'
<1> USE SubscriptionAssumption
<1> DEFINE Order == /\ server' # "on" =>
                         /\ \A c \in Conn : conn'[c] # "connecting"
                         /\ \A c \in connections' : c \in toStop' \/ ServerClosing(c)'
                    /\ server' = "off" => toStop' = {} /\ \A c \in Conn : ~ServerClosing(c)'
                    /\ \A c \in Conn : server' = "on" /\ conn'[c] = "listening" => c \in connections'
           LiveSwept == \A s \in Start : iter'[s] = "live" => Swept(s)'
           G == Order /\ LiveSwept
<1>0. \A s \in Start : iter[s] = "live" => subs[about[s][1]][about[s][2]] = s
  BY DEF LiveIsRegistered
<1>1. ASSUME UNCHANGED <<server, toStop, conn, connections, closing>> PROVE Order
  BY <1>1 DEF StoppingInv, ServerClosing
<1>2. ASSUME UNCHANGED <<about, connections, iter, closing, left>> PROVE LiveSwept
  BY <1>2, SweptKept
<1>3. ASSUME NEW c \in Conn, Connects(c) \/ Accepted(c) \/ Rejected(c) \/ ConnectionInit(c)
      PROVE  G
  <2>1. UNCHANGED <<about, iter, closing, left, server, toStop>>
    BY <1>3 DEF Connects, Accepted, Rejected, ConnectionInit, subVars, stopVars
  <2>2. connections \subseteq connections'
    BY <1>3 DEF Connects, Accepted, Rejected, ConnectionInit
  <2>3. LiveSwept
    BY <2>1, <2>2 DEF StoppingInv, Swept
  <2>4. Order
    <3>1. /\ \A d \in Conn : conn'[d] # conn[d] => d = c /\ (Connects(c) \/ Accepted(c) \/ Rejected(c))
          /\ Accepted(c) => connections' = connections \cup {c}
          /\ ~Accepted(c) => connections' = connections
      BY <1>3 DEF TypeOK, Connects, Accepted, Rejected, ConnectionInit
    <3>2. server # "on" => ~Connects(c) /\ ~Accepted(c) /\ ~Rejected(c)
      BY DEF StoppingInv, Connects, Accepted, Rejected
    <3>3. conn'[c] = "listening" => conn[c] = "listening" \/ Accepted(c)
      BY <1>3 DEF TypeOK, Connects, Rejected, ConnectionInit
    <3> QED BY <2>1, <3>1, <3>2, <3>3 DEF StoppingInv, ServerClosing
  <2> QED BY <2>3, <2>4
<1>4. ASSUME NEW c \in Conn, SocketCloses(c) PROVE G
  <2>1. UNCHANGED <<about, iter, server, toStop, connections>> /\ conn[c] # "connecting"
    BY <1>4 DEF SocketCloses, subVars
  <2>2. \/ conn' = [conn EXCEPT ![c] = "over"] /\ Begins("socket", c)
        \/ UNCHANGED <<conn, closing, left>>
    BY <1>4 DEF SocketCloses
  <2>3. Order
    <3>1. \A d \in Conn : conn'[d] = conn[d] \/ conn'[d] = "over"
      BY <2>2 DEF TypeOK
    <3>2. \A d \in Conn : ServerClosing(d)' <=> ServerClosing(d)
      BY <2>2 DEF Begins, ServerClosing
    <3> QED BY <2>1, <3>1, <3>2 DEF StoppingInv, TypeOK
  <2>4. LiveSwept
    BY <1>0, <1>2, <2>1, <2>2, BeginSweeps DEF Closers
  <2> QED BY <2>3, <2>4
<1>5. ASSUME NEW s \in Start, StartArrives(s) PROVE G
  <2>1. PICK c \in Conn, i \in Id : about[s] = <<c, i>>
    BY DEF TypeOK
  <2>2. UNCHANGED <<about, server, toStop, conn, connections, closing, left>>
    BY <1>5 DEF StartArrives, connVars, stopVars
  <2>3. \A t \in Start : iter'[t] = "live" => iter[t] = "live"
    BY <1>5, <2>1, CallEnds DEF StartArrives
  <2> QED BY <1>1, <2>2, <2>3, SweptKept
<1>6. ASSUME NEW s \in Start, Subscribed(s) PROVE G
  <2>1. PICK c \in Conn, i \in Id : about[s] = <<c, i>>
    BY DEF TypeOK
  <2>2. UNCHANGED <<about, server, toStop, conn, connections, closing, left>>
    BY <1>6 DEF Subscribed, connVars, stopVars
  <2>3. \A t \in Start : iter'[t] = IF t = s THEN "live" ELSE iter[t]
    BY <1>6 DEF TypeOK, Subscribed
  <2>4. c \in connections /\ \A k \in Closers : <<k, c>> \notin closing
    <3>1. conn[c] = "listening" /\ server = "on"
      BY <1>6, <2>1 DEF Subscribed, ClosingInv, Handled
    <3> QED BY <3>1 DEF StoppingInv, ClosingInv, Closers
  <2>5. LiveSwept
    BY <2>1, <2>2, <2>3, <2>4 DEF StoppingInv, Swept
  <2> QED BY <1>1, <2>2, <2>5
<1>7. ASSUME NEW s \in Start, NotSubscribed(s) PROVE G
  BY <1>1, <1>2, <1>7 DEF NotSubscribed, connVars, stopVars
<1>8. ASSUME NEW c \in Conn, NEW i \in Id, StopArrives(c, i) PROVE G
  <2>1. UNCHANGED <<about, server, toStop, conn, connections, closing, left>>
    BY <1>8 DEF StopArrives, connVars, stopVars
  <2>2. \A t \in Start : iter'[t] = "live" => iter[t] = "live"
    BY <1>8, CallEnds DEF StopArrives
  <2> QED BY <1>1, <2>1, <2>2, SweptKept
<1>9. ASSUME NEW r \in returns, Returned(r) PROVE G
  BY <1>1, <1>2, <1>9 DEF Returned, connVars, stopVars
<1>10. ASSUME NEW k \in Closers, NEW c \in Conn, NEW i \in Id, CloseStops(k, c, i) PROVE G
  <2>1. UNCHANGED <<about, server, toStop, conn, connections, closing>>
        /\ left' = [left EXCEPT ![<<k, c>>] = @ \ {i}]
    BY <1>10 DEF CloseStops, connVars
  <2>2. \A t \in Start : iter'[t] = "live" => iter[t] = "live" /\ about[t] # <<c, i>>
    <3>1. CASE Registered(c, i)
      <4>1. \A t \in Start : iter'[t] = IF t = subs[c][i] THEN "returned" ELSE iter[t]
        BY <1>10, <3>1, CallEnds DEF CloseStops
      <4> QED BY <1>0, <4>1
    <3>2. CASE ~Registered(c, i)
      <4>1. UNCHANGED iter
        BY <1>10, <3>2 DEF CloseStops
      <4> QED BY <1>0, <3>2, <4>1 DEF Registered
    <3> QED BY <3>1, <3>2
  <2>3. LiveSwept
    <3> SUFFICES ASSUME NEW t \in Start, iter'[t] = "live" PROVE Swept(t)'
      OBVIOUS
    <3>1. PICK d \in Conn, j \in Id : about[t] = <<d, j>>
      BY DEF TypeOK
    <3>2. iter[t] = "live" /\ <<d, j>> # <<c, i>> /\ d \in connections
      BY <2>2, <3>1 DEF StoppingInv
    <3>3. ASSUME NEW h \in Closers, <<h, d>> \in closing PROVE j \in left'[<<h, d>>]
      <4>1. j \in left[<<h, d>>]
        BY <3>1, <3>2, <3>3 DEF StoppingInv
      <4>2. CASE <<h, d>> = <<k, c>>
        <5>1. left'[<<k, c>>] = left[<<k, c>>] \ {i}
          BY <2>1 DEF TypeOK
        <5> QED BY <3>2, <4>1, <4>2, <5>1
      <4>3. CASE <<h, d>> # <<k, c>>
        <5>1. left'[<<h, d>>] = left[<<h, d>>]
          BY <2>1, <4>3 DEF TypeOK
        <5> QED BY <4>1, <5>1
      <4> QED BY <4>2, <4>3
    <3> QED BY <2>1, <3>1, <3>2, <3>3 DEF Swept
  <2> QED BY <1>1, <2>1, <2>3
<1>11. ASSUME NEW k \in Closers, NEW c \in Conn, CloseEnds(k, c) PROVE G
  <2>1. /\ closing' = closing \ {<<k, c>>} /\ left[<<k, c>>] = {} /\ <<k, c>> \in closing
        /\ connections' = connections \ {c}
        /\ UNCHANGED <<about, iter, server, toStop, conn, left>>
    BY <1>11 DEF CloseEnds, Forget, subVars
  <2>2. LiveSwept
    <3> SUFFICES ASSUME NEW t \in Start, iter[t] = "live" PROVE Swept(t)'
      BY <2>1
    <3>1. about[t][1] # c /\ Swept(t)
      BY <2>1 DEF StoppingInv, Swept
    <3> QED BY <2>1, <3>1 DEF Swept
  <2>3. Order
    <3>1. \A d \in Conn : d # c => (ServerClosing(d)' <=> ServerClosing(d))
      BY <2>1 DEF ServerClosing
    <3>2. \A d \in Conn : ServerClosing(d)' => ServerClosing(d)
      BY <2>1 DEF ServerClosing
    <3>3. server = "on" => conn[c] # "listening"
      BY <2>1 DEF ClosingInv, Closers
    <3> QED BY <2>1, <3>1, <3>2, <3>3 DEF StoppingInv, TypeOK
  <2> QED BY <2>2, <2>3
<1>12. ASSUME Stop PROVE G
  <2>1. /\ UNCHANGED <<about, iter, conn, connections, closing, left>>
        /\ server' = "stopping" /\ toStop' = connections
        /\ \A c \in Conn : conn[c] # "connecting"
    BY <1>12 DEF Stop, connVars, subVars
  <2> QED BY <1>2, <2>1
<1>13. ASSUME StopEnds PROVE G
  <2>1. /\ UNCHANGED <<about, iter, conn, connections, toStop, closing, left>>
        /\ server = "stopping" /\ server' = "off" /\ toStop = {}
        /\ \A c \in Conn : ~ServerClosing(c)
    BY <1>13 DEF StopEnds, StopWaits, connVars, subVars
  <2>2. Order
    BY <2>1 DEF StoppingInv, ServerClosing
  <2> QED BY <1>2, <2>1, <2>2
<1>14. ASSUME NEW c \in Conn, StopCloses(c) PROVE G
  <2>1. /\ UNCHANGED <<about, iter, conn, connections, server>>
        /\ server = "stopping" /\ toStop' = toStop \ {c} /\ Begins("server", c)
    BY <1>14 DEF StopCloses, connVars, subVars
  <2>2. Order
    <3>1. \A d \in Conn : ServerClosing(d)' <=> ServerClosing(d) \/ d = c
      BY <2>1 DEF ServerClosing, Begins
    <3> QED BY <2>1, <3>1 DEF StoppingInv, TypeOK
  <2>3. LiveSwept
    BY <1>0, <2>1, BeginSweeps DEF Closers
  <2> QED BY <2>2, <2>3
<1>15. ASSUME UNCHANGED vars PROVE G
  BY <1>1, <1>2, <1>15 DEF vars, connVars, subVars, stopVars
<1>16. G
  <2> HIDE DEF G
  <2> QED
    BY <1>3, <1>4, <1>5, <1>6, <1>7, <1>8, <1>9, <1>10, <1>11, <1>12, <1>13, <1>14, <1>15
    DEF Next, Messages, Authorizes, Subscribes, Closes, Stops
<1> QED BY <1>16 DEF StoppingInv, Swept

\* When stop() is done, no connection is known and no iterator delivers, however
\* many connections there are and wherever their own onClose calls stand, if no
\* handler was waiting for anything when it was called and no client goes on.
THEOREM StopsEmpty == Spec => []StoppedIsEmpty
<1> DEFINE Inv == windows = {} => StoppingInv
<1>1. Init => Inv
  BY DEF Init, StoppingInv
<1>2. SubscriptionInv /\ Inv /\ [Next]_vars => Inv'
  <2> SUFFICES ASSUME SubscriptionInv, Inv, [Next]_vars, windows' = {} PROVE StoppingInv'
    OBVIOUS
  <2>1. windows = {}
    BY WindowsStay
  <2> QED BY <2>1, StoppingStep DEF SubscriptionInv
<1>3. SubscriptionInv /\ Inv => StoppedIsEmpty
  <2> SUFFICES ASSUME SubscriptionInv, StoppingInv, server = "off"
               PROVE  connections = {} /\ \A c \in Conn : Live(c) = {}
    BY DEF StoppedIsEmpty
  <2>1. connections = {}
    BY DEF StoppingInv, SubscriptionInv, TypeOK
  <2> QED BY <2>1 DEF StoppingInv, Live
<1> HIDE DEF Inv
<1> QED BY SubscriptionInvariant, <1>1, <1>2, <1>3, PTL DEF Spec
=============================================================================
