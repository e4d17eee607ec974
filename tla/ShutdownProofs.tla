--------------------------- MODULE ShutdownProofs ---------------------------
(***************************************************************************)
(* Theorems about Shutdown, for any number of requests and subjects and    *)
(* any buffer: what the order of the shutdown guarantees, and what the     *)
(* refresher's counters add up to.                                         *)
(***************************************************************************)
EXTENDS Shutdown, FiniteSetTheorems, TLAPS

(* The refresher and the pool.                                             *)

\* Once the pool starts closing the refresher refuses, and nobody is at work.
PoolWaits ==
  /\ refresh \in [Requests -> {"none", "running"}]
  /\ main \in {"drainRefresher", "closing", "exited"} => stopped
  /\ pool # "open" => stopped /\ RefreshesDone

LEMMA PoolWaitsStep ==
  ASSUME PoolWaits, [Next]_vars
  PROVE  PoolWaits'
<1> USE DEF PoolWaits, RefreshesDone
<1>1. CASE ListenerNext \/ Sweep \/ SweepEnds \/ Signal \/ UNCHANGED vars
  <2>1. UNCHANGED <<main, refresh, stopped, pool>>
    BY <1>1 DEF ListenerNext, Sweep, SweepEnds, Signal, SubscribeFails, ConnectionCloses,
         ListenerDrained, ListenerExpires, Subscribe, Event, BeginHandle, CutHandle, EndHandle,
         procVars, refresherVars, vars
  <2> QED
    BY <2>1
<1>2. ASSUME NEW r \in Requests, Accept(r) \/ RequestFails(r) \/ CommitWrite(r)
      PROVE  PoolWaits'
  <2>1. UNCHANGED <<main, refresh, stopped, pool>>
    BY <1>2 DEF Accept, RequestFails, CommitWrite, procVars, refresherVars
  <2> QED
    BY <2>1
<1>3. ASSUME NEW r \in Requests, AfterItemWrite(r)
      PROVE  PoolWaits'
  <2>1. UNCHANGED <<main, stopped, pool>>
    BY <1>3 DEF AfterItemWrite, procVars
  <2>2. stopped => refresh' = refresh
    BY <1>3 DEF AfterItemWrite, Refuses
  <2>3. refresh' \in [Requests -> {"none", "running"}]
    BY <1>3 DEF AfterItemWrite
  <2> QED
    BY <2>1, <2>2, <2>3
<1>4. ASSUME NEW r \in Requests, RefreshEnds(r)
      PROVE  PoolWaits'
  <2>1. UNCHANGED <<main, stopped, pool>> /\ refresh' = [refresh EXCEPT ![r] = "none"]
    BY <1>4 DEF RefreshEnds, procVars
  <2> QED
    BY <2>1
<1>5. CASE Serve \/ StopListener \/ ShutdownServer \/ ServerDown \/ Abandon \/ PoolClosed \/ Killed
  <2>1. UNCHANGED <<refresh, stopped>>
    BY <1>5 DEF Serve, StopListener, ShutdownServer, ServerDown, Abandon, PoolClosed, Killed,
         refresherVars
  <2>2. \/ main' = main
        \/ main' \notin {"drainRefresher", "closing", "exited"}
    BY <1>5 DEF Serve, StopListener, ShutdownServer, ServerDown, Abandon, PoolClosed, Killed,
         procVars, Go
  <2>3. pool' = pool \/ pool # "open"
    BY <1>5 DEF Serve, StopListener, ShutdownServer, ServerDown, Abandon, PoolClosed, Killed
  <2> QED
    BY <2>1, <2>2, <2>3
<1>6. CASE StopRefresher
  BY <1>6 DEF StopRefresher, Go
<1>7. CASE Close
  BY <1>7 DEF Close, Go, StopReturns, refresherVars
<1>8. CASE Exit
  BY <1>8 DEF Exit, Go, refresherVars
<1> QED
  BY <1>1, <1>2, <1>3, <1>4, <1>5, <1>6, <1>7, <1>8 DEF Next, RequestNext, MainNext

\* No background refresh runs once the pool starts closing, however many were
\* asked for and however late (Refresher.Stop before closeFn).
THEOREM RefreshesEndBeforePoolHolds == Spec => []RefreshesEndBeforePool
<1>1. Init => PoolWaits
  BY DEF Init, PoolWaits
<1>2. PoolWaits => RefreshesEndBeforePool
  BY DEF PoolWaits, RefreshesEndBeforePool
<1> QED
  BY <1>1, <1>2, PoolWaitsStep, PTL DEF Spec
-----------------------------------------------------------------------------
(* The listener.                                                           *)

\* A handler works on a message that still counts as pending. Handlers are told
\* to give up only by a listener that has stopped: it drained and nothing is
\* pending, it lost its connection, or its budget ran out.
DrainsFirst ==
  /\ pending \in [Subjects -> Nat]
  /\ handler \in [Subjects -> {"idle", "running", "cut"}]
  /\ \A s \in Subjects : handler[s] # "idle" => pending[s] > 0
  /\ handlersCancelled => listener = "stopped" /\ (expired \/ Drained)
  /\ CutOnlyPastTheBudget

LEMMA DrainsFirstStep ==
  ASSUME DrainsFirst, [Next]_vars
  PROVE  DrainsFirst'
<1> USE DEF DrainsFirst, CutOnlyPastTheBudget, Drained
<1>1. CASE Sweep \/ SweepEnds \/ RequestNext \/ Signal \/ PoolClosed \/ Killed \/ UNCHANGED vars
           \/ Serve \/ ShutdownServer \/ ServerDown \/ StopRefresher \/ Abandon \/ Close \/ Exit
  <2>1. UNCHANGED listenerVars
    BY <1>1 DEF Sweep, SweepEnds, RequestNext, Accept, RequestFails, CommitWrite,
         AfterItemWrite, RefreshEnds, Signal, PoolClosed, Killed, vars, Serve,
         ShutdownServer, ServerDown, StopRefresher, Abandon, Close, Exit
  <2> QED
    BY <2>1 DEF listenerVars
<1>2. CASE StopListener
  <2>1. UNCHANGED <<pending, handler, expired, handlersCancelled, connection>>
    BY <1>2 DEF StopListener
  <2>2. listener = "stopped" => listener' = "stopped"
    BY <1>2 DEF StopListener
  <2> QED
    BY <2>1, <2>2
<1>3. CASE SubscribeFails
  BY <1>3 DEF SubscribeFails
<1>4. ASSUME NEW s \in Subjects, Subscribe(s)
      PROVE  DrainsFirst'
  BY <1>4 DEF Subscribe
<1>5. ASSUME NEW s \in Subjects, Event(s)
      PROVE  DrainsFirst'
  <2>1. /\ UNCHANGED <<listener, handler, expired, handlersCancelled, connection>>
        /\ listener # "stopped"
        /\ pending' = [pending EXCEPT ![s] = @ + 1]
    BY <1>5 DEF Event
  <2> QED
    BY <2>1
<1>6. ASSUME NEW s \in Subjects, BeginHandle(s)
      PROVE  DrainsFirst'
  BY <1>6 DEF BeginHandle
<1>7. ASSUME NEW s \in Subjects, CutHandle(s)
      PROVE  DrainsFirst'
  <2>1. /\ UNCHANGED <<listener, pending, expired, handlersCancelled, connection>>
        /\ handler[s] = "running" /\ handlersCancelled
        /\ handler' = [handler EXCEPT ![s] = "cut"]
    BY <1>7 DEF CutHandle, HandlerContextDone
  <2>2. expired \/ connection = "closed"
    BY <2>1
  <2> QED
    BY <2>1, <2>2
<1>8. ASSUME NEW s \in Subjects, EndHandle(s)
      PROVE  DrainsFirst'
  <2>1. /\ UNCHANGED <<listener, expired, handlersCancelled, connection>>
        /\ handler[s] # "idle"
        /\ handler' = [handler EXCEPT ![s] = "idle"]
        /\ pending' = [pending EXCEPT ![s] = @ - 1]
    BY <1>8 DEF EndHandle
  <2>2. pending[s] > 0 /\ pending' \in [Subjects -> Nat]
    BY <2>1
  <2> QED
    BY <2>1, <2>2
<1>9. CASE ListenerDrained \/ ListenerExpires
  BY <1>9 DEF ListenerDrained, ListenerExpires
<1>10. CASE ConnectionCloses
  <2>1. /\ UNCHANGED <<listener, handler, expired, handlersCancelled>>
        /\ connection' = "closed"
        /\ pending' = [s \in Subjects |-> IF handler[s] = "idle" THEN 0 ELSE 1]
    BY <1>10 DEF ConnectionCloses
  <2> QED
    BY <2>1
<1> QED
  BY <1>1, <1>2, <1>3, <1>4, <1>5, <1>6, <1>7, <1>8, <1>9, <1>10 DEF Next, ListenerNext, MainNext

\* No handler is cut short by the signal: only once the drain budget ran out or
\* the NATS connection closed, however the two race the handlers (the listener's
\* Start detaches the handlers' context; the stop functions wait for them).
THEOREM CutOnlyPastTheBudgetHolds == Spec => []CutOnlyPastTheBudget
<1>1. Init => DrainsFirst
  BY DEF Init, DrainsFirst, CutOnlyPastTheBudget
<1>2. DrainsFirst => CutOnlyPastTheBudget
  BY DEF DrainsFirst
<1> QED
  BY <1>1, <1>2, DrainsFirstStep, PTL DEF Spec

\* The listener's own account of its subscriptions, which the server waits for.
AttachesWhole ==
  /\ attached \subseteq Subjects
  /\ listener = "attached" => attached = Subjects
  /\ listener = "stopped" => attached = {}
  /\ main = "serving" => listener \in {"attached", "stopped"}

LEMMA AttachesWholeStep ==
  ASSUME AttachesWhole, [Next]_vars
  PROVE  AttachesWhole'
<1> USE DEF AttachesWhole
<1>1. CASE Sweep \/ SweepEnds \/ RequestNext \/ Signal \/ PoolClosed \/ Abandon \/ UNCHANGED vars
  <2>1. UNCHANGED <<main, listener, attached>>
    BY <1>1 DEF Sweep, SweepEnds, RequestNext, Accept, RequestFails, CommitWrite,
         AfterItemWrite, RefreshEnds, Signal, PoolClosed, Abandon, vars, procVars, listenerVars
  <2> QED
    BY <2>1
<1>2. CASE ShutdownServer \/ ServerDown \/ StopRefresher \/ Close \/ Exit \/ Killed
  <2>1. UNCHANGED <<listener, attached>> /\ main' # "serving"
    BY <1>2 DEF ShutdownServer, ServerDown, StopRefresher, Close, Exit, Killed, Go, listenerVars
  <2> QED
    BY <2>1
<1>3. CASE Serve
  BY <1>3 DEF Serve, Go, listenerVars
<1>4. CASE StopListener
  BY <1>4 DEF StopListener, Go
<1>5. CASE SubscribeFails
  BY <1>5 DEF SubscribeFails, AfterRefusal, procVars
<1>6. ASSUME NEW s \in Subjects, Subscribe(s)
      PROVE  AttachesWhole'
  BY <1>6 DEF Subscribe, procVars
<1>7. ASSUME NEW s \in Subjects, Event(s) \/ BeginHandle(s) \/ CutHandle(s) \/ EndHandle(s)
      PROVE  AttachesWhole'
  BY <1>7 DEF Event, BeginHandle, CutHandle, EndHandle, procVars
<1>8. CASE ListenerDrained \/ ListenerExpires \/ ConnectionCloses
  BY <1>8 DEF ListenerDrained, ListenerExpires, ConnectionCloses, procVars
<1> QED
  BY <1>1, <1>2, <1>3, <1>4, <1>5, <1>6, <1>7, <1>8 DEF Next, ListenerNext, MainNext

\* Whichever subscription fails, the process serves with every subject or with
\* none ("A half-attached listener is worse than none").
THEOREM NeverHalfAttachedHolds == Spec => []NeverHalfAttached
<1>1. Init => AttachesWhole
  BY DEF Init, AttachesWhole
<1>2. AttachesWhole => NeverHalfAttached
  BY DEF AttachesWhole, NeverHalfAttached
<1> QED
  BY <1>1, <1>2, AttachesWholeStep, PTL DEF Spec
-----------------------------------------------------------------------------
(* The refresher's counters.                                               *)

Asking == {r \in Requests : request[r] = "asking"}
Running == {r \in Requests : refresh[r] = "running"}

\* A write starts its refresh once, after it was counted, and the counters add
\* up to what has begun.
Balanced ==
  /\ request \in [Requests -> {"none", "writing", "asking", "answered"}]
  /\ refresh \in [Requests -> {"none", "running"}]
  /\ \A r \in Requests : refresh[r] = "running" => request[r] = "answered"
  /\ counts \in [Counters -> Nat]
  /\ IsFiniteSet(Asking) /\ IsFiniteSet(Running)
  /\ CountsBalance

USE DEF Outcomes, Counters

LEMMA BalancedStep ==
  ASSUME Balanced, [Next]_vars
  PROVE  Balanced'
<1>0. /\ counts \in [Counters -> Nat]
      /\ Cardinality(Asking) \in Nat /\ Cardinality(Running) \in Nat
      /\ counts["requested"] = Cardinality(Asking) + Cardinality(Running) + counts["published"]
           + counts["skipped"] + counts["failed"] + counts["dropped"]
  BY FS_CardinalityType DEF Balanced, CountsBalance, InFlight, Asking, Running
<1>a. ASSUME /\ request' \in [Requests -> {"none", "writing", "asking", "answered"}]
             /\ refresh' \in [Requests -> {"none", "running"}]
             /\ \A r \in Requests : refresh'[r] = "running" => request'[r] = "answered"
             /\ counts' \in [Counters -> Nat]
             /\ IsFiniteSet(Asking') /\ IsFiniteSet(Running')
             /\ counts'["requested"] = Cardinality(Asking') + Cardinality(Running')
                  + counts'["published"] + counts'["skipped"] + counts'["failed"]
                  + counts'["dropped"]
      PROVE  Balanced'
  BY <1>a DEF Balanced, CountsBalance, InFlight, Asking, Running
<1>1. CASE ListenerNext \/ Sweep \/ SweepEnds \/ Signal \/ MainNext \/ PoolClosed \/ Killed
           \/ UNCHANGED vars
  <2>1. UNCHANGED <<request, refresh, counts>>
    BY <1>1 DEF ListenerNext, Sweep, SweepEnds, Signal, SubscribeFails, ConnectionCloses,
         ListenerDrained, ListenerExpires, Subscribe, Event, BeginHandle, CutHandle, EndHandle, MainNext,
         Serve, StopListener, ShutdownServer, ServerDown, StopRefresher, Abandon, Close,
         Exit, PoolClosed, Killed, serverVars, refresherVars, vars
  <2> QED
    BY <2>1 DEF Balanced, CountsBalance, InFlight, Asking, Running
<1>2. ASSUME NEW r \in Requests, Accept(r) \/ RequestFails(r)
      PROVE  Balanced'
  <2>1. PICK where \in {"writing", "answered"} :
          /\ request' = [request EXCEPT ![r] = where] /\ UNCHANGED <<refresh, counts>>
          /\ request[r] \in {"none", "writing"}
    BY <1>2 DEF Accept, RequestFails, refresherVars
  <2>2. Asking' = Asking /\ Running' = Running
    BY <2>1 DEF Asking, Running, Balanced
  <2> QED
    BY <1>0, <1>a, <2>1, <2>2 DEF Balanced
<1>3. ASSUME NEW r \in Requests, CommitWrite(r)
      PROVE  Balanced'
  <2>1. /\ request' = [request EXCEPT ![r] = "asking"] /\ UNCHANGED refresh
        /\ request[r] = "writing"
        /\ counts' = [counts EXCEPT !["requested"] = @ + 1]
    BY <1>3 DEF CommitWrite
  <2>2. Asking' = Asking \cup {r} /\ r \notin Asking /\ Running' = Running
    BY <2>1 DEF Asking, Running, Balanced
  <2>3. IsFiniteSet(Asking') /\ Cardinality(Asking') = Cardinality(Asking) + 1
    BY <2>2, FS_AddElement DEF Balanced
  <2> QED
    BY <1>0, <1>a, <2>1, <2>2, <2>3 DEF Balanced
<1>4. ASSUME NEW r \in Requests, AfterItemWrite(r)
      PROVE  Balanced'
  <2>1. request' = [request EXCEPT ![r] = "answered"] /\ request[r] = "asking"
    BY <1>4 DEF AfterItemWrite
  <2>2. Asking' = Asking \ {r} /\ r \in Asking
    BY <2>1 DEF Asking, Balanced
  <2>3. IsFiniteSet(Asking') /\ Cardinality(Asking') = Cardinality(Asking) - 1
    BY <2>2, FS_RemoveElement DEF Balanced
  <2>4. CASE Refuses
    <3>1. counts' = [counts EXCEPT !["dropped"] = @ + 1] /\ UNCHANGED refresh
      BY <1>4, <2>4 DEF AfterItemWrite, Dropped
    <3>2. Running' = Running
      BY <3>1 DEF Running
    <3> QED
      BY <1>0, <1>a, <2>1, <2>3, <3>1, <3>2 DEF Balanced
  <2>5. CASE ~Refuses
    <3>1. counts' = counts /\ refresh' = [refresh EXCEPT ![r] = "running"]
      BY <1>4, <2>5 DEF AfterItemWrite
    <3>2. Running' = Running \cup {r} /\ r \notin Running
      BY <2>1, <3>1 DEF Running, Balanced
    <3>3. IsFiniteSet(Running') /\ Cardinality(Running') = Cardinality(Running) + 1
      BY <3>2, FS_AddElement DEF Balanced
    <3> QED
      BY <1>0, <1>a, <2>1, <2>3, <3>1, <3>3 DEF Balanced
  <2> QED
    BY <2>4, <2>5
<1>5. ASSUME NEW r \in Requests, RefreshEnds(r)
      PROVE  Balanced'
  <2>1. PICK how \in {"published", "skipped", "failed"} :
          counts' = [counts EXCEPT ![how] = @ + 1]
    BY <1>5 DEF RefreshEnds, Counted
  <2>2. refresh' = [refresh EXCEPT ![r] = "none"] /\ refresh[r] = "running" /\ UNCHANGED request
    BY <1>5 DEF RefreshEnds, serverVars
  <2>3. Running' = Running \ {r} /\ r \in Running /\ Asking' = Asking
    BY <2>2 DEF Running, Asking, Balanced
  <2>4. IsFiniteSet(Running') /\ Cardinality(Running') = Cardinality(Running) - 1
    BY <2>3, FS_RemoveElement DEF Balanced
  <2> QED
    BY <1>0, <1>a, <2>1, <2>2, <2>3, <2>4 DEF Balanced
<1> QED
  BY <1>1, <1>2, <1>3, <1>4, <1>5 DEF Next, RequestNext

\* Nothing is counted twice or not at all - not on a refusal, a panic or an
\* abandoned call ("Requested less the other four is the number in flight").
THEOREM CountsBalanceHolds == Spec => []CountsBalance
<1>1. Init => Balanced
  <2>1. ASSUME Init
        PROVE  /\ Asking = {} /\ Running = {}
               /\ counts \in [Counters -> Nat] /\ \A c \in Counters : counts[c] = 0
    BY <2>1 DEF Init, Asking, Running
  <2>2. ASSUME Init
        PROVE  CountsBalance
    BY <2>1, <2>2, FS_EmptySet DEF CountsBalance, InFlight, Asking, Running
  <2> QED
    BY <2>1, <2>2, FS_EmptySet DEF Init, Balanced
<1>2. Balanced => CountsBalance
  BY DEF Balanced
<1> QED
  BY <1>1, <1>2, BalancedStep, PTL DEF Spec
=============================================================================
